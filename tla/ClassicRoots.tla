---------------------------- MODULE ClassicRoots -----------------------------
(***************************************************************************)
(* The roots of a Classic description (src/xgen_classic_roots.cpp): where its *)
(* generator places them, the guides that reach each root, their motion with  *)
(* the surface, and the curves between the guides.                           *)
(*                                                                          *)
(* A description is [name, id, objects, patches, generators]; an object is     *)
(* [type, ...] with its attributes.  A weight is a share of WeightUnit, an     *)
(* expression has the fixed point of Whole, and a source may have the tokens   *)
(* "map", with a path, and "~".                                              *)
(***************************************************************************)
EXTENDS GuideCache, ExpressionValues, DeviceContract

CONSTANTS
  SampleLimit,      \* kXgenMaximumUniqueSample
  Compiled(_, _)    \* CompileExpression of Expression: the program of a source, or NoProgram

WeightUnit == 1000

NoPlan == [fits |-> FALSE]

ObjectsOf(d, type) == SelectSeq(d.objects, LAMBDA o : o.type = type)

OnlyPart(name) == <<name, name>>

-----------------------------------------------------------------------------
(* Masks: map() calls become the inputs of an expression *)

MapInput(i) == "__nxg_map_" \o ToString(i)

\* The tokens of a line with its map calls numbered and ~$x turned into (1.0-$x).
BindLine(sum, line) ==
  LET Add(s, token) ==
        LET bound == IF token.kind = "map" THEN Variable(MapInput(Len(s.paths))) ELSE token
            inverts == bound.kind = "variable" /\ s.tokens # <<>> /\ Last(s.tokens).kind = "~"
            one == [kind |-> "number", text |-> "", number |-> Whole]
        IN [paths |-> IF token.kind = "map" THEN Append(s.paths, token.path) ELSE s.paths,
            tokens |-> IF inverts THEN Front(s.tokens) \o <<Symbol("("), one, Symbol("-"), bound, Symbol(")")>>
                       ELSE Append(s.tokens, bound)]
      done == FoldLeft(Add, [paths |-> sum.paths, tokens |-> <<>>], line.tokens)
  IN [paths |-> done.paths, lines |-> Append(sum.lines, [tokens |-> done.tokens, comment |-> FALSE])]

MaskOptions ==
  [name |-> "mask", object |-> "RandomGenerator", instructions |-> 64, locals |-> 8, tokens |-> 64]

\* bind_maps(): every input is a map, in the order of the calls.
BindMaps(source, directory, patch, disk) ==
  LET bound == FoldLeft(BindLine, [paths |-> <<>>, lines |-> <<>>], source)
      maps == [i \in DOMAIN bound.paths |-> OpenFile(bound.paths[i], directory, OnlyPart(patch), "ptx", disk)]
      program == Compiled(bound.lines, MaskOptions)
  IN [fits |-> /\ \A i \in DOMAIN maps : IsMap(maps[i])
               /\ program # NoProgram
               /\ program.inputs = [i \in DOMAIN maps |-> MapInput(i - 1)],
      program |-> program, maps |-> maps]

\* A texel as a number.
Shade(value) == (value * Whole) \div 255

MaskContext(d, patch, face, uv, inputs) ==
  [inputs |-> inputs, u |-> (uv[1] * Whole) \div Grid, v |-> (uv[2] * Whole) \div Grid,
   faceSeed |-> FaceSeed(d.id, patch, face), t |-> 0, stray |-> 0, prefix |-> <<>>]

MaskInputs(maps, face, uv) == [i \in DOMAIN maps |-> Shade(PointSample(maps[i], face, uv, 0))]

One == << [tokens |-> <<[kind |-> "number", text |-> "", number |-> Whole]>>, comment |-> FALSE] >>
Nought == << [tokens |-> <<[kind |-> "number", text |-> "", number |-> 0]>>, comment |-> FALSE] >>

SourceOr(source, otherwise) == IF source = <<>> THEN otherwise ELSE source

\* evaluate_xgen_classic_random_mask()
RandomMask(d, directory, patch, face, uv, disk) ==
  LET generators == ObjectsOf(d, "RandomGenerator")
      mask == BindMaps(SourceOr(generators[1].mask, One), directory, patch, disk)
  IN IF Len(generators) # 1 THEN Invalid
     ELSE IF ~mask.fits \/ \E m \in Range(mask.maps) : face >= Len(m.faces) THEN Invalid
     ELSE EvaluateFloat(FloatProgram(mask.program),
                        MaskContext(d, patch, face, uv, MaskInputs(mask.maps, face, uv)))

-----------------------------------------------------------------------------
(* GuideRegionBinding: guides reach less far into other painted regions. *)

NoRegions == [fits |-> TRUE, there |-> FALSE]

Regions(d, directory, patch, guides, disk) ==
  LET primitives == ObjectsOf(d, "SplinePrimitive")
      p == primitives[1]
      path == ResolveFile(p.regionMap[1], directory, OnlyPart(patch), "ptx", disk)
      mask == BindMaps(SourceOr(p.regionMask, Nought), directory, patch, disk)
      map == disk[path]
  IN IF Len(primitives) # 1 \/ p.regionMap = <<>> THEN NoRegions
     ELSE IF ~SafeComponent(OnlyPart(patch)) THEN [NoRegions EXCEPT !.fits = FALSE]
     ELSE IF path \notin DOMAIN disk THEN NoRegions
     ELSE [fits |-> /\ IsMap(map) /\ map.channels >= 3 /\ mask.fits
                    /\ \A g \in Range(guides) : g.face < Len(map.faces),
           there |-> TRUE, map |-> map, mask |-> mask,
           guides |-> [i \in DOMAIN guides |-> MapId(map, guides[i].face, guides[i].uv)]]

\* guide_scale(): white texels of the mask keep the guides of other regions away.
GuideScale(d, regions, patch, i, face, uv) ==
  LET maps == regions.mask.maps
      inputs == [m \in DOMAIN maps |-> Whole - MaskInputs(maps, face, uv)[m]]
      value == EvaluateExact(regions.mask.program, MaskContext(d, patch, face, uv, inputs))
  IN IF ~regions.there THEN <<Whole>>
     ELSE IF face >= Len(regions.map.faces) THEN Invalid
     ELSE IF MapId(regions.map, face, uv) = regions.guides[i] THEN <<Whole>>
     ELSE IF (\E m \in Range(maps) : face >= Len(m.faces)) \/ value = Invalid THEN Invalid
     ELSE <<Clamped(value[1], 0, Whole)>>

-----------------------------------------------------------------------------
(* GuideSupportIndex *)

\* guide_weight(): the fade at grazing normals is 0 on the axes.
GuideWeight(g, position, normal) ==
  LET offset == Minus(position, g.referenceRoot)
      broad == g.radii[1]
      radius == IF g.angles = <<>> THEN broad ELSE DirectionalRadius(g, g.referenceFrame.tangent, offset)
  IN IF Dot(normal, g.referenceFrame.normal) <= 0 \/ LengthSquared(offset) >= broad * broad \/ radius <= 0
     THEN 0
     ELSE Max({0, ((radius - Length(offset)) * WeightUnit) \div radius})

\* evaluate_xgen_classic_guide_weight()
PublicGuideWeight(g, position, normal) == IF g.radii = <<>> THEN 0 ELSE GuideWeight(g, position, normal)

\* Whether guides have support, and whether roots can be found with it.
HasSupport(in) == \E g \in Range(in.guides) : g.radii # <<>>

SupportIndexFits(in) ==
  HasSupport(in) =>
    /\ \A g \in Range(in.guides) : g.radii # <<>>
    /\ Len(in.reference) = Len(in.positions) /\ Len(in.referenceNormals) = Len(in.positions)
    /\ \E g \in Range(in.guides) : g.radii[1] > 0

\* Mutation of CellSize: the grid is as fine as the last guide.
CellSizeLast(in) == Max({1, Last(in.guides).radii[1]})

CellSize(in) == Max({g.radii[1] : g \in Range(in.guides)})

Cell(in, p) == [i \in 1 .. 3 |-> p[i] \div CellSize(in)]

\* The box of the face widened by the guide's own radius, strictly inside.
InFaceBox(g, face) ==
  \A i \in 1 .. 3 :
    /\ g.referenceRoot[i] > face.bounds.min[i] - g.radii[1]
    /\ g.referenceRoot[i] < face.bounds.max[i] + g.radii[1]

\* gather(): the guides of the 27 cells around the position, in their order.
Gather(d, in, regions, face, sample, uv) ==
  LET centre == Cell(in, sample.position)
      Near(g) == \A i \in 1 .. 3 : Size(Cell(in, g.referenceRoot)[i] - centre[i]) <= 1
      Scaled(i) == GuideScale(d, regions, face.patch, i, face.face, uv)
      candidates == {i \in DOMAIN in.guides : Near(in.guides[i]) /\ InFaceBox(in.guides[i], face)}
      Found(i) == [guide |-> i - 1,
                   weight |-> Product(GuideWeight(in.guides[i], sample.position, sample.normal), Scaled(i)[1])]
      order == InOrder(candidates, Len(in.guides))
  IN IF ~HasSupport(in) THEN [fits |-> TRUE, influences |-> <<>>]
     ELSE IF \E i \in candidates : Scaled(i) = Invalid THEN [fits |-> FALSE, influences |-> <<>>]
     ELSE [fits |-> TRUE,
           influences |-> SelectSeq([k \in DOMAIN order |-> Found(order[k])], LAMBDA f : f.weight > 0)]

-----------------------------------------------------------------------------
(* A plan, one root after another *)

EmptyPlan(in) ==
  [fits |-> TRUE, roots |-> <<>>, patches |-> <<>>, references |-> <<>>, tangents |-> <<>>, ids |-> <<>>,
   prefixes |-> <<>>, offsets |-> IF HasSupport(in) THEN <<0>> ELSE <<>>, influences |-> <<>>, stats |-> <<>>,
   candidates |-> 0, masked |-> 0, culled |-> 0, unguided |-> 0]

Root(sample, uv, triangle, bary, face) ==
  [position |-> sample.position, normal |-> sample.normal, uv |-> uv, triangle |-> triangle, bary |-> bary,
   face |-> face]

\* The state of a hash after the root's own coordinates.
RandomPrefix(d, patch, face, uv) ==
  HashPrefix(<<(uv[1] * Whole) \div Grid, (uv[2] * Whole) \div Grid, FaceSeed(d.id, patch, face)>>)

AddRoot(plan, root, patch, reference, tangent, id, prefix, influences) ==
  [plan EXCEPT !.roots = Append(@, root), !.patches = Append(@, patch),
               !.references = Append(@, reference), !.tangents = Append(@, tangent),
               !.ids = Append(@, id), !.prefixes = Append(@, prefix),
               !.offsets = IF @ = <<>> THEN @ ELSE Append(@, Len(plan.influences) + Len(influences)),
               !.influences = @ \o influences]

-----------------------------------------------------------------------------
(* build_xgen_classic_random_root_plan() *)

RoundingOptions == [MaskOptions EXCEPT !.name = "roundOffInternal"]

Rand ==
  << [tokens |-> <<[kind |-> "name", text |-> "rand", number |-> 0], Symbol("("), Symbol(")")>>,
      comment |-> FALSE] >>

RoundingProgram == Compiled(Rand, RoundingOptions)

\* The number of candidates of a face, rounded by a number of the face's own.
Expected(d, face, density) ==
  LET expected == face.measure.area * density
      threshold == EvaluateExact(RoundingProgram, MaskContext(d, face.patch, face.face, <<0, 0>>, <<>>))[1]
  IN IF expected % Whole > threshold THEN expected + Whole ELSE expected

\* How much longer a face is along v than along u, as a pair of numbers.
Compensation(generator, face) ==
  LET u == face.measure.u
      v == face.measure.v
  IN IF generator.scFlag \notin {"true", "1"} \/ u = 0 THEN <<1, 1>>
     ELSE IF 10 * v < u THEN <<1, 10>>
     ELSE IF v > 10 * u THEN <<10, 1>>
     ELSE IF 10000 * u <= 11001 * v /\ 10000 * v <= 11001 * u THEN <<1, 1>>
     ELSE <<v, u>>

\* A sample on the face; one that falls off is none.
Compensated(p, ratio) ==
  LET u == (p[1] * ratio[2]) \div ratio[1]
      v == (p[2] * ratio[1]) \div ratio[2]
  IN IF ratio[1] < ratio[2] THEN (IF p[1] * ratio[2] > Grid * ratio[1] THEN <<>> ELSE <<u, p[2]>>)
     ELSE IF ratio[1] > ratio[2] THEN (IF p[2] * ratio[1] > Grid * ratio[2] THEN <<>> ELSE <<p[1], v>>)
     ELSE p

FaceSamples(d, generator, face) ==
  LET group == (FaceSeed(d.id, face.patch, face.face) * 1600) \div Whole
      all == [i \in 1 .. SampleLimit + 1 |->
                Compensated(RandomSample(i - 1, d.id, group), Compensation(generator, face))]
  IN SelectSeq(all, LAMBDA p : p # <<>>)

CulledIds(patch, face) ==
  UNION {Range(c.ids) : c \in {e \in Range(patch.culled) : e.face = face}}

\* Candidate k of the face: the mask is compared with a ramp over the candidates,
\* then the patch and the guides have their say.
AddCandidate(plan, d, in, mask, regions, face, uv, k, expected, limits) ==
  LET value == EvaluateExact(mask.program,
                             MaskContext(d, face.patch, face.face, uv, MaskInputs(mask.maps, face.face, uv)))
      probability == Clamped(value[1], 0, Whole)
      current == SurfaceAt(in, face.patch, face.face, uv, FALSE)
      reference == SurfaceAt(in, face.patch, face.face, uv, TRUE)
      place == GuideTriangle(d.patches[1], face.first, uv, face.resolution)
      found == Gather(d, in, regions, face, reference, uv)
      counted == [plan EXCEPT !.stats[Len(plan.stats)].accepted = @ + 1]
  IN IF ~plan.fits THEN plan
     ELSE IF (\E m \in Range(mask.maps) : face.face >= Len(m.faces)) \/ value = Invalid THEN NoPlan
     ELSE IF (k - 1) * Whole * Whole >= probability * expected THEN [plan EXCEPT !.masked = @ + 1]
     ELSE IF k \in CulledIds(d.patches[1], face.face) THEN [counted EXCEPT !.culled = @ + 1]
     ELSE IF ~EvaluationFits(in, face.patch, face.face, uv) \/ ~found.fits THEN NoPlan
     ELSE IF HasSupport(in) /\ found.influences = <<>> THEN [counted EXCEPT !.unguided = @ + 1]
     ELSE IF Len(plan.roots) >= limits.roots THEN NoPlan
     ELSE AddRoot([counted EXCEPT !.stats[Len(plan.stats)].roots = @ + 1],
                  Root(current, uv, place.triangle, place.bary, face.face),
                  face.patch, reference.position, current.tangent, k,
                  RandomPrefix(d, face.patch, face.face, uv), found.influences)

AddFace(plan, d, in, generator, mask, regions, face, limits) ==
  LET expected == Expected(d, face, generator.density[1])
      count == expected \div Whole
      samples == FaceSamples(d, generator, face)
      counted == [plan EXCEPT !.candidates = @ + count,
                              !.stats = Append(@, [face |-> face.face, candidates |-> count, accepted |-> 0,
                                                   roots |-> 0])]
  IN IF ~plan.fits \/ face.patch # d.patches[1].name \/ face.resolution = 0
        \/ face.count # face.resolution * face.resolution * 2
        \/ count > limits.candidates - plan.candidates \/ count > Len(samples)
     THEN NoPlan
     ELSE FoldLeft(LAMBDA sum, k :
                     AddCandidate(sum, d, in, mask, regions, face, samples[k], k, expected, limits),
                   counted, [k \in 1 .. count |-> k])

RandomRootPlan(d, in, directory, disk, limits) ==
  LET generators == ObjectsOf(d, "RandomGenerator")
      generator == generators[1]
      patch == d.patches[1].name
      mask == BindMaps(SourceOr(generator.mask, One), directory, patch, disk)
      regions == Regions(d, directory, patch, in.guides, disk)
  IN IF limits.candidates = 0 \/ limits.roots = 0 \/ Len(generators) # 1 THEN NoPlan
     ELSE IF generator.density = <<>> \/ generator.scFlag \notin {"", "true", "1", "false", "0"} THEN NoPlan
     ELSE IF in.faces = <<>> \/ Len(d.patches) # 1 THEN NoPlan
     ELSE IF ~mask.fits \/ ~regions.fits \/ ~SupportIndexFits(in) THEN NoPlan
     ELSE FoldLeft(LAMBDA plan, face : AddFace(plan, d, in, generator, mask, regions, face, limits),
                   EmptyPlan(in), in.faces)

-----------------------------------------------------------------------------
(* build_xgen_classic_root_plan(): a GuideGenerator has a root at each guide. *)

AuthoredGuides(d) ==
  FlattenSeq([p \in DOMAIN d.patches |->
    [g \in DOMAIN d.patches[p].guides |-> [patch |-> d.patches[p].name, guide |-> d.patches[p].guides[g]]]])

GuideRootFits(in, authored, i) ==
  LET g == in.guides[i]
      own == authored[i]
  IN /\ own.guide.id < InvalidIndex + 1
     /\ g.triangle < Len(in.triangles) /\ g.face = own.guide.face
     /\ EvaluationFits(in, own.patch, own.guide.face, own.guide.uv)

\* The statistics are those of the first face with the guide's number.
CountGuide(stats, id) ==
  LET i == Min({k \in DOMAIN stats : stats[k].face = id} \cup {Len(stats) + 1})
  IN IF i > Len(stats) THEN stats
     ELSE [stats EXCEPT ![i] = [@ EXCEPT !.candidates = @ + 1, !.accepted = @ + 1, !.roots = @ + 1]]

AddGuideRoot(plan, d, in, authored, i) ==
  LET g == in.guides[i]
      own == authored[i]
      current == SurfaceAt(in, own.patch, g.face, own.guide.uv, FALSE)
      reference == SurfaceAt(in, own.patch, g.face, own.guide.uv, TRUE)
  IN AddRoot([plan EXCEPT !.stats = CountGuide(@, g.face)],
             Root(current, own.guide.uv, g.triangle, g.bary, g.face), own.patch, reference.position,
             current.tangent, own.guide.id, RandomPrefix(d, own.patch, g.face, own.guide.uv),
             <<[guide |-> i - 1, weight |-> WeightUnit]>>)

GuideRootPlan(d, in, limits) ==
  LET authored == AuthoredGuides(d)
      n == Len(in.guides)
      start == [EmptyPlan(in) EXCEPT !.offsets = <<0>>, !.candidates = n,
                  !.stats = [f \in DOMAIN in.faces |-> [face |-> in.faces[f].face, candidates |-> 0,
                                                        accepted |-> 0, roots |-> 0]]]
  IN IF limits.candidates = 0 \/ limits.roots = 0 \/ n > limits.candidates \/ n > limits.roots THEN NoPlan
     ELSE IF Len(authored) # n \/ \E i \in 1 .. n : ~GuideRootFits(in, authored, i) THEN NoPlan
     ELSE FoldLeft(LAMBDA plan, i : AddGuideRoot(plan, d, in, authored, i), start, [i \in 1 .. n |-> i])

RootPlan(d, in, directory, disk, limits) ==
  IF [role |-> "Active", object |-> "GuideGenerator"] \in d.bindings THEN GuideRootPlan(d, in, limits)
  ELSE RandomRootPlan(d, in, directory, disk, limits)

-----------------------------------------------------------------------------
(* build_xgen_classic_explicit_root_plan(): points [face, uv, position, id]; an   *)
(* authored position is kept where the surface gives it too.                 *)

ExplicitRootPlan(d, in, directory, patch, samples, disk) ==
  LET regions == Regions(d, directory, patch, in.guides, disk)
      FaceOf(s) == CHOOSE f \in Range(in.faces) : f.patch = patch /\ f.face = s.face
      Add(plan, s) ==
        LET current == SurfaceAt(in, patch, s.face, s.uv, FALSE)
            reference == SurfaceAt(in, patch, s.face, s.uv, TRUE)
            found == Gather(d, in, regions, FaceOf(s), reference, s.uv)
        IN IF ~plan.fits \/ ~EvaluationFits(in, patch, s.face, s.uv)
              \/ ~(\E f \in Range(in.faces) : f.patch = patch /\ f.face = s.face) \/ ~found.fits
           THEN NoPlan
           ELSE IF found.influences = <<>> THEN plan
           ELSE AddRoot(plan, Root(current, s.uv, 0, <<0, 0>>, s.face), patch, reference.position,
                        current.tangent, s.id, RandomPrefix(d, patch, s.face, s.uv), found.influences)
  IN IF ~regions.fits \/ ~SupportIndexFits(in) \/ ~HasSupport(in) THEN NoPlan
     ELSE FoldLeft(Add, EmptyPlan(in), samples)

-----------------------------------------------------------------------------
(* prepare_xgen_classic_root_deformation(), deform_xgen_classic_root_plan() *)

FaceIndex(in, patch, id) ==
  {i \in DOMAIN in.faces : in.faces[i].patch = patch /\ in.faces[i].face = id}

\* The face of each root; no two roots are at one place, no two faces are one.
RootTopology(plan, in) ==
  LET n == Len(plan.roots)
      faces == [i \in 1 .. n |-> FaceIndex(in, plan.patches[i], plan.roots[i].face)]
  IN IF n = 0 \/ Len(plan.offsets) # n + 1 THEN <<>>
     ELSE IF \E i, j \in DOMAIN in.faces :
               i # j /\ in.faces[i].patch = in.faces[j].patch /\ in.faces[i].face = in.faces[j].face THEN <<>>
     ELSE IF (\E i \in 1 .. n : faces[i] = {})
             \/ ~IsInjective([i \in 1 .. n |-> <<faces[i], plan.roots[i].uv>>]) THEN <<>>
     ELSE [i \in 1 .. n |-> Min(faces[i])]

\* A root of a subdivided face is evaluated again; another keeps its triangle.
DeformedRoot(plan, in, face, i) ==
  LET root == plan.roots[i]
      current == SurfaceAt(in, face.patch, face.face, root.uv, FALSE)
      place == GuideTriangle([type |-> "Subd"], face.first, root.uv, face.resolution)
      t == At(in.triangles, root.triangle)
  IN IF face.resolution # 0
     THEN [root |-> [root EXCEPT !.position = current.position, !.normal = current.normal,
                                 !.triangle = place.triangle, !.bary = place.bary],
           tangent |-> current.tangent]
     ELSE [root |-> [root EXCEPT !.position = OnMesh(in.positions, t, root.bary),
                                 !.normal = Normalize(Mixed(in.normals, t, root.bary))],
           tangent |-> Normalize(Minus(At(in.positions, t[2]), At(in.positions, t[1])))]

DeformedRootFits(plan, in, topology, i) ==
  LET face == in.faces[topology[i]]
      root == plan.roots[i]
  IN /\ topology[i] <= Len(in.faces)
     /\ face.patch = plan.patches[i] /\ face.face = root.face
     /\ IF face.resolution # 0 THEN EvaluationFits(in, face.patch, face.face, root.uv)
        ELSE root.triangle < Len(in.triangles)

DeformRoots(plan, topology, in) ==
  IF Len(topology) # Len(plan.roots) THEN <<>>
  ELSE IF \E i \in DOMAIN plan.roots : ~DeformedRootFits(plan, in, topology, i) THEN <<>>
  ELSE [i \in DOMAIN plan.roots |-> DeformedRoot(plan, in, in.faces[topology[i]], i)]

-----------------------------------------------------------------------------
(* xgen_rebuild_uniform(): a guide with another number of CVs, evenly apart *)

\* xgen_curve_eval() at a fraction num / den of span s, from 1.
CurveAt(cvs, s, num, den) ==
  LET n == Len(cvs)
      rest == den - num
      before == IF s = 1 THEN Minus(Times(cvs[1], 2), cvs[2]) ELSE cvs[s - 1]
      after == IF s + 1 = n THEN Minus(Times(cvs[n], 2), cvs[n - 1]) ELSE cvs[s + 2]
      b == << rest * rest * rest,
              3 * num * num * num - 6 * num * num * den + 4 * den * den * den,
              3 * num * num * den + 3 * num * den * den + den * den * den - 3 * num * num * num,
              num * num * num >>
      sum == VectorSum(<<Times(before, b[1]), Times(cvs[s], b[2]), Times(cvs[s + 1], b[3]), Times(after, b[4])>>)
      Part(i) == sum[i] \div (6 * den * den * den)
  IN <<Part(1), Part(2), Part(3)>>

SegmentLengths(cvs) == [s \in 1 .. Len(cvs) - 1 |-> Length(Minus(cvs[s + 1], cvs[s]))]

\* The CV at the share k / last of the length.
RebuiltCv(cvs, k, last) ==
  LET lengths == SegmentLengths(cvs)
      total == NumberSum(lengths)
      Reached(s) == NumberSum(SubSeq(lengths, 1, s)) * last
      s == Min({i \in DOMAIN lengths : k * total <= Reached(i)} \cup {Len(lengths)})
      rest == k * total - Reached(s - 1)
  IN IF k = 0 THEN Head(cvs)
     ELSE IF k = last THEN Last(cvs)
     ELSE IF total = 0 THEN LET spans == Len(cvs) - 1
                            IN CurveAt(cvs, (k * spans) \div last + 1, (k * spans) % last, last)
     ELSE IF rest = lengths[s] * last /\ s = Len(lengths) THEN Last(cvs)
     ELSE IF rest = lengths[s] * last THEN CurveAt(cvs, s + 1, 0, 1)
     ELSE IF lengths[s] = 0 THEN CurveAt(cvs, s, 0, 1)
     ELSE CurveAt(cvs, s, rest, lengths[s] * last)

RebuildUniform(cvs, count) ==
  LET n == Max({count, 3})
  IN Evaluated([k \in 1 .. n |-> IF Len(cvs) = 1 THEN Head(cvs) ELSE RebuiltCv(cvs, k - 1, n - 1)])

\* rebuild_xgen_classic_guides_for_device()
RebuiltGuides(in, cvs) ==
  FlattenSeq([g \in DOMAIN in.guides |-> RebuildUniform(in.guides[g].cvs, cvs)])

-----------------------------------------------------------------------------
(* generate_xgen_classic_base_curves_cpu() *)

InfluencesOf(plan, s) == SubSeq(plan.influences, plan.offsets[s] + 1, plan.offsets[s + 1])

BaseRequestFits(in, plan, cvs, diameter, radiusScale) ==
  /\ cvs >= 3 /\ plan.roots # <<>>
  /\ Len(plan.offsets) = Len(plan.roots) + 1
  /\ Head(plan.offsets) = 0 /\ Last(plan.offsets) = Len(plan.influences)
  /\ diameter >= 0 /\ radiusScale >= 0
  /\ \A s \in DOMAIN plan.roots :
       InfluencesOf(plan, s) # <<>>
       /\ \A f \in Range(InfluencesOf(plan, s)) : f.guide < Len(in.guides) /\ f.weight > 0

BaseCurve(in, plan, s, cvs, rootRelative) ==
  LET own == InfluencesOf(plan, s)
      total == NumberSum([i \in DOMAIN own |-> own[i].weight])
      Guide(i) == RebuildUniform(in.guides[own[i].guide + 1].cvs, cvs)
      Local(c) == [at |-> VectorSum([i \in DOMAIN own |->
                            Times(Minus(Guide(i)[c], Guide(i)[1]), own[i].weight)]), over |-> total]
      Cv(c) == IF rootRelative THEN Local(c) ELSE PlacePlus(Place(plan.roots[s].position), Local(c))
  IN Evaluated([c \in 1 .. cvs |-> Cv(c)])

BaseCurves(in, plan, cvs, diameter, radiusScale, rootRelative) ==
  IF ~BaseRequestFits(in, plan, cvs, diameter, radiusScale) THEN <<>>
  ELSE Evaluated([s \in DOMAIN plan.roots |-> BaseCurve(in, plan, s, cvs, rootRelative)])

\* make_xgen_classic_curves_world_space()
WorldSpace(points, root) == [c \in DOMAIN points |-> Plus(points[c], root.position)]

=============================================================================
