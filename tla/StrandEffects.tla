---------------------------- MODULE StrandEffects ----------------------------
(***************************************************************************)
(* A plan applied to the curves of its strands on the host                   *)
(* (src/xgen_classic_runtime.cpp, apply_xgen_classic_float_runtime) and by     *)
(* the kernels of a device (src/luisa/xgen_classic_runtime.cpp).             *)
(*                                                                          *)
(* A strand is [points, radii, root, id, prefix, row, tangent, domain,        *)
(* clumps]: for each clump of the plan its guide, or none.  A guide is        *)
(* [axis, local, normal, tangent, domain, uv, face, prefix, row].  Points have *)
(* the fixed point of Whole, and a parameter runs from 0 to Whole.            *)
(***************************************************************************)
EXTENDS ClassicLowering

\* Lengths and widths below it count as nothing: 1 / 10000 in the code.
Tiny == 1

\* The value of an expression, of which Given says that it has one.
Has(in, e, c) == EvaluateRuntime(in, e[1], c) # Invalid
Value(in, e, c) == EvaluateRuntime(in, e[1], c)[1]
HasIf(in, e, c) == e # <<>> => Has(in, e, c)
ValueOr(in, e, c, otherwise) == IF e = <<>> THEN otherwise ELSE Value(in, e, c)

Percent(n) == Clamped(n \div 100, 0, Whole)
NotNegative(n) == Max({n, 0})
ToParameter(cv, count) == (cv * Whole) \div (count - 1)

Scaled(vector, factor) ==
  <<Product(vector[1], factor), Product(vector[2], factor), Product(vector[3], factor)>>

-----------------------------------------------------------------------------
(* Curves *)

\* Mutation of ScaleCurve: about the origin of the world.
ScaleCurveAboutOrigin(points, factor) == [k \in DOMAIN points |-> Scaled(points[k], factor)]

ScaleCurve(points, factor) ==
  Evaluated([k \in DOMAIN points |-> Plus(points[1], Scaled(Minus(points[k], points[1]), factor))])

\* The cubic with the four points around part f of a span.
Cubic(p0, p1, p2, p3, f) ==
  LET rest == Whole - f
      b0 == rest * rest * rest
      b1 == 3 * f * f * f - 6 * f * f * Whole + 4 * Whole * Whole * Whole
      b2 == 3 * f * f * Whole - 3 * f * f * f + 3 * f * Whole * Whole + Whole * Whole * Whole
      sum == Plus(Plus(Times(p0, b0), Times(p1, b1)), Plus(Times(p2, b2), Times(p3, f * f * f)))
      Part(i) == sum[i] \div (6 * Whole * Whole * Whole)
  IN <<Part(1), Part(2), Part(3)>>

\* xgen_curve_eval(): the ends are those of the curve, and mirrored beyond.
SplineAt(points, t) ==
  LET n == Len(points)
      scaled == t * (n - 1)
      span == scaled \div Whole
      before == IF span = 0 THEN Minus(Times(points[1], 2), points[2]) ELSE points[span]
      after == IF span + 2 = n THEN Minus(Times(points[n], 2), points[n - 1]) ELSE points[span + 3]
  IN IF t <= 0 THEN points[1]
     ELSE IF t >= Whole THEN points[n]
     ELSE Cubic(before, points[span + 1], points[span + 2], after, scaled % Whole)

PathLength(points) == NumberSum([k \in 1 .. Len(points) - 1 |-> Length(Minus(points[k + 1], points[k]))])

Intervals(points) == 2 * Len(points) + 4

\* curve_spline_length()
SplineSamples(points) ==
  <<points[1]>> \o [k \in 1 .. Intervals(points) - 1 |-> SplineAt(points, (k * Whole) \div Intervals(points))]
    \o <<Last(points)>>

SplineLength(points) == PathLength(SplineSamples(points))

Rebuilt(points, parameter) ==
  Evaluated([k \in DOMAIN points |->
    IF k = 1 THEN points[1] ELSE SplineAt(points, (parameter * (k - 1)) \div (Len(points) - 1))])

\* The search of a length along samples: s is [done, parameter, at, from, length].
SearchStep(points, target, s, next) ==
  LET here == SplineAt(points, next)
      segment == Length(Minus(here, s.from))
      length == s.length + segment
      hit == length >= target /\ segment > 0
  IN IF s.done THEN s
     ELSE IF hit
     THEN [s EXCEPT !.done = TRUE, !.parameter = next - ((length - target) * (next - s.at)) \div segment]
     ELSE [s EXCEPT !.at = next, !.from = here, !.length = length]

SampleParameters(points) ==
  [k \in 1 .. Intervals(points) |-> (k * Whole) \div Intervals(points)]

\* cut_from_tip_and_rebuild(): what is cut off is measured from the tip.
CutFromTip(points, amount) ==
  LET start == [done |-> amount = 0, parameter |-> IF amount = 0 THEN Whole ELSE 0, at |-> Whole,
                from |-> Last(points), length |-> 0]
      down == Append(Tail(Reverse(SampleParameters(points))), 0)
      parameter == FoldLeft(LAMBDA s, t : SearchStep(points, amount, s, t), start, down).parameter
  IN [parameter |-> parameter, points |-> Rebuilt(points, parameter)]

\* cut_to_length_and_rebuild(): a curve that is shorter is rebuilt as well.
CutToLength(points, target) ==
  LET start == [done |-> FALSE, parameter |-> Whole, at |-> 0, from |-> points[1], length |-> 0]
      search == FoldLeft(LAMBDA s, t : SearchStep(points, target, s, t), start, SampleParameters(points))
  IN IF target = 0 THEN Evaluated([k \in DOMAIN points |-> points[1]])
     ELSE Rebuilt(points, search.parameter)

-----------------------------------------------------------------------------
(* Noise *)

\* xgen_classic_noise_float() - 1/2, of the lattice cell.
ClassicNoise(place) ==
  LET cell == [i \in 1 .. 3 |-> place[i] \div Whole]
  IN ((cell[1] + 3 * cell[2] + 5 * cell[3]) % 5) * (Whole \div 8) - Whole \div 4

\* At least half a cycle on the curve.
EffectiveFrequency(length, frequency) ==
  IF length > 0 THEN Max({(Whole * Whole) \div (2 * length), frequency}) ELSE frequency

NoiseDomain(position, correlation) ==
  Times(position, ((Whole - correlation) * (Whole - correlation) * 4) \div (Whole * Whole))

FallbackSurfaceU(normal) == Normalize(Cross(normal, IF normal[3] = 0 THEN <<0, 0, 1>> ELSE <<0, 1, 0>>))

Shifted(domain, axis, distance) == [domain EXCEPT ![axis] = @ + distance]

\* apply_noise(): the frame is carried along the curve as it was before.
NoiseStep(points, tangents, normals, k) ==
  LET n == Len(points)
      segment == IF k < n THEN Minus(points[k + 1], points[k]) ELSE Zero
      tangent == IF segment # Zero THEN Normalize(segment) ELSE Last(tangents)
  IN [tangent |-> tangent, normal |-> Transported(Last(normals), Last(tangents), tangent)]

NoiseFrames(points, normal, tangent) ==
  LET Next(s, k) ==
        LET f == NoiseStep(points, s.tangents, s.normals, k)
        IN [tangents |-> Append(s.tangents, f.tangent), normals |-> Append(s.normals, f.normal)]
      start == [tangents |-> <<IF normal = Zero THEN <<0, 1, 0>> ELSE Normalize(normal)>>,
                normals |-> <<IF tangent = Zero THEN FallbackSurfaceU(normal) ELSE Normalize(tangent)>>]
  IN FoldLeft(Next, start, [k \in DOMAIN points |-> k])

Displacement(frames, k, domain, distance, magnitude) ==
  LET normal == frames.normals[k + 1]
      binormal == Cross(normal, frames.tangents[k + 1])
      Along(i) == Product(ClassicNoise(Shifted(domain, i, distance)), magnitude)
  IN Plus(Times(normal, Along(1)), Plus(Times(binormal, Along(2)), Times(Cross(binormal, normal), Along(3))))

\* The scale that keeps a share of the length.
Preserved(old, noisy, preserve) ==
  IF preserve > 0 /\ noisy > 0
  THEN Quotient(Product(old, preserve) + Product(noisy, Whole - preserve), noisy) ELSE Whole

ApplyNoise(in, m, strand, st) ==
  LET c == st.c
      points == st.points
      n == Len(points)
      mask == Clamped(Value(in, m.mask, c), 0, Whole)
      old == PathLength(points)
      frequency == EffectiveFrequency(old, NotNegative(Value(in, m.frequency, c)))
      domain == NoiseDomain(strand.domain, Percent(Value(in, m.correlation, c)))
      frames == NoiseFrames(points, strand.root.normal, strand.tangent)
      Here(k) == [c EXCEPT !.t = ToParameter(k - 1, n)]
      magnitude == Evaluated([k \in 1 .. n |->
                     Product(Product(NotNegative(Value(in, m.magnitude, Here(k))),
                                     NotNegative(Value(in, m.magnitudeScale, Here(k)))), mask)])
      distance == [k \in 1 .. n |-> Product(PathLength(SubSeq(points, 1, k)), frequency)]
      noisy == Evaluated([k \in 1 .. n |->
                 IF k = 1 THEN points[1]
                 ELSE Plus(points[k], Displacement(frames, k, domain, distance[k], magnitude[k]))])
      scale == Preserved(old, PathLength(noisy), Percent(Value(in, m.preserveLength, c)))
      before == {m.frequency, m.correlation, m.preserveLength}
      moved == ScaleCurve(noisy, scale)
  IN IF ~Has(in, m.mask, c) THEN [st EXCEPT !.ok = FALSE]
     ELSE IF mask = 0 THEN [st EXCEPT !.c.cLength = SplineLength(points)]
     ELSE IF (\E e \in before : ~Has(in, e, c))
             \/ \E k \in 1 .. n : ~Has(in, m.magnitude, Here(k)) \/ ~Has(in, m.magnitudeScale, Here(k))
     THEN [st EXCEPT !.ok = FALSE]
     ELSE [st EXCEPT !.points = moved, !.c = [Here(n) EXCEPT !.cLength = SplineLength(moved)]]

-----------------------------------------------------------------------------
(* Clumps *)

\* prepare_xgen_classic_clump_runtime_data()
RenderAxis(axis) ==
  Evaluated([k \in DOMAIN axis |->
    IF k = Len(axis) THEN Last(axis) ELSE SplineAt(axis, ToParameter(k - 1, Len(axis)))])

HalfTurned(v, from, to) == Normalize(Plus(v, Transported(v, from, to)))

\* build_clump_noise_axis(): two axes are carried along the rebuilt guide, and are
\* half turned at a bend; distances are those of the source.
ClumpFrame(axis, f, k) ==
  LET segment == IF k < Len(axis) THEN Minus(axis[k + 1], axis[k]) ELSE Zero
      next == IF segment = Zero THEN f.tangent ELSE Normalize(segment)
      turns == Cross(f.tangent, next) # Zero
      Half(v) == IF turns THEN HalfTurned(v, f.tangent, next) ELSE v
      Full(v) == IF turns THEN Transported(v, f.tangent, next) ELSE v
  IN [tangent |-> next, u |-> Full(f.u), v |-> Full(f.v),
      samples |-> Append(f.samples, [u |-> Half(f.u), v |-> Half(f.v)])]

ClumpFrames(axis, normal, tangent) ==
  LET n == IF normal = Zero THEN <<0, 1, 0>> ELSE Normalize(normal)
      u == IF tangent = Zero THEN FallbackSurfaceU(n) ELSE Normalize(tangent)
      first == Minus(axis[2], axis[1])
      along == IF first = Zero THEN n ELSE Normalize(first)
      start == [tangent |-> along, u |-> Transported(u, n, along),
                v |-> Transported(Cross(n, u), n, along), samples |-> <<[u |-> Zero, v |-> Zero]>>]
  IN FoldLeft(LAMBDA f, k : ClumpFrame(axis, f, k), start, [k \in 1 .. Len(axis) - 1 |-> k + 1]).samples

ClumpNoiseAxis(in, m, guide, axis, source, c, mask) ==
  LET n == Len(axis)
      noise == NotNegative(Value(in, m.noise, c))
      frequency == EffectiveFrequency(PathLength(source), NotNegative(Value(in, m.noiseFrequency, c)))
      domain == NoiseDomain(guide.domain, Percent(Value(in, m.noiseCorrelation, c)))
      frames == ClumpFrames(axis, guide.normal, guide.tangent)
      Here(k) == [c EXCEPT !.t = ToParameter(k - 1, n)]
      quiet == noise = 0 \/ mask = 0
      Moved(k) ==
        LET magnitude == Product(Product(mask, noise), NotNegative(Value(in, m.noiseScale, Here(k))))
            distance == Product(PathLength(SubSeq(source, 1, k)), frequency)
            Part(i) == Product(ClassicNoise(Shifted(domain, i, distance)), magnitude)
        IN Plus(Times(frames[k].u, Part(1)), Times(frames[k].v, Part(3)))
  IN [ok |-> /\ Has(in, m.noise, c)
             /\ ~quiet => /\ Has(in, m.noiseFrequency, c) /\ Has(in, m.noiseCorrelation, c)
                          /\ \A k \in 2 .. n : Has(in, m.noiseScale, Here(k)),
      axis |-> Evaluated([k \in 1 .. n |-> IF quiet \/ k = 1 THEN Zero ELSE Moved(k)])]

\* The strand's context at the guide's place: its number, its lengths, its random
\* prefix and its stray stay the strand's.
GuideContext(plan, guide, c) ==
  [c EXCEPT !.u = (guide.uv[1] * Whole) \div Grid, !.v = (guide.uv[2] * Whole) \div Grid,
            !.faceSeed = FaceSeed(plan.id, plan.name, guide.face), !.row = guide.row]

\* Only the noise of the axis has the guide's prefix and stray.
NoiseContext(plan, guide, g) ==
  LET own == [g EXCEPT !.prefix = <<guide.prefix>>]
  IN [own EXCEPT !.stray = ValueOr(plan.in, plan.stray, own, own.stray)]

ApplyClump(plan, m, guide, relative, strand, st) ==
  LET in == plan.in
      c == [st.c EXCEPT !.t = 0]
      n == Len(st.points)
      mask == Clamped(Value(in, m.mask, c), 0, Whole)
      axis == RenderAxis(IF relative THEN guide.local ELSE guide.axis)
      origin == IF relative THEN Minus(guide.axis[1], strand.root.position) ELSE Zero
      source == IF relative THEN guide.local ELSE guide.axis
      g == GuideContext(plan, guide, c)
      alone == NoiseContext(plan, guide, g)
      noise == ClumpNoiseAxis(in, m, guide, axis, source, alone, mask)
      length == SplineLength(guide.local)
      cut == CutToLength(st.points, length)
      at == [g EXCEPT !.cLength = length]
      amount == Clamped(Value(in, m.clump, at), 0, Whole)
      Here(k) == [c EXCEPT !.t = ToParameter(k - 1, n), !.cLength = SplineLength(cut)]
      Clumped(k) ==
        LET share == Product(Product(mask, amount), Whole - 2 * Value(in, m.clumpScale, Here(k)))
            goal == Plus(axis[k], origin)
        IN Plus(Plus(cut[k], Scaled(Minus(goal, cut[k]), share)), noise.axis[k])
      points == Evaluated([k \in 1 .. n |-> IF k = 1 THEN cut[1] ELSE Clumped(k)])
  IN IF guide = <<>> THEN st
     ELSE IF ~Has(in, m.mask, c) THEN [st EXCEPT !.ok = FALSE]
     ELSE IF mask = 0 THEN [st EXCEPT !.c = c]
     ELSE IF ~HasIf(in, plan.stray, [g EXCEPT !.prefix = <<guide.prefix>>]) \/ ~noise.ok \/ ~Has(in, m.clump, at)
             \/ \E k \in 2 .. n : ~Has(in, m.clumpScale, Here(k))
     THEN [st EXCEPT !.ok = FALSE]
     ELSE [st EXCEPT !.points = points, !.c = [Here(n) EXCEPT !.cLength = SplineLength(points)]]

-----------------------------------------------------------------------------
(* apply_xgen_classic_float_runtime() *)

UsesRandom(e) == e # <<>> /\ e[1].calls # 0

ExpressionsOf(plan) ==
  {plan.primitive[a] : a \in Range(PrimitiveAttributes)} \cup
  UNION {{m[a] : a \in DOMAIN m \ {"type", "name", "control"}} : m \in Range(plan.effects)}

ModulesOf(plan, type) == SelectSeq(plan.effects, LAMBDA m : m.type = type)

\* What the arrays of a call must have for each strand.
RuntimeRequestFits(plan, strands, cvs, radiusScale) ==
  LET needsPrefix == \E e \in ExpressionsOf(plan) : UsesRandom(e)
  IN /\ strands # <<>> /\ cvs >= 2 /\ radiusScale >= 0
     /\ \A s \in Range(strands) :
          /\ Len(s.points) = cvs
          /\ ModulesOf(plan, "noise") # <<>> => s.tangent # <<>>
          /\ needsPrefix => s.prefix # <<>>
          /\ Len(s.row) = Given(plan.in)
          /\ Len(s.clumps) = Len(ModulesOf(plan, "clump"))
          /\ \A g \in Range(s.clumps) : g # <<>> =>
               Len(g.axis) = cvs /\ cvs >= 3 /\ Len(g.local) = cvs /\ Len(g.row) = Given(plan.in)

StrandContext(plan, strand) ==
  [id |-> strand.id, cLength |-> SplineLength(strand.points), cWidth |-> 0, row |-> strand.row,
   u |-> (strand.root.uv[1] * Whole) \div Grid, v |-> (strand.root.uv[2] * Whole) \div Grid,
   faceSeed |-> FaceSeed(plan.id, plan.name, IF strand.root.face = InvalidIndex THEN strand.root.triangle
                                             ELSE strand.root.face),
   t |-> 0, prefix |-> strand.prefix, stray |-> 0]

\* The length and the width of the primitive.  A strand that is too short or too
\* thin is dropped before its effects.
ApplyPrimitive(plan, strand, radiusScale) ==
  LET p == plan.primitive
      in == plan.in
      bare == StrandContext(plan, strand)
      c == [bare EXCEPT !.stray = ValueOr(in, plan.stray, bare, 0)]
      factor == ValueOr(in, p.length, c, Whole)
      long == [c EXCEPT !.cLength = Product(@, factor)]
      width == IF p.width # <<>> THEN Value(in, p.width, long)
               ELSE IF radiusScale > 0 THEN (2 * strand.radii[1]) \div radiusScale ELSE 0
      ok == HasIf(in, plan.stray, bare) /\ HasIf(in, p.length, c) /\ factor >= 0 /\ HasIf(in, p.width, long)
  IN [ok |-> ok, keep |-> ok /\ long.cLength >= Tiny /\ width >= Tiny,
      points |-> ScaleCurve(strand.points, factor), c |-> [long EXCEPT !.cWidth = width]]

\* A strand that is cut off is dropped, and its effects go on.
ApplyCut(in, m, st) ==
  LET amount == Value(in, m.amount, st.c)
      cut == CutFromTip(st.points, NotNegative(amount))
  IN IF ~Has(in, m.amount, st.c) THEN [st EXCEPT !.ok = FALSE]
     ELSE [st EXCEPT !.points = cut.points, !.keep = @ /\ cut.parameter > 0,
                     !.c.cLength = SplineLength(cut.points)]

ClumpNumber(plan, e) == Len(SelectSeq(SubSeq(plan.effects, 1, e), LAMBDA m : m.type = "clump"))

ApplyEffect(plan, strand, relative, st, e) ==
  LET m == plan.effects[e]
  IN IF ~st.ok THEN st
     ELSE CASE m.type = "noise" -> ApplyNoise(plan.in, m, strand, st)
            [] m.type = "cut" -> ApplyCut(plan.in, m, st)
            [] m.type = "clump" ->
                 ApplyClump(plan, m, strand.clumps[ClumpNumber(plan, e)], relative, strand, st)

\* The diameter at t: a taper that begins at `start', and the ramp.
Tapered(taper, start, t) ==
  IF t > start /\ start < Whole THEN Whole - Product(taper, Quotient(t - start, Whole - start)) ELSE Whole

WidthProfile(plan, strand, radiusScale, st) ==
  LET p == plan.primitive
      n == Len(st.points)
      taper == ValueOr(plan.in, p.taper, st.c, 0)
      start == ValueOr(plan.in, p.taperStart, st.c, 0)
      Here(k) == [st.c EXCEPT !.t = ToParameter(k - 1, n)]
      Diameter(k) == Product(st.c.cWidth, Product(Tapered(taper, start, Here(k).t),
                                                  ValueOr(plan.in, p.widthRamp, Here(k), Whole)))
      profiled == \E a \in {"width", "taper", "taperStart", "widthRamp"} : p[a] # <<>>
      ok == st.ok /\ HasIf(plan.in, p.taper, st.c) /\ HasIf(plan.in, p.taperStart, st.c)
            /\ \A k \in 1 .. n : HasIf(plan.in, p.widthRamp, Here(k))
  IN [ok |-> ok, keep |-> st.keep, points |-> st.points,
      radii |-> IF ok /\ profiled THEN [k \in 1 .. n |-> (NotNegative(Diameter(k)) * radiusScale) \div 2]
                ELSE strand.radii]

\* A strand that has been dropped keeps the radii it had.
ApplyStrand(plan, strand, radiusScale, relative) ==
  LET start == ApplyPrimitive(plan, strand, radiusScale)
      done == FoldLeft(LAMBDA st, e : ApplyEffect(plan, strand, relative, st, e), start,
                       [e \in DOMAIN plan.effects |-> e])
  IN IF ~start.keep THEN [ok |-> start.ok, keep |-> FALSE, points |-> start.points, radii |-> strand.radii]
     ELSE WidthProfile(plan, strand, radiusScale, done)

ApplyRuntime(plan, strands, radiusScale, relative) ==
  Evaluated([s \in DOMAIN strands |-> ApplyStrand(plan, strands[s], radiusScale, relative)])

\* add_xgen_classic_renderer_endpoints(): a mirrored point before and behind.
RendererEndpoints(points, radii) ==
  LET n == Len(points)
  IN [points |-> <<Minus(Times(points[1], 2), points[2])>> \o points
                   \o <<Minus(Times(points[n], 2), points[n - 1])>>,
      radii |-> <<radii[1]>> \o radii \o <<radii[n]>>]

=============================================================================
