--------------------------- MODULE RuntimeKernels ----------------------------
(***************************************************************************)
(* The kernels that apply a plan on a device                                 *)
(* (src/luisa/xgen_classic_runtime.cpp): a kernel for the primitive, one for   *)
(* each effect and one for the widths, each of which reads the curves that the *)
(* one before it has written.                                               *)
(*                                                                          *)
(* Between them a strand has a state [live, width, taper, start].  Nothing     *)
(* fails on a device: what is computed for nothing is not selected.           *)
(***************************************************************************)
EXTENDS StrandEffects

\* lower_classic_runtime_expression()
Lowered(plan, e, c) == LowerExpression(e[1], ExpressionContext(plan.in, e[1], c))
LoweredOr(plan, e, c, otherwise) == IF e = <<>> THEN otherwise ELSE Lowered(plan, e, c)

\* make_context(): the share of stray strands is computed in every context.
KernelContext(plan, strand, cLength, cWidth, t) ==
  LET c == [id |-> strand.id, cLength |-> cLength, cWidth |-> cWidth, row |-> strand.row,
            u |-> (strand.root.uv[1] * Whole) \div Grid, v |-> (strand.root.uv[2] * Whole) \div Grid,
            faceSeed |-> FaceSeed(plan.id, plan.name, strand.root.face), t |-> t,
            prefix |-> strand.prefix, stray |-> 0]
  IN [c EXCEPT !.stray = LoweredOr(plan, plan.stray, c, 0)]

\* Every point is read, and the ends are selected last.
KernelSpline(points, t) ==
  LET n == Len(points)
      scaled == t * (n - 1)
      span == Min({scaled \div Whole, n - 2})
      before == IF span = 0 THEN Minus(Times(points[1], 2), points[2]) ELSE points[Max({span, 1})]
      after == IF span + 2 = n THEN Minus(Times(points[n], 2), points[n - 1])
               ELSE points[Min({span + 2, n - 1}) + 1]
      cubic == Cubic(before, points[span + 1], points[span + 2], after, scaled - span * Whole)
  IN IF t <= 0 THEN points[1] ELSE IF t >= Whole THEN points[n] ELSE cubic

KernelLength(points) ==
  LET n == Intervals(points)
      Next(s, k) ==
        LET here == IF k = n THEN Last(points) ELSE KernelSpline(points, (k * Whole) \div n)
        IN [at |-> here, length |-> s.length + Length(Minus(here, s.at))]
  IN FoldLeft(Next, [at |-> points[1], length |-> 0], [k \in 1 .. n |-> k]).length

KernelRebuilt(points, parameter) ==
  Evaluated([k \in DOMAIN points |-> KernelSpline(points, (parameter * (k - 1)) \div (Len(points) - 1))])

-----------------------------------------------------------------------------
(* make_classic_runtime_primitive_kernel() *)

KernelPrimitive(plan, strand, radiusScale) ==
  LET p == plan.primitive
      Context(cLength, cWidth) == KernelContext(plan, strand, cLength, cWidth, 0)
      length == KernelLength(strand.points)
      width == IF radiusScale > 0 THEN (2 * strand.radii[1]) \div radiusScale ELSE 0
      factor == LoweredOr(plan, p.length, Context(length, width), Whole)
      long == Product(length, factor)
      wide == LoweredOr(plan, p.width, Context(long, width), width)
      done == Context(long, wide)
  IN [live |-> long >= Tiny /\ wide >= Tiny, width |-> wide,
      taper |-> LoweredOr(plan, p.taper, done, 0), start |-> LoweredOr(plan, p.taperStart, done, 0),
      points |-> ScaleCurve(strand.points, factor)]

-----------------------------------------------------------------------------
(* make_classic_runtime_cut_kernel(): the search goes on for a fixed number of   *)
(* steps and keeps what it found.                                            *)

KernelSearch(points, s, target, next, ending) ==
  LET here == KernelSpline(points, next)
      segment == Length(Minus(here, s.from))
      length == s.length + segment
      hit == ~s.done /\ length >= target /\ segment > 0
      atRoot == ending /\ ~s.done /\ ~hit /\ next = 0
      found == next - ((length - target) * (next - s.at)) \div segment
  IN [parameter |-> IF hit THEN found ELSE IF atRoot THEN 0 ELSE s.parameter,
      done |-> s.done \/ hit \/ atRoot,
      length |-> IF s.done THEN s.length ELSE length,
      at |-> IF s.done THEN s.at ELSE next,
      from |-> IF s.done THEN s.from ELSE here]

KernelCut(plan, m, strand, st) ==
  LET points == st.points
      amount == NotNegative(Lowered(plan, m.amount, KernelContext(plan, strand, KernelLength(points), st.width, 0)))
      n == Intervals(points)
      start == [done |-> amount = 0, parameter |-> Whole, at |-> Whole, from |-> Last(points), length |-> 0]
      Next(s, k) == KernelSearch(points, s, amount, IF k < n THEN ((n - k) * Whole) \div n ELSE 0, TRUE)
      parameter == FoldLeft(Next, start, [k \in 1 .. n + 1 |-> k]).parameter
  IN [st EXCEPT !.points = KernelRebuilt(points, parameter), !.live = @ /\ parameter > 0]

-----------------------------------------------------------------------------
(* make_classic_runtime_noise_kernel() *)

KernelNoise(plan, m, strand, st) ==
  LET points == st.points
      n == Len(points)
      Context(t) == KernelContext(plan, strand, KernelLength(points), st.width, t)
      Here(k) == Context(ToParameter(k - 1, n))
      mask == Clamped(Lowered(plan, m.mask, Context(0)), 0, Whole)
      old == PathLength(points)
      frequency == EffectiveFrequency(old, NotNegative(Lowered(plan, m.frequency, Context(0))))
      preserve == Percent(Lowered(plan, m.preserveLength, Context(0)))
      domain == NoiseDomain(strand.domain, Percent(Lowered(plan, m.correlation, Context(0))))
      start == [tangent |-> IF strand.root.normal = Zero THEN <<0, 1, 0>> ELSE Normalize(strand.root.normal),
                normal |-> IF strand.tangent = Zero THEN FallbackSurfaceU(strand.root.normal)
                           ELSE Normalize(strand.tangent),
                travelled |-> 0, points |-> <<>>]
      Next(s, k) ==
        LET segment == IF k < n THEN Minus(points[k + 1], points[k]) ELSE Zero
            tangent == IF segment = Zero THEN s.tangent ELSE Normalize(segment)
            normal == Transported(s.normal, s.tangent, tangent)
            binormal == Cross(normal, tangent)
            travelled == s.travelled + IF k > 1 THEN Length(Minus(points[k], points[k - 1])) ELSE 0
            magnitude == Product(Product(NotNegative(Lowered(plan, m.magnitude, Here(k))),
                                         NotNegative(Lowered(plan, m.magnitudeScale, Here(k)))), mask)
            Along(i) == Product(ClassicNoise(Shifted(domain, i, Product(travelled, frequency))), magnitude)
            moved == Plus(points[k], Plus(Times(normal, Along(1)),
                                          Plus(Times(binormal, Along(2)),
                                               Times(Cross(binormal, normal), Along(3)))))
        IN [tangent |-> tangent, normal |-> normal, travelled |-> travelled,
            points |-> Append(s.points, IF k = 1 \/ mask = 0 THEN points[k] ELSE moved)]
      noisy == FoldLeft(Next, start, [k \in 1 .. n |-> k]).points
      scaled == ScaleCurve(noisy, Preserved(old, PathLength(noisy), preserve))
  IN [st EXCEPT !.points = IF st.live THEN scaled ELSE points]

-----------------------------------------------------------------------------
(* make_classic_runtime_clump_kernel(): a strand without a guide computes with   *)
(* some guide.                                                               *)

\* The context at the guide, with the random prefix and the stray of the guide.
KernelGuideContext(plan, guide, c) ==
  LET bare == [c EXCEPT !.u = (guide.uv[1] * Whole) \div Grid, !.v = (guide.uv[2] * Whole) \div Grid,
                        !.faceSeed = FaceSeed(plan.id, plan.name, guide.face), !.row = guide.row,
                        !.prefix = <<guide.prefix>>, !.stray = 0]
  IN [bare EXCEPT !.stray = LoweredOr(plan, plan.stray, bare, 0)]

\* What the noise of the guide adds at each of its places; distances are those of
\* the source.
KernelClumpNoise(plan, m, guide, axis, source, g, mask) ==
  LET n == Len(axis)
      noise == NotNegative(Lowered(plan, m.noise, g))
      frequency == EffectiveFrequency(PathLength(source), NotNegative(Lowered(plan, m.noiseFrequency, g)))
      domain == NoiseDomain(guide.domain, Percent(Lowered(plan, m.noiseCorrelation, g)))
      frames == ClumpFrames(axis, guide.normal, guide.tangent)
      Moved(k) ==
        LET scale == Lowered(plan, m.noiseScale, [g EXCEPT !.t = ToParameter(k - 1, n)])
            magnitude == Product(Product(mask, noise), NotNegative(scale))
            distance == Product(PathLength(SubSeq(source, 1, k)), frequency)
            Part(i) == Product(ClassicNoise(Shifted(domain, i, distance)), magnitude)
        IN Plus(Times(frames[k].u, Part(1)), Times(frames[k].v, Part(3)))
  IN [k \in 1 .. n |-> IF k = 1 \/ noise = 0 \/ mask = 0 THEN Zero ELSE Moved(k)]

\* The strand is searched from its root for the length of the guide.
KernelCutToLength(points, target) ==
  LET samples == Intervals(points)
      start == [done |-> target = 0, parameter |-> IF target = 0 THEN 0 ELSE Whole, at |-> 0,
                from |-> points[1], length |-> 0]
      Next(s, k) == KernelSearch(points, s, target, (k * Whole) \div samples, FALSE)
  IN KernelRebuilt(points, FoldLeft(Next, start, [k \in 1 .. samples |-> k]).parameter)

KernelClump(plan, m, guide, relative, strand, st) ==
  LET points == st.points
      n == Len(points)
      c == KernelContext(plan, strand, KernelLength(points), st.width, 0)
      mask == Clamped(Lowered(plan, m.mask, c), 0, Whole)
      g == KernelGuideContext(plan, guide, c)
      source == IF relative THEN guide.local ELSE guide.axis
      axis == RenderAxis(source)
      noise == KernelClumpNoise(plan, m, guide, axis, source, g, mask)
      target == KernelLength(guide.local)
      cut == KernelCutToLength(points, target)
      amount == Clamped(Lowered(plan, m.clump, [g EXCEPT !.cLength = target]), 0, Whole)
      Clumped(k) ==
        LET here == KernelContext(plan, strand, KernelLength(cut), st.width, ToParameter(k - 1, n))
            share == Product(Product(mask, amount), Whole - 2 * Lowered(plan, m.clumpScale, here))
            goal == IF relative THEN Plus(axis[k], Minus(guide.axis[1], strand.root.position)) ELSE axis[k]
        IN Plus(Plus(cut[k], Scaled(Minus(goal, cut[k]), share)), noise[k])
  IN IF guide = <<>> \/ ~st.live \/ mask = 0 THEN st
     ELSE [st EXCEPT !.points = Evaluated([k \in 1 .. n |-> IF k = 1 THEN points[1] ELSE Clumped(k)])]

-----------------------------------------------------------------------------
(* make_classic_runtime_width_kernel(), and the kernels in their order *)

KernelWidths(plan, strand, radiusScale, st) ==
  LET n == Len(st.points)
      Diameter(k) ==
        LET c == KernelContext(plan, strand, KernelLength(st.points), st.width, ToParameter(k - 1, n))
        IN Product(st.width, Product(Tapered(st.taper, st.start, c.t),
                                     LoweredOr(plan, plan.primitive.widthRamp, c, Whole)))
  IN [k \in 1 .. n |-> (NotNegative(Diameter(k)) * radiusScale) \div 2]

KernelEffect(plan, strand, relative, st, e) ==
  LET m == plan.effects[e]
  IN CASE m.type = "noise" -> KernelNoise(plan, m, strand, st)
       [] m.type = "cut" -> KernelCut(plan, m, strand, st)
       [] m.type = "clump" ->
            KernelClump(plan, m, strand.clumps[ClumpNumber(plan, e)], relative, strand, st)

KernelApply(plan, strand, radiusScale, relative) ==
  LET done == FoldLeft(LAMBDA st, e : KernelEffect(plan, strand, relative, st, e),
                       KernelPrimitive(plan, strand, radiusScale), [e \in DOMAIN plan.effects |-> e])
  IN [live |-> done.live, points |-> done.points, radii |-> KernelWidths(plan, strand, radiusScale, done)]

=============================================================================
