--------------------------- MODULE DeviceContract ---------------------------
(***************************************************************************)
(* What a GPU launch is checked for on the host                              *)
(* (include/nanoxgen/device_contract.h), and the Luisa kernels that generate  *)
(* curves (src/luisa/generate.cpp).                                          *)
(*                                                                          *)
(* A device asset is [asset, header, aligned, capacity] with the header that  *)
(* the host has kept; an array of the device is [there, capacity].           *)
(***************************************************************************)
EXTENDS Generate

NoArray == [there |-> FALSE, capacity |-> 0]

\* make_device_asset_descriptor()
DescribeDeviceAsset(a, there, aligned, capacity) ==
  IF ValidateAsset(a) /\ there /\ aligned /\ capacity >= a.size
  THEN [there |-> TRUE, aligned |-> TRUE, header |-> a.header, capacity |-> capacity]
  ELSE [there |-> FALSE, aligned |-> TRUE, header |-> a.header, capacity |-> 0]

ParametersFit(p) ==
  /\ p.strands # 0 /\ p.cvs >= 2
  /\ p.support >= 0 /\ p.power >= 0 /\ p.reject \in -4 .. 4
  /\ p.length >= 0 /\ p.rootWidth >= 0 /\ p.tipWidth >= 0
  /\ p.amplitude >= 0 /\ p.frequency >= 0 /\ p.mask \in 0 .. 1
  /\ p.preserve \in 0 .. 2

HeaderFitsDevice(h) ==
  /\ h.kind = "asset" /\ h.words >= HeaderWords
  /\ h.vertices # 0 /\ h.triangles # 0 /\ h.guides # 0 /\ h.guideCvs # 0
  /\ h.stencil = StencilSize /\ h.gradients = Len(Gradients)
  /\ SectionFits(h.words, h.offset[9], h.gradients, 3, 1)

\* An array of a deformed frame is not there, or has the size of the asset's.
ReplacesArray(array, count) ==
  array.there = (array.capacity # 0) /\ (array.there => array.capacity = count)

\* validate_common_device_input(); a frame is [positions, normals, guideCvs].
CommonInputError(d, frame, p, blockSize) ==
  CASE ~d.there -> "NullAsset"
    [] ~d.aligned -> "MisalignedAsset"
    [] ~HeaderFitsDevice(d.header) -> "InvalidAssetMetadata"
    [] d.capacity < d.header.words -> "AssetCapacityTooSmall"
    [] ~ParametersFit(p) -> "InvalidGenerationParameters"
    [] blockSize \notin 1 .. 1024 -> "InvalidBlockSize"
    [] ~ReplacesArray(frame.positions, d.header.vertices) -> "DeformedPositionCountMismatch"
    [] ~ReplacesArray(frame.normals, d.header.vertices) -> "DeformedNormalCountMismatch"
    [] ~ReplacesArray(frame.guideCvs, d.header.guideCvs) -> "DeformedGuideCvCountMismatch"
    [] OTHER -> "None"

\* Mutation of OptionalCapacityValid: one element too few will do.
OptionalCapacityShort(array, required) ==
  IF array.there THEN array.capacity + 1 >= required ELSE array.capacity = 0

OptionalCapacityValid(array, required) ==
  IF array.there THEN array.capacity >= required ELSE array.capacity = 0

\* validate_device_generation_request()
GenerationError(d, frame, p, out, blockSize) ==
  LET common == CommonInputError(d, frame, p, blockSize)
  IN CASE common # "None" -> common
       [] ~out.points.there /\ ~out.widths.there /\ ~out.roots.there -> "MissingOutput"
       [] ~OptionalCapacityValid(out.points, p.strands * p.cvs) -> "PointCapacityTooSmall"
       [] ~OptionalCapacityValid(out.widths, p.strands * p.cvs) -> "WidthCapacityTooSmall"
       [] ~OptionalCapacityValid(out.roots, p.strands) -> "RootCapacityTooSmall"
       [] OTHER -> "None"

\* validate_device_packed_generation_request()
PackedGenerationError(d, frame, p, out, blockSize) ==
  LET common == CommonInputError(d, frame, p, blockSize)
  IN CASE common # "None" -> common
       [] ~out.points.there -> "MissingOutput"
       [] out.radiusScale < 0 -> "InvalidRadiusScale"
       [] out.points.capacity < p.strands * p.cvs -> "PointCapacityTooSmall"
       [] ~OptionalCapacityValid(out.roots, p.strands) -> "RootCapacityTooSmall"
       [] ~OptionalCapacityValid(out.rootUVs, p.strands) -> "RootUvCapacityTooSmall"
       [] ~OptionalCapacityValid(out.pointCounts, p.strands) -> "PointCountCapacityTooSmall"
       [] OTHER -> "None"

\* validate_device_motion_generation_request(): the samples are looked at in their
\* order, and the first error is that of the request.  The total has 64 bits.
MotionGenerationError(d, samples, p, out, blockSize) ==
  LET SampleError(i) ==
        IF i > 1 /\ samples[i].time <= samples[i - 1].time THEN "InvalidMotionTimes"
        ELSE CommonInputError(d, samples[i].frame, p, blockSize)
      bad == {i \in DOMAIN samples : SampleError(i) # "None"}
  IN CASE samples = <<>> -> "MissingMotionSamples"
       [] bad # {} -> SampleError(Min(bad))
       [] ~out.there \/ out.capacity < p.strands * p.cvs * Len(samples) ->
            "MotionPointCapacityTooSmall"
       [] OTHER -> "None"

-----------------------------------------------------------------------------
(* make_packed_generate_from_roots_kernel() *)

KernelFits(a, p, radiusScale) ==
  /\ ValidateAsset(a) /\ a.header.guides # 0
  /\ p.strands # 0 /\ p.cvs >= 2
  /\ p.support >= 0 /\ p.length >= 0 /\ p.rootWidth >= 0 /\ p.tipWidth >= 0
  /\ radiusScale >= 0
  /\ ~NoiseIsEnabled(p)

\* Slots without a guide read the first one and give it no weight.
KernelSlots(a, p, root) ==
  LET Slot(j) ==
        LET candidate == At(TriangleGuides(a), StencilAt(a, root.triangle) + j)
            safe == IF candidate # InvalidIndex THEN candidate ELSE 0
            g == At(Guides(a), safe)
            d2 == LengthSquared(Minus(root.position, g.root))
            usable == candidate # InvalidIndex /\ 4 * Dot(root.normal, g.normal) >= p.reject
            inside == usable /\ g.support * p.support > 0 /\ 16 * d2 < Reach(g, p)
        IN [guide |-> safe, usable |-> usable, d2 |-> d2,
            weight |-> IF inside THEN Weight(g, p, d2) ELSE 0]
  IN [j \in 1 .. StencilSize |-> Slot(j - 1)]

\* A later slot is the nearest only when it is nearer.
KernelNearest(slots) ==
  FoldLeft(LAMBDA nearest, slot :
             IF slot.usable /\ (nearest.guide = InvalidIndex \/ slot.d2 < nearest.d2)
             THEN [guide |-> slot.guide, d2 |-> slot.d2] ELSE nearest,
           [guide |-> InvalidIndex, d2 |-> 0], slots).guide

KernelOffset(a, p, root, cv) ==
  LET slots == KernelSlots(a, p, root)
      last == p.cvs - 1
      nearest == KernelNearest(slots)
      total == NumberSum([j \in DOMAIN slots |-> slots[j].weight])
      Sampled(g) ==
        PlaceMinus(SampleGuide(a, NoFrame, At(Guides(a), g), cv, last), Place(At(Guides(a), g).root))
      weighted == FoldLeft(LAMBDA sum, slot :
                             PlacePlus(sum, PlaceTimes(Sampled(slot.guide), slot.weight, 1)),
                           Place(Zero), slots)
  IN IF total > 0 THEN PlaceTimes(weighted, 1, total)
     ELSE IF nearest # InvalidIndex THEN Sampled(nearest)
     ELSE PlaceTimes(Place(root.normal), cv, last)

KernelStrand(a, p, root, radiusScale) ==
  [cvs |-> [c \in 1 .. p.cvs |->
              PlacePlus(Place(root.position), PlaceTimes(KernelOffset(a, p, root, c - 1), p.length, 1))],
   radii |-> [c \in 1 .. p.cvs |-> Width(p, c - 1) * radiusScale]]

-----------------------------------------------------------------------------
(* make_classic_base_generate_kernel(): curves from guides that have been     *)
(* rebuilt with the CVs of the strands, and the influences of each root.      *)

BaseKernelFits(cvs, diameter, radiusScale) == cvs >= 3 /\ diameter >= 0 /\ radiusScale >= 0

\* Influences [guide, weight] of strand s are those from offset s to offset s + 1.
BaseKernelStrand(root, s, offsets, influences, rebuilt, cvs, rootRelative) ==
  LET own == [i \in 1 .. At(offsets, s + 1) - At(offsets, s) |-> At(influences, At(offsets, s) + i - 1)]
      total == NumberSum([i \in DOMAIN own |-> own[i].weight])
      From(guide, cv) ==
        Minus(At(rebuilt, guide * cvs + cv), At(rebuilt, guide * cvs))
      Offset(cv) == VectorSum([i \in DOMAIN own |-> Times(From(own[i].guide, cv), own[i].weight)])
      Local(cv) == [at |-> Offset(cv), over |-> IF total > 0 THEN total ELSE 1]
  IN [c \in 1 .. cvs |->
        IF rootRelative THEN Local(c - 1) ELSE PlacePlus(Place(root), Local(c - 1))]

=============================================================================
