--------------------------- MODULE AlembicArchive ---------------------------
(***************************************************************************)
(* Reading an Alembic archive at a time (src/xgen_classic_alembic.cpp).       *)
(*                                                                          *)
(* An archive is the sequence of its objects [name, kind, parent, times,      *)
(* values, pref] in the order of a walk from the top, `parent' being 0 there. *)
(* The kinds are "xform", whose values are moves, "mesh" and "subd", whose     *)
(* values are [positions, counts, indices], "curves", which have such values   *)
(* without indices, and "group".  All numbers are finite.                    *)
(***************************************************************************)
EXTENDS Vectors, TLC

\* What an import gives that fails.
Refused == [triangles |-> <<>>]

-----------------------------------------------------------------------------
(* select_samples(): a selection is [first, time, mode] *)

FirstSample == [first |-> TRUE, time |-> 0, mode |-> "none"]

LookupTime(sample) == (sample.frame + sample.offset) \div sample.fps

\* The last sample that is not later, and the first that is not earlier.
FloorIndex(times, t) == Max({i \in DOMAIN times : times[i] <= t} \cup {1})
CeilIndex(times, t) == Min({i \in DOMAIN times : times[i] >= t} \cup {Len(times)})

SelectSamples(object, sel) ==
  LET t == object.times
      lower == FloorIndex(t, sel.time)
      upper == CeilIndex(t, sel.time)
      Only(i) == [lower |-> i, upper |-> i, part |-> 0, whole |-> 1]
  IN IF sel.first \/ Len(t) = 1 THEN Only(1)
     ELSE IF sel.mode = "none" \/ t[upper] <= t[lower] THEN Only(lower)
     ELSE [lower |-> lower, upper |-> upper, whole |-> t[upper] - t[lower],
           part |-> Max({0, Min({sel.time - t[lower], t[upper] - t[lower]})})]

Blended(a, b, blend) ==
  [i \in 1 .. 3 |-> (a[i] * (blend.whole - blend.part) + b[i] * blend.part) \div blend.whole]

\* A move, and positions, at the selected time.
MoveAt(xform, sel) ==
  LET blend == SelectSamples(xform, sel)
  IN Blended(xform.values[blend.lower], xform.values[blend.upper], blend)

PositionsAt(object, sel) ==
  LET blend == SelectSamples(object, sel)
      a == object.values[blend.lower].positions
      b == object.values[blend.upper].positions
  IN [i \in DOMAIN a |-> Blended(a[i], b[i], blend)]

\* The topology must not change between the samples of one lookup.
TopologyStays(object, sel) ==
  LET blend == SelectSamples(object, sel)
      a == object.values[blend.lower]
      b == object.values[blend.upper]
  IN Len(a.positions) = Len(b.positions) /\ a.counts = b.counts /\ a.indices = b.indices

-----------------------------------------------------------------------------
(* The walk *)

\* An archive in the order of a walk: what an object stands under comes before it
\* (find_meshes() and the others walk from the top of the archive).
IsWalk(objects) ==
  /\ Len(objects) \in Nat /\ DOMAIN objects = 1 .. Len(objects)
  /\ \A j \in DOMAIN objects : objects[j].parent \in 0 .. j - 1 /\ objects[j].times \in Seq(Int)

\* What is read has three numbers for each place, and a value for each time.
Shapes == [positions : Seq(Coordinates), counts : Seq(Int), indices : Seq(Int)]

IsRead(o) ==
  /\ o.kind # "group" => Len(o.values) = Len(o.times)
  /\ o.kind = "xform" => o.values \in Seq(Coordinates)
  /\ o.kind \in {"mesh", "subd", "curves"} => o.values \in Seq(Shapes) /\ o.pref \in Seq(Coordinates)

IsArchive(objects) == IsWalk(objects) /\ \A j \in DOMAIN objects : IsRead(objects[j])

\* An object and what it stands under.
Ancestry(archive, i) ==
  LET Up[j \in 0 .. Len(archive)] == IF j = 0 THEN {} ELSE {j} \cup Up[archive[j].parent]
  IN Up[i]

\* sample_transform() along the path; an xform without samples does not move.
MovesWith(archive, i, j) == j \in Ancestry(archive, i) /\ archive[j].kind = "xform" /\ archive[j].times # <<>>

Transform(archive, i, sel) ==
  VectorSum([j \in DOMAIN archive |-> IF MovesWith(archive, i, j) THEN MoveAt(archive[j], sel) ELSE Zero])

\* find_meshes(): meshes called so, or under an object called so.
Meshes(archive, name) ==
  {i \in DOMAIN archive :
     archive[i].kind \in {"mesh", "subd"} /\ \E j \in Ancestry(archive, i) : archive[j].name = name}

\* find_curves()
Curves(archive) == {i \in DOMAIN archive : archive[i].kind = "curves"}

\* Mutation of IsStill: a transform above the object is not looked at.
IsStillAlone(archive, i) == Len(archive[i].times) <= 1

\* inspect_static_deformation(), inspect_static_curves()
IsStill(archive, i) ==
  /\ Len(archive[i].times) <= 1
  /\ \A j \in Ancestry(archive, i) : archive[j].kind = "xform" => Len(archive[j].times) <= 1

\* xgen_classic_alembic_deformation_is_static(): "failed", or whether it is.
DeformationIsStatic(archive, names, maxObjects) ==
  IF names = {} \/ Len(archive) > maxObjects \/ \E n \in names : Cardinality(Meshes(archive, n)) # 1
  THEN "failed"
  ELSE IF \A n \in names : \A i \in Meshes(archive, n) : IsStill(archive, i)
  THEN "static" ELSE "moving"

\* xgen_classic_alembic_guide_cache_is_static()
GuideCacheIsStatic(archive, maxObjects) ==
  IF Curves(archive) = {} \/ Len(archive) > maxObjects THEN "failed"
  ELSE IF \A i \in Curves(archive) : IsStill(archive, i) THEN "static" ELSE "moving"

-----------------------------------------------------------------------------
(* load_patch_mesh(): [positions, reference, counts, indices] in the world *)

IndexSum(counts) == NumberSum(counts)

TopologyFits(mesh, limits) ==
  /\ Len(mesh.positions) \in 1 .. limits.vertices
  /\ Len(mesh.counts) \in 1 .. limits.faces
  /\ Len(mesh.indices) <= limits.faceVertices
  /\ \A f \in DOMAIN mesh.counts : mesh.counts[f] >= 3
  /\ IndexSum(mesh.counts) = Len(mesh.indices)
  /\ \A v \in Range(mesh.indices) : v \in 0 .. Len(mesh.positions) - 1

PatchObjectFits(archive, name, sel, limits) ==
  /\ Len(archive) <= limits.objects
  /\ Cardinality(Meshes(archive, name)) = 1
  /\ LET o == archive[CHOOSE i \in Meshes(archive, name) : TRUE]
     IN /\ o.times # <<>>
        /\ TopologyStays(o, sel)
        /\ LET v == o.values[SelectSamples(o, sel).lower]
           IN TopologyFits(v, limits) /\ Len(o.pref) \in {0, Len(v.positions)}

\* Without xgen_Pref the reference pose is the sample that the lookup starts from.
PatchMesh(archive, name, sel) ==
  LET i == CHOOSE m \in Meshes(archive, name) : TRUE
      o == archive[i]
      lower == o.values[SelectSamples(o, sel).lower]
      move == Transform(archive, i, sel)
      World(points) == Evaluated([p \in DOMAIN points |-> Plus(points[p], move)])
  IN [positions |-> World(PositionsAt(o, sel)),
      reference |-> World(IF o.pref # <<>> THEN o.pref ELSE lower.positions),
      counts |-> lower.counts, indices |-> lower.indices]

-----------------------------------------------------------------------------
(* load_guide_cache_curves(): [name, cvs], in the order of the walk *)

CurveObjectFits(o, sel) ==
  /\ o.times # <<>>
  /\ TopologyStays(o, sel)
  /\ LET v == o.values[SelectSamples(o, sel).lower]
     IN (\A c \in Range(v.counts) : c >= 2) /\ IndexSum(v.counts) = Len(v.positions)

ObjectCurves(archive, i, sel) ==
  LET o == archive[i]
      points == PositionsAt(o, sel)
      counts == o.values[SelectSamples(o, sel).lower].counts
      First(c) == IndexSum(SubSeq(counts, 1, c - 1))
  IN [c \in DOMAIN counts |->
        [name |-> o.name,
         cvs |-> [k \in 1 .. counts[c] |-> Plus(points[First(c) + k], Transform(archive, i, sel))]]]

CacheCurves(archive, sel) ==
  FlattenSeq([i \in DOMAIN archive |-> IF i \in Curves(archive) THEN ObjectCurves(archive, i, sel) ELSE <<>>])

CacheFits(archive, sel, limits) ==
  /\ Len(archive) <= limits.objects
  /\ Curves(archive) # {}
  /\ \A i \in Curves(archive) : CurveObjectFits(archive[i], sel)
  /\ LET curves == CacheCurves(archive, sel)
     IN /\ Len(curves) <= limits.faces
        /\ IndexSum([c \in DOMAIN curves |-> Len(curves[c].cvs)]) <= limits.vertices

=============================================================================
