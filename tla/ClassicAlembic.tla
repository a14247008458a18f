--------------------------- MODULE ClassicAlembic ---------------------------
(***************************************************************************)
(* The asset input of a Classic description: its patches from an Alembic      *)
(* archive, its guides on them, and the curves of a guide cache               *)
(* (src/xgen_classic_alembic.cpp).                                           *)
(*                                                                          *)
(* A patch is [name, type, faces, guides, culled]; a guide is [id, face, uv,  *)
(* radii, angles, blend, cvs].                                               *)
(* The surface that OpenSubdiv evaluates is external: bilinear on the corners *)
(* of a PTEX face.                                                           *)
(***************************************************************************)
EXTENDS AlembicArchive, ClassicFiles

PatchGuides ==
  [id : Int, face : Nat, uv : Seq(Int), radii : Seq(Int), angles : Seq(Int), blend : Int, cvs : Seq(Coordinates)]

\* A patch as the parser leaves it.
IsPatch(patch) == patch.faces \in Seq(Nat) /\ patch.guides \in Seq(PatchGuides)

FaceOffset(mesh, f) == IndexSum(SubSeq(mesh.counts, 1, f))

FaceVertices(mesh, f) ==
  SubSeq(mesh.indices, FaceOffset(mesh, f) + 1, FaceOffset(mesh, f + 1))

\* A corner of a face, which wraps around.
Corner(mesh, f, c) == LET vs == FaceVertices(mesh, f) IN vs[(c % Len(vs)) + 1]

Middle(places) == PlaceTimes(FoldLeft(PlacePlus, Place(Zero), places), 1, Len(places))

-----------------------------------------------------------------------------
(* PTEX faces: a quad is one, another polygon is one for each corner. *)

PtexFaces(mesh) ==
  FlattenSeq([i \in DOMAIN mesh.counts |->
    LET n == IF mesh.counts[i] = 4 THEN 1 ELSE mesh.counts[i]
    IN [q \in 1 .. n |-> [face |-> i - 1, quadrant |-> q - 1, count |-> n]]])

\* External: the corners of a PTEX face on a surface.  The faces are handed over
\* with their vertices turned round, and its v runs against the caller's.
PtexCorners(mesh, points, location) ==
  LET n == At(mesh.counts, location.face)
      Point(c) == At(points, Corner(mesh, location.face, c))
      own == n - 1 - location.quadrant
      Share(vectors) == [i \in 1 .. 3 |-> VectorSum(vectors)[i] \div Len(vectors)]
  IN IF location.count = 1 THEN [c \in 1 .. 4 |-> Point(c - 1)]
     ELSE << Share(<<Point(own), Point(own + 1)>>), Share([c \in 1 .. n |-> Point(c - 1)]),
             Share(<<Point(own), Point(own + n - 1)>>), Point(own) >>

\* The point at a guide's (u, v): v runs against that of the corners.
Bilinear(c, uv) ==
  LET u == uv[1]
      v == Grid - uv[2]
      sum == Plus(Plus(Times(c[1], (Grid - u) * (Grid - v)), Times(c[2], u * (Grid - v))),
                  Plus(Times(c[3], u * v), Times(c[4], (Grid - u) * v)))
  IN <<sum[1] \div (Grid * Grid), sum[2] \div (Grid * Grid), sum[3] \div (Grid * Grid)>>

AlongU(c, uv) ==
  Plus(Times(Minus(c[2], c[1]), uv[2]), Times(Minus(c[3], c[4]), Grid - uv[2]))

AlongV(c, uv) ==
  Plus(Times(Minus(c[4], c[1]), Grid - uv[1]), Times(Minus(c[3], c[2]), uv[1]))

\* xgen_surface_frame() of derivatives that are perpendicular.
DerivativesFit(du, dv) == du # Zero /\ dv # Zero

SurfaceFrame(du, dv) ==
  LET tangent == Normalize(du)
      binormal == Normalize(Times(dv, -1))
  IN [tangent |-> tangent, binormal |-> binormal, normal |-> Normalize(Cross(tangent, binormal))]

-----------------------------------------------------------------------------
(* xgen_limit_vertices(): the reference cage smoothed once, then its limit *)

Edge(a, b) == {a, b}

FaceEdges(mesh, f) ==
  LET vs == FaceVertices(mesh, f) IN {Edge(vs[c], vs[(c % Len(vs)) + 1]) : c \in DOMAIN vs}

FacesOf(mesh) == 0 .. Len(mesh.counts) - 1

IncidentFaces(mesh, v) == {f \in FacesOf(mesh) : v \in Range(FaceVertices(mesh, f))}

EdgeFaces(mesh, e) == {f \in FacesOf(mesh) : e \in FaceEdges(mesh, f)}

SumOver(S, Part(_)) == FoldSet(LAMBDA s, sum : PlacePlus(Part(s), sum), Place(Zero), S)

FacePoint(mesh, f) ==
  Middle([c \in 1 .. At(mesh.counts, f) |-> Place(At(mesh.reference, Corner(mesh, f, c - 1)))])

EdgePoint(mesh, e) ==
  LET ends == SumOver(e, LAMBDA v : Place(At(mesh.reference, v)))
      faces == SumOver(EdgeFaces(mesh, e), LAMBDA f : FacePoint(mesh, f))
  IN IF Cardinality(EdgeFaces(mesh, e)) = 2 THEN PlaceTimes(PlacePlus(ends, faces), 1, 4)
     ELSE PlaceTimes(ends, 1, 2)

\* The faces and edges at v, and those of the edges that are on a boundary.
Star(mesh, v) ==
  LET faces == IncidentFaces(mesh, v)
      edges == {e \in UNION {FaceEdges(mesh, f) : f \in faces} : v \in e}
  IN [faces |-> faces, edges |-> edges, boundary |-> {e \in edges : Cardinality(EdgeFaces(mesh, e)) # 2}]

\* The vertex is inside the mesh.
IsRegular(star) ==
  star.boundary = {} /\ Cardinality(star.edges) >= 3 /\ Cardinality(star.edges) = Cardinality(star.faces)

OtherEnd(mesh, v, e) == Place(At(mesh.reference, CHOOSE w \in e : w # v))

SmoothedVertex(mesh, v, star) ==
  LET own == Place(At(mesh.reference, v))
      n == Cardinality(star.edges)
      neighbours == SumOver(star.edges, LAMBDA e : OtherEnd(mesh, v, e))
      faces == SumOver(star.faces, LAMBDA f : FacePoint(mesh, f))
      boundary == SumOver(star.boundary, LAMBDA e : OtherEnd(mesh, v, e))
  IN IF Cardinality(star.boundary) = 2
     THEN PlacePlus(PlaceTimes(own, 3, 4), PlaceTimes(boundary, 1, 8))
     ELSE IF ~IsRegular(star) THEN own
     ELSE PlacePlus(PlaceTimes(own, n - 2, n), PlaceTimes(PlacePlus(neighbours, faces), 1, n * n))

\* The centre of the quarter of face f at v after one subdivision.
ChildFacePoint(mesh, v, own, f) ==
  PlaceTimes(PlacePlus(PlacePlus(own, FacePoint(mesh, f)),
                       SumOver({e \in FaceEdges(mesh, f) : v \in e}, LAMBDA e : EdgePoint(mesh, e))),
             1, 4)

LimitVertex(mesh, v) ==
  LET star == Star(mesh, v)
      own == SmoothedVertex(mesh, v, star)
      n == Cardinality(star.edges)
      edges == SumOver(star.edges, LAMBDA e : EdgePoint(mesh, e))
      faces == SumOver(star.faces, LAMBDA f : ChildFacePoint(mesh, v, own, f))
      boundary == SumOver(star.boundary, LAMBDA e : EdgePoint(mesh, e))
  IN IF Cardinality(star.boundary) = 2 /\ n = 2 THEN own
     ELSE IF Cardinality(star.boundary) = 2 THEN PlaceTimes(PlacePlus(PlaceTimes(own, 4, 1), boundary), 1, 6)
     ELSE IF ~IsRegular(star) THEN own
     ELSE PlacePlus(PlaceTimes(own, n - 1, n + 5),
                    PlacePlus(PlaceTimes(edges, 2, n * (n + 5)), PlaceTimes(faces, 4, n * (n + 5))))

-----------------------------------------------------------------------------
(* smooth_vertex_normals() of a polygon mesh: area vectors of the fans *)

FaceTriangles(mesh, f) ==
  [c \in 1 .. At(mesh.counts, f) - 2 |-> <<Corner(mesh, f, 0), Corner(mesh, f, c), Corner(mesh, f, c + 1)>>]

MeshTriangles(mesh) == FlattenSeq([i \in DOMAIN mesh.counts |-> FaceTriangles(mesh, i - 1)])

Doubled(points, t) == Cross(Minus(At(points, t[2]), At(points, t[1])), Minus(At(points, t[3]), At(points, t[1])))

SummedNormal(mesh, points, v) ==
  LET ts == MeshTriangles(mesh)
  IN VectorSum([i \in DOMAIN ts |-> IF v \in Range(ts[i]) THEN Doubled(points, ts[i]) ELSE Zero])

NormalsFit(mesh) ==
  \A v \in 0 .. Len(mesh.positions) - 1 :
    SummedNormal(mesh, mesh.positions, v) # Zero /\ SummedNormal(mesh, mesh.reference, v) # Zero

SmoothNormals(mesh, points) ==
  [v \in DOMAIN points |-> Normalize(SummedNormal(mesh, points, v - 1))]

-----------------------------------------------------------------------------
(* The faces of a patch in the order of its list *)

Subdivided(patch) == patch.type = "Subd"

CoarseFace(patch, mesh, id) == IF Subdivided(patch) THEN At(PtexFaces(mesh), id).face ELSE id

SurfaceCorners(patch, mesh, points, id) ==
  IF Subdivided(patch) THEN PtexCorners(mesh, points, At(PtexFaces(mesh), id))
  ELSE [c \in 1 .. 4 |-> At(points, Corner(mesh, id, c - 1))]

\* The corners (u, v) of the cells of a subdivided face, row by row.
GridPoints(resolution) ==
  [k \in 1 .. (resolution + 1) * (resolution + 1) |->
     << ((k - 1) % (resolution + 1)) * (Grid \div resolution),
        ((k - 1) \div (resolution + 1)) * (Grid \div resolution) >>]

\* Two triangles for each cell, from the face's first vertex on.
CellTriangles(first, resolution) ==
  FlattenSeq([k \in 1 .. resolution * resolution |->
    LET a == first + ((k - 1) \div resolution) * (resolution + 1) + ((k - 1) % resolution)
        d == a + resolution + 1
    IN << <<a, a + 1, d + 1>>, <<a, d + 1, d>> >>])

\* The vertices of the asset for a patch: the mesh's own, or a grid for each face.
PatchVertices(patch, mesh, points, resolution) ==
  LET Faces == Evaluated([i \in DOMAIN patch.faces |-> SurfaceCorners(patch, mesh, points, patch.faces[i])])
      Vertex(c, uv) == [at |-> Bilinear(c, uv), normal |-> SurfaceFrame(AlongU(c, uv), AlongV(c, uv)).normal]
      grid == GridPoints(resolution)
  IN IF ~Subdivided(patch)
     THEN [v \in DOMAIN points |-> [at |-> points[v], normal |-> SmoothNormals(mesh, points)[v]]]
     ELSE FlattenSeq([i \in DOMAIN Faces |-> [k \in DOMAIN grid |-> Vertex(Faces[i], grid[k])]])

PatchTriangles(patch, mesh, i, base, resolution) ==
  IF Subdivided(patch)
  THEN CellTriangles(base + (i - 1) * (resolution + 1) * (resolution + 1), resolution)
  ELSE LET ts == FaceTriangles(mesh, patch.faces[i])
       IN [k \in DOMAIN ts |-> [j \in 1 .. 3 |-> ts[k][j] + base]]

\* The face's area and the lengths of its middle lines: of the limit cage for a
\* quad of a subdivided patch, of the surface for another polygon.
FaceCage(patch, mesh, id) ==
  LET coarse == CoarseFace(patch, mesh, id)
  IN IF At(mesh.counts, coarse) = 4
     THEN [c \in 1 .. 4 |-> LimitVertex(mesh, Corner(mesh, coarse, c - 1))]
     ELSE LET corners == PtexCorners(mesh, mesh.reference, At(PtexFaces(mesh), id))
          IN [c \in 1 .. 4 |-> Place(corners[c])]

Span(a, b, c, d) ==
  LET s == PlaceMinus(PlacePlus(a, b), PlacePlus(c, d)) IN Length(s.at) \div (2 * s.over)

CageLengths(cage) ==
  [u |-> Span(cage[4], cage[3], cage[1], cage[2]), v |-> Span(cage[2], cage[3], cage[1], cage[4])]

FaceMeasure(patch, mesh, id) ==
  LET lengths == CageLengths(Evaluated(FaceCage(patch, mesh, id)))
      ts == FaceTriangles(mesh, id)
  IN IF Subdivided(patch)
     THEN [area |-> lengths.u * lengths.v, u |-> lengths.u, v |-> lengths.v]
     ELSE [area |-> NumberSum([k \in DOMAIN ts |-> Length(Doubled(mesh.positions, ts[k]))]) \div 2,
           u |-> 1, v |-> 1]

\* The reference vertices that bound a face: for a subdivided one, those of every
\* face that touches it.
BoundingVertices(patch, mesh, id) ==
  LET own == Range(FaceVertices(mesh, CoarseFace(patch, mesh, id)))
      around == UNION {IncidentFaces(mesh, v) : v \in own}
      vs == IF Subdivided(patch) THEN UNION {Range(FaceVertices(mesh, f)) : f \in around} ELSE own
  IN {At(mesh.reference, v) : v \in vs}

FaceBounds(points) ==
  [min |-> [i \in 1 .. 3 |-> Min({p[i] : p \in points})],
   max |-> [i \in 1 .. 3 |-> Max({p[i] : p \in points})]]

-----------------------------------------------------------------------------
(* The guides of a patch *)

InterpolationFits(g) == g.radii # <<>> => Len(g.radii) = Len(g.angles) + 1

\* Every radius is scaled by 1 + blend, and never below 1.
SupportRadii(g) == [r \in DOMAIN g.radii |-> g.radii[r] * Max({1 + g.blend, 1})]

\* The cell and the half of it that (u, v) lies in.
GuideTriangle(patch, first, uv, resolution) ==
  LET cell == IF Subdivided(patch) THEN Grid \div resolution ELSE Grid
      last == (Grid \div cell) - 1
      cu == Min({uv[1] \div cell, last})
      cv == Min({uv[2] \div cell, last})
      u == (uv[1] - cu * cell) * (Grid \div cell)
      v == (uv[2] - cv * cell) * (Grid \div cell)
      triangle == first + (cv * (last + 1) + cu) * 2
  IN IF u >= v THEN [triangle |-> triangle, bary |-> <<u - v, v>>]
     ELSE [triangle |-> triangle + 1, bary |-> <<u, v - u>>]

GuideFits(patch, mesh, g) ==
  /\ g.face \in Range(patch.faces)
  /\ Subdivided(patch) \/ At(mesh.counts, g.face) = 4
  /\ g.uv[1] \in 0 .. Grid /\ g.uv[2] \in 0 .. Grid
  /\ \A points \in {mesh.positions, mesh.reference} :
       LET c == SurfaceCorners(patch, mesh, points, g.face)
       IN DerivativesFit(AlongU(c, g.uv), AlongV(c, g.uv))
  /\ InterpolationFits(g)

\* CVs are authored in the frame of the surface.
ImportedGuide(patch, mesh, g, first, resolution) ==
  LET c == SurfaceCorners(patch, mesh, mesh.positions, g.face)
      r == SurfaceCorners(patch, mesh, mesh.reference, g.face)
      root == Bilinear(c, g.uv)
      frame == SurfaceFrame(AlongU(c, g.uv), AlongV(c, g.uv))
      place == GuideTriangle(patch, first, g.uv, resolution)
      InFrame(cv) == Plus(root, Plus(Times(frame.tangent, cv[1]),
                                     Plus(Times(frame.normal, cv[2]), Times(frame.binormal, cv[3]))))
  IN [cvs |-> [k \in DOMAIN g.cvs |-> InFrame(g.cvs[k])], normal |-> frame.normal, uv |-> g.uv,
      face |-> g.face, triangle |-> place.triangle, bary |-> place.bary,
      support |-> IF g.radii = <<>> THEN 0 ELSE SupportRadii(g)[1],
      radii |-> SupportRadii(g), angles |-> g.angles,
      referenceRoot |-> Bilinear(r, g.uv),
      referenceFrame |-> SurfaceFrame(AlongU(r, g.uv), AlongV(r, g.uv))]

-----------------------------------------------------------------------------
(* ClassicReferenceSurfaceEvaluator: only subdivided patches have a surface. *)

SurfacesOf(in, name) == {s \in Range(in.surfaces) : s.name = name}

SurfaceAt(in, name, id, uv, reference) ==
  LET mesh == (CHOOSE s \in SurfacesOf(in, name) : TRUE).mesh
      c == PtexCorners(mesh, IF reference THEN mesh.reference ELSE mesh.positions, At(PtexFaces(mesh), id))
      du == AlongU(c, uv)
      dv == AlongV(c, uv)
      frame == SurfaceFrame(du, dv)
  IN [position |-> Bilinear(c, uv), normal |-> frame.normal, tangent |-> frame.tangent,
      fits |-> DerivativesFit(du, dv)]

EvaluationFits(in, name, id, uv) ==
  /\ \E s \in SurfacesOf(in, name) : id < Len(PtexFaces(s.mesh))
  /\ uv[1] \in 0 .. Grid /\ uv[2] \in 0 .. Grid
  /\ \A reference \in BOOLEAN : SurfaceAt(in, name, id, uv, reference).fits

-----------------------------------------------------------------------------
(* build_xgen_classic_alembic_asset_input() *)

LimitsFit(limits) ==
  /\ limits.objects # 0 /\ limits.vertices # 0 /\ limits.faces # 0
  /\ limits.faceVertices # 0 /\ limits.triangles # 0
  /\ limits.resolution \in 1 .. 64

PatchFits(patch, archive, sel, limits) ==
  /\ PatchObjectFits(archive, patch.name, sel, limits)
  /\ LET mesh == PatchMesh(archive, patch.name, sel)
         faces == IF Subdivided(patch) THEN Len(PtexFaces(mesh)) ELSE Len(mesh.counts)
     IN /\ ~Subdivided(patch) => NormalsFit(mesh)
        /\ \A f \in Range(patch.faces) :
             f < faces /\ LET m == FaceMeasure(patch, mesh, f) IN m.area > 0 /\ m.u > 0 /\ m.v > 0
        /\ \A g \in Range(patch.guides) : GuideFits(patch, mesh, g)

\* The input so far, with the vertices, triangles, faces and guides of a patch.
AddPatch(in, patch, mesh, limits) ==
  LET now == PatchVertices(patch, mesh, mesh.positions, limits.resolution)
      rest == PatchVertices(patch, mesh, mesh.reference, limits.resolution)
      base == Len(in.positions)
      perFace == [i \in DOMAIN patch.faces |-> PatchTriangles(patch, mesh, i, base, limits.resolution)]
      First(i) == Len(in.triangles) + Len(FlattenSeq(SubSeq(perFace, 1, i - 1)))
      OfFace(id) == CHOOSE i \in DOMAIN patch.faces :
                      patch.faces[i] = id /\ \A j \in DOMAIN patch.faces : patch.faces[j] = id => i <= j
      Face(i) ==
        [patch |-> patch.name, face |-> patch.faces[i], first |-> First(i), count |-> Len(perFace[i]),
         resolution |-> IF Subdivided(patch) THEN limits.resolution ELSE 0,
         measure |-> FaceMeasure(patch, mesh, patch.faces[i]),
         bounds |-> FaceBounds(BoundingVertices(patch, mesh, patch.faces[i]))]
  IN [positions |-> in.positions \o [v \in DOMAIN now |-> now[v].at],
      normals |-> in.normals \o [v \in DOMAIN now |-> now[v].normal],
      reference |-> in.reference \o [v \in DOMAIN rest |-> rest[v].at],
      referenceNormals |-> in.referenceNormals \o [v \in DOMAIN rest |-> rest[v].normal],
      texcoords |-> <<>>,
      triangles |-> in.triangles \o FlattenSeq(perFace),
      faces |-> in.faces \o [i \in DOMAIN patch.faces |-> Face(i)],
      surfaces |-> IF Subdivided(patch) THEN Append(in.surfaces, [name |-> patch.name, mesh |-> mesh])
                   ELSE in.surfaces,
      guides |-> in.guides \o [k \in DOMAIN patch.guides |->
                   ImportedGuide(patch, mesh, patch.guides[k], First(OfFace(patch.guides[k].face)),
                                 limits.resolution)]]

EmptyInput ==
  [positions |-> <<>>, normals |-> <<>>, reference |-> <<>>, referenceNormals |-> <<>>,
   texcoords |-> <<>>, triangles |-> <<>>, faces |-> <<>>, guides |-> <<>>,
   surfaces |-> <<>>]

AddPatches(patches, meshes, limits) ==
  FoldLeft(LAMBDA sum, i : AddPatch(sum, patches[i], meshes[i], limits), EmptyInput, [i \in DOMAIN patches |-> i])

BuildAssetInput(patches, archive, sel, limits) ==
  LET meshes == [i \in DOMAIN patches |-> PatchMesh(archive, patches[i].name, sel)]
      in == AddPatches(patches, meshes, limits)
  IN IF patches = <<>> \/ ~LimitsFit(limits) THEN Refused
     ELSE IF \E p \in Range(patches) : ~PatchFits(p, archive, sel, limits) THEN Refused
     ELSE IF ~IsInjective([i \in DOMAIN in.surfaces |-> in.surfaces[i].name]) THEN Refused
     ELSE IF Len(in.positions) > limits.vertices \/ Len(in.triangles) > limits.triangles THEN Refused
     ELSE in

\* With a frame, a lookup offset and a rate.
BuildAssetInputAt(patches, archive, sample, limits) ==
  IF sample.fps <= 0 THEN Refused
  ELSE BuildAssetInput(patches, archive,
                       [first |-> FALSE, time |-> LookupTime(sample), mode |-> sample.mode], limits)

=============================================================================
