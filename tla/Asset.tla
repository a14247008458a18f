------------------------------- MODULE Asset --------------------------------
(***************************************************************************)
(* The .nxg asset (src/asset.cpp): a mesh, its alias table for sampling by    *)
(* area, its guides and the guides near each triangle, in one blob.          *)
(*                                                                          *)
(* The input is [positions, reference, referenceNormals, normals, texcoords,  *)
(* triangles, guides]; a triangle is three vertices from 0; a guide is        *)
(* [cvs, normal, uv, triangle, bary, support, radii, angles].                *)
(***************************************************************************)
EXTENDS BlobContainer, Vectors

CONSTANTS
  StencilSize,   \* kGuideStencilSize, 8: the guides kept for a triangle
  Gradients,     \* the table of noise gradients
  MaxGuideCvs,   \* Bound: CVs of a guide, 2^16 - 1 in the code
  InvalidIndex   \* kInvalidIndex, 2^32 - 1

ASSUME AssetAssumption ==
  StencilSize \in Nat /\ MaxGuideCvs \in Nat /\ InvalidIndex \in Nat

-----------------------------------------------------------------------------
(* check_input() *)

\* Classic support: a broad radius, then one for each angle of the turn.
SupportFits(g) ==
  g.radii # <<>> =>
    /\ Len(g.radii) = Len(g.angles) + 1
    /\ \A r \in Range(g.radii) : r >= 0
    /\ \A i \in DOMAIN g.angles :
         g.angles[i] \in 0 .. 4 /\ (i > 1 => g.angles[i - 1] <= g.angles[i])

CheckInput(in) ==
  LET vertices == Len(in.positions)
  IN /\ in.positions # <<>> /\ in.triangles # <<>> /\ in.guides # <<>>
     /\ \A channel \in {in.normals, in.reference, in.referenceNormals, in.texcoords} :
          Len(channel) \in {0, vertices}
     /\ \A t \in Range(in.triangles) : \A i \in 1 .. 3 : t[i] < vertices
     /\ \A g \in Range(in.guides) : Len(g.cvs) \in 2 .. MaxGuideCvs /\ SupportFits(g)

-----------------------------------------------------------------------------
(* The derived sections *)

\* Twice the area vector of a triangle.
AreaVector(positions, t) ==
  Cross(Minus(At(positions, t[2]), At(positions, t[1])),
        Minus(At(positions, t[3]), At(positions, t[1])))

TriangleArea(positions, t) == Length(AreaVector(positions, t))

\* Mutation of AliasTable: what a small triangle leaves free of its bucket is not
\* taken from the large one that fills it.
AliasTableUnpaid(areas) ==
  LET total == NumberSum(areas)
      large == {i \in DOMAIN areas : areas[i] * Len(areas) >= total}
  IN [i \in DOMAIN areas |->
        IF i \in large THEN [probability |-> total, alias |-> i - 1]
        ELSE [probability |-> areas[i] * Len(areas),
              alias |-> (CHOOSE l \in large : TRUE) - 1]]

\* The triangles that are smaller than the average, and the others.
Piles(areas, total) ==
  LET Put(piles, i) ==
        IF areas[i] * Len(areas) < total
        THEN [small |-> Append(piles.small, i), large |-> piles.large]
        ELSE [small |-> piles.small, large |-> Append(piles.large, i)]
  IN FoldLeft(Put, [small |-> <<>>, large |-> <<>>], [i \in DOMAIN areas |-> i])

\* The buckets before any is filled by another triangle than its own.
OwnBuckets(areas, total) ==
  LET piles == Piles(areas, total)
  IN [small  |-> piles.small, large |-> piles.large,
      scaled |-> [i \in DOMAIN areas |-> areas[i] * Len(areas)],
      table  |-> [i \in DOMAIN areas |-> [probability |-> total, alias |-> i - 1]]]

\* The last large triangle fills the bucket of the last small one.
FillBucket(st, total) ==
  LET s == Last(st.small)
      l == Last(st.large)
      rest == st.scaled[l] + st.scaled[s] - total
  IN IF st.small = <<>> \/ st.large = <<>> THEN st
     ELSE [small  |-> IF rest < total THEN Append(Front(st.small), l) ELSE Front(st.small),
           large  |-> IF rest < total THEN Front(st.large) ELSE st.large,
           scaled |-> [st.scaled EXCEPT ![l] = rest],
           table  |-> [st.table EXCEPT ![s] = [probability |-> st.scaled[s], alias |-> l - 1]]]

\* make_alias_table(): probabilities in units of which the total area is 1.
AliasTable(areas) ==
  LET total == NumberSum(areas)
  IN FoldLeft(LAMBDA st, i : FillBucket(st, total), OwnBuckets(areas, total), [i \in DOMAIN areas |-> i]).table

\* What a table leaves to triangle i in the buckets of others.
LeftTo(table, total, i) ==
  NumberSum([j \in DOMAIN table |-> IF table[j].alias = i - 1 THEN total - table[j].probability ELSE 0])

\* A triangle's own bucket and what is left to it are its part of the area.
KeepsTheAreas(table, areas) ==
  \A i \in DOMAIN areas :
    table[i].probability + LeftTo(table, NumberSum(areas), i) = areas[i] * Len(areas)

\* make_normals(): given, or the sum of the area vectors of its triangles.
VertexNormals(in) ==
  IF in.normals # <<>> THEN in.normals
  ELSE [v \in DOMAIN in.positions |->
          Normalize(VectorSum([i \in DOMAIN in.triangles |->
            IF v - 1 \in Range(in.triangles[i])
            THEN AreaVector(in.positions, in.triangles[i]) ELSE Zero]))]

Unlimited == 10 ^ 6

\* automatic_support_radius(): 16 times the square of the radius, which is 7/4 of
\* the distance to the nearest other guide, and infinite if there is none.
SupportRadius(guides, i) ==
  LET Distance(j) == LengthSquared(Minus(Head(guides[i].cvs), Head(guides[j].cvs)))
      others == {Distance(j) : j \in DOMAIN guides \ {i}}
  IN IF guides[i].support > 0 THEN 16 * guides[i].support * guides[i].support
     ELSE IF others = {} THEN Unlimited
     ELSE IF Min(others) = 0 THEN 1
     ELSE 49 * Min(others)

FirstCv(guides, i) == NumberSum([j \in 1 .. i - 1 |-> Len(guides[j].cvs)])

GuideRecords(guides) ==
  [i \in DOMAIN guides |->
     [firstCv |-> FirstCv(guides, i), cvCount |-> Len(guides[i].cvs),
      triangle |-> guides[i].triangle, bary |-> guides[i].bary, uv |-> guides[i].uv,
      support |-> SupportRadius(guides, i), root |-> Head(guides[i].cvs),
      normal |-> Normalize(guides[i].normal)]]

\* The guides nearest to the centre of a triangle; those that stand on its other
\* side come last.
Stencil(positions, t, records) ==
  LET centre == Plus(Plus(At(positions, t[1]), At(positions, t[2])), At(positions, t[3]))
      Opposite(g) == Dot(Normalize(AreaVector(positions, t)), records[g].normal) < 0
      Far(g) == IF Opposite(g) THEN Unlimited
                ELSE LengthSquared(Minus(centre, Times(records[g].root, 3)))
      Before(g, h) == Far(g) < Far(h) \/ (Far(g) = Far(h) /\ g < h)
      order == SortSeq([g \in DOMAIN records |-> g], Before)
  IN [k \in 1 .. StencilSize |-> IF k <= Len(order) THEN order[k] - 1 ELSE InvalidIndex]

-----------------------------------------------------------------------------
(* build_asset() *)

AssetSections(in) ==
  LET records == GuideRecords(in.guides)
      areas == [i \in DOMAIN in.triangles |-> TriangleArea(in.positions, in.triangles[i])]
  IN << [values |-> in.positions, words |-> 3],
        [values |-> VertexNormals(in), words |-> 3],
        [values |-> in.texcoords, words |-> 2],
        [values |-> in.triangles, words |-> 3],
        [values |-> AliasTable(areas), words |-> 2],
        [values |-> records, words |-> 14],
        [values |-> FlattenSeq([i \in DOMAIN in.guides |-> in.guides[i].cvs]), words |-> 3],
        [values |-> FlattenSeq([i \in DOMAIN in.triangles |->
                      Stencil(in.positions, in.triangles[i], records)]), words |-> 1],
        [values |-> Gradients, words |-> 3] >>

HasArea(in) == \E t \in Range(in.triangles) : TriangleArea(in.positions, t) > 0

BuildAsset(in) ==
  IF ~CheckInput(in) \/ ~HasArea(in) THEN NoBlob
  ELSE LET laid == Lay(AssetSections(in))
       IN [header |-> [kind |-> "asset", texcoords |-> in.texcoords # <<>>,
                       words |-> BlobWords(laid.body), hash |-> ContentHash(laid.body),
                       vertices |-> Len(in.positions), triangles |-> Len(in.triangles),
                       guides |-> Len(in.guides),
                       guideCvs |-> FirstCv(in.guides, Len(in.guides) + 1),
                       stencil |-> StencilSize, gradients |-> Len(Gradients),
                       offset |-> laid.offset],
           body |-> laid.body, size |-> BlobWords(laid.body)]

-----------------------------------------------------------------------------
(* DeviceAssetView, validate_asset(), save_asset() and load_asset() *)

Positions(a) == View(a, 1, a.header.vertices, 3)
Normals(a) == View(a, 2, a.header.vertices, 3)
Texcoords(a) == View(a, 3, a.header.vertices, 2)
Triangles(a) == View(a, 4, a.header.triangles, 3)
Aliases(a) == View(a, 5, a.header.triangles, 2)
Guides(a) == View(a, 6, a.header.guides, 14)
GuideCvs(a) == View(a, 7, a.header.guideCvs, 3)
TriangleGuides(a) == View(a, 8, a.header.triangles * a.header.stencil, 1)
NoiseGradients(a) == View(a, 9, a.header.gradients, 3)

AssetSectionsFit(h) ==
  LET Fits(section, n, k) == SectionFits(h.words, h.offset[section], n, k, 1)
  IN /\ Fits(1, h.vertices, 3) /\ Fits(2, h.vertices, 3)
     /\ Fits(3, IF h.texcoords THEN h.vertices ELSE 0, 2)
     /\ Fits(4, h.triangles, 3) /\ Fits(5, h.triangles, 2)
     /\ Fits(6, h.guides, 14) /\ Fits(7, h.guideCvs, 3)
     /\ Fits(8, h.triangles * h.stencil, 1) /\ Fits(9, h.gradients, 3)

ValidateAsset(a) ==
  /\ a.size >= HeaderWords
  /\ a.header.kind = "asset"
  /\ a.header.words = a.size
  /\ a.header.triangles # 0 /\ a.header.vertices # 0 /\ a.header.guides # 0
  /\ a.header.stencil = StencilSize /\ a.header.gradients = Len(Gradients)
  /\ AssetSectionsFit(a.header)
  /\ ContentHash(a.body) = a.header.hash
  /\ \A t \in Range(Triangles(a)) : \A i \in 1 .. 3 : t[i] < a.header.vertices
  /\ \A g \in Range(Guides(a)) :
       g.cvCount >= 2 /\ g.firstCv + g.cvCount <= a.header.guideCvs

\* A file of which n words have been written; an invalid asset is not saved.
SaveAsset(a, n) == IF ValidateAsset(a) THEN Written(a, n) ELSE NoBlob

LoadAsset(file) == IF ValidateAsset(file) THEN file ELSE NoBlob

=============================================================================
