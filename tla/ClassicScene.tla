---------------------------- MODULE ClassicScene -----------------------------
(***************************************************************************)
(* A Classic description on its way from its files to curves, as the tools     *)
(* take it: "cold" (tools/xgen_classic_cold_benchmark.cpp), "collection" and   *)
(* "motion" (src/xgen_classic_collection.cpp, whose plans the GPU modes of      *)
(* tools/xgen_classic_luisa_benchmark.cpp launch), "single" (the mode of that   *)
(* tool for one description), "asset" (tools/xgen_classic_asset.cpp, whose file *)
(* tools/luisa_classic_benchmark.cpp loads) and "lower"                      *)
(* (tools/xgen_classic_inspect.cpp).                                         *)
(*                                                                          *)
(* A scene is [tool, d, palette, collection, root, disk, limits, archive, wires,      *)
(* lookups, cvs, effects, probe, p, draws, missing, requests, trees].           *)
(* Its way is a function of it: the order of the threads on the way is the     *)
(* subject of ClassicMotion and ClassicCollection.  A way is a record: whether *)
(* no exception has ended the tool (ok), the ClassicFloatRuntimePlan (plan),   *)
(* for each lookup its import (surfaces), its roots and tangents (samples),     *)
(* whose deformation it uses (source), its clump guides (clumps) and its       *)
(* curves of the host and of the kernels (host, device), the ClassicRootPlan   *)
(* of the first lookup (roots), the ClassicRuntimeInputData (rows), and the    *)
(* asset.                                                                    *)
(***************************************************************************)
EXTENDS ClassicInputs

CONSTANTS
  Scenes,           \* a scene for each of some names
  TreeTokens(_),    \* WrittenAs of ExpressionTrees: the tokens of a tree
  TreeWorth(_, _)   \* TreeValue of ExpressionTrees: its value for some values of the variables

VARIABLES
  scene,      \* the name of the scene
  tree,       \* the expression that the length is written from, or NoTree
  missing,    \* how many words the file of the asset is short of
  ran,        \* the tool has run
  request     \* what the library was asked after that, or NoRequest

sceneVars == <<scene, tree, missing, ran, request>>

NoTree == [op |-> "none"]
NoRequest == [kind |-> "none"]

S == Scenes[scene]

-----------------------------------------------------------------------------
\* The description, the length of whose strands is a tree's.
D == IF tree = NoTree THEN S.d
     ELSE [S.d EXCEPT !.objects[1].sources =
             [length |-> << [tokens |-> TreeTokens(tree), comment |-> FALSE] >>]]

Primitive == ObjectsOf(D, "SplinePrimitive")[1]
Patch == D.patches[1].name

-----------------------------------------------------------------------------
(* Stages *)

Stages ==
  [lower      |-> <<"compile">>,
   cold       |-> <<"directory", "compile", "import", "probe", "roots", "bake", "inputs", "clumps", "limit", "curves">>,
   single     |-> <<"directory", "compile", "import", "roots", "inputs", "clumps", "limit", "curves">>,
   collection |-> <<"directory", "compile", "import", "roots", "inputs", "clumps", "limit", "curves">>,
   motion     |-> <<"lookups", "directory", "compile", "inspect", "import", "roots", "inputs", "deform", "share", "clumps", "limit",
                    "identify", "curves">>,
   asset      |-> <<"import", "bake", "load", "compile", "sample", "curves">>]

\* A scene is one of the tools, what it reads are patches and archives, and its
\* lookups are numbers.
ASSUME SceneAssumption ==
  \A x \in DOMAIN Scenes :
    /\ Scenes[x].tool \in DOMAIN Stages
    /\ {"objects", "patches"} \subseteq DOMAIN Scenes[x].d
    /\ Scenes[x].d.patches \in Seq(Range(Scenes[x].d.patches))
    /\ \A patch \in Range(Scenes[x].d.patches) : IsPatch(patch)
    /\ IsArchive(Scenes[x].archive)
    /\ \A path \in DOMAIN Scenes[x].disk :
         Scenes[x].disk[path].kind = "abc" => IsArchive(Scenes[x].disk[path].archive)
    /\ Scenes[x].lookups \in Seq([placement : Int, frame : Int, offset : Int, fps : Int, mode : STRING])

Start ==
  [ok |-> TRUE, plan |-> NoRuntimePlan, surfaces |-> <<>>, roots |-> NoPlan, samples |-> <<>>, source |-> <<>>,
   rows |-> <<>>, clumps |-> <<>>, asset |-> NoBlob, host |-> <<>>, device |-> <<>>]
Failed(w) == [w EXCEPT !.ok = FALSE]
NoCurves == [ok |-> FALSE, curves |-> <<>>]

\* The calls for a whole collection refuse what needs a fallback.
NeedsLowering == S.tool \in {"collection", "motion", "single"}
UsesCache == S.tool \notin {"single", "asset"} /\ NumberOf(Primitive, "useCache") = 1

\* Where the files of the description are.
CollectionRoot == DescriptionsRoot(S.collection, S.root, S.disk)
Directory == Under(CollectionRoot, S.root, <<OnlyPart(D.name)>>)
FindDirectory(w) == IF CollectionRoot = NoDirectory THEN Failed(w) ELSE w

\* guide_cache_path() of the cold tool takes the name as it stands, and the
\* collection looks for a file that has been moved with its description.
CachePath ==
  LET value == Primitive.cacheFile
  IN IF S.tool # "cold" THEN ResolveFile(value, Directory, OnlyPart("guides"), "abc", S.disk)
     ELSE IF value.root = "${DESC}" THEN Under(Directory, value, value.parts) ELSE value
Moves == S.tool = "motion"
Relative(w) == w.roots.offsets # <<>>

Cvs ==
  CASE S.tool = "asset" -> S.p.cvs
    [] S.tool = "cold" /\ S.cvs # 0 -> S.cvs
    [] S.tool = "cold" /\ NumberOf(Primitive, "fxCVCount") < 2 -> 8
    [] OTHER -> NumberOf(Primitive, "fxCVCount")

Compile(w) ==
  LET p == CompileRuntimePlan(D, S.palette)
  IN IF p.fits /\ (NeedsLowering => p.fallbacks = 0) THEN [w EXCEPT !.plan = p] ELSE Failed(w)

-----------------------------------------------------------------------------
(* Import *)

Deformation == DeformationIsStatic(S.archive, {p.name : p \in Range(D.patches)}, S.limits.objects)
\* The file of the cache is there, and is an archive.
OpensCache == CachePath \in DOMAIN S.disk /\ S.disk[CachePath].kind = "abc"
CacheMotion ==
  IF ~OpensCache THEN "failed"
  ELSE GuideCacheIsStatic(S.disk[CachePath].archive, S.limits.objects)

\* static_deformation
Still ==
  /\ Moves /\ Len(S.lookups) > 1
  /\ Deformation = "static" /\ (UsesCache => CacheMotion = "static")

\* validate_xgen_classic_motion_sampling()
ValidateLookups(w) ==
  LET placements == [k \in DOMAIN S.lookups |-> S.lookups[k].placement]
  IN IF /\ Len(S.lookups) \in 1 .. 20
        /\ \A k \in DOMAIN S.lookups : /\ S.lookups[k].fps > 0
                                       /\ k > 1 => placements[k - 1] < placements[k]
     THEN w ELSE Failed(w)

\* The cache is looked at only where the patches stand still.
Inspect(w) ==
  IF Len(S.lookups) > 1 =>
       Deformation # "failed" /\ (Deformation = "static" /\ UsesCache => CacheMotion # "failed")
  THEN w ELSE Failed(w)

\* No lookups are the first sample.
Lookups == IF S.lookups = <<>> THEN {1} ELSE DOMAIN S.lookups

Imported(k) ==
  LET bare == IF S.lookups = <<>> THEN BuildAssetInput(D.patches, S.archive, FirstSample, S.limits)
              ELSE BuildAssetInputAt(D.patches, S.archive, S.lookups[k], S.limits)
      cache == S.disk[CachePath].archive
  IN IF ~UsesCache \/ bare = Refused THEN bare
     ELSE IF ~OpensCache THEN Refused
     ELSE IF S.lookups = <<>> THEN ApplyGuideCache(bare, cache, FirstSample, S.limits, S.wires)
     ELSE ApplyGuideCacheAt(bare, cache, S.lookups[k], S.limits, S.wires)

\* A scene that stands still is imported once.
Import(w) ==
  LET ins == Evaluated([k \in 1 .. (IF Still THEN 1 ELSE Cardinality(Lookups)) |-> Imported(k)])
  IN IF Refused \in Range(ins) THEN Failed(w) ELSE [w EXCEPT !.surfaces = ins]

\* The values of one place of the surface, and the curve of a root there.
Probe(w) ==
  LET p == S.probe
      in == w.surfaces[1]
      current == SurfaceAt(in, Patch, p.face, p.uv, FALSE)
      root == [face |-> p.face, uv |-> p.uv, position |-> current.position, id |-> 0]
      found == ExplicitRootPlan(D, in, Directory, Patch, <<root>>, S.disk)
      fits == /\ in.surfaces # <<>> /\ EvaluationFits(in, Patch, p.face, p.uv)
              /\ RandomMask(D, Directory, Patch, p.face, p.uv, S.disk) # Invalid /\ found.fits
              /\ found.influences # <<>> => BaseCurves(in, found, Cvs, 0, 1, FALSE) # <<>>
  IN IF p = <<>> THEN w ELSE IF fits THEN w ELSE Failed(w)

-----------------------------------------------------------------------------
(* Roots, their rows and their motion *)

\* A description always has a patch here: an import without one is refused.
PlanRoots(w) ==
  LET planned == RootPlan(D, w.surfaces[1], Directory, S.disk, S.limits)
      fits == /\ planned.fits
              /\ NeedsLowering => planned.offsets # <<>>
              /\ S.tool = "single" => planned.roots # <<>>
              /\ Moves /\ planned.roots # <<>> => RootTopology(planned, w.surfaces[1]) # <<>>
  IN IF ~fits THEN Failed(w)
     ELSE [w EXCEPT !.roots = planned, !.samples = << [roots |-> planned.roots, tangents |-> planned.tangents] >>]

BindInputs(w) ==
  LET inputs == InputRows(w.plan.in, w.plan.id, w.plan.name, Directory, Patch, w.roots, S.disk)
  IN IF inputs.fits THEN [w EXCEPT !.rows = inputs.rows] ELSE Failed(w)

\* The roots of the first lookup are evaluated again on the others.
Deform(w) ==
  LET Moved(k) == DeformRoots(w.roots, RootTopology(w.roots, w.surfaces[1]), w.surfaces[k])
      moved == Evaluated([k \in 1 .. Cardinality(Lookups) |-> IF k = 1 THEN <<>> ELSE Moved(k)])
      Sample(k) == [roots |-> [s \in DOMAIN moved[k] |-> moved[k][s].root],
                    tangents |-> [s \in DOMAIN moved[k] |-> moved[k][s].tangent]]
  IN IF Still \/ w.roots.roots = <<>> THEN w
     ELSE IF <<>> \in Range(Tail(moved)) THEN Failed(w)
     ELSE [w EXCEPT !.samples = @ \o Evaluated([k \in 1 .. Len(moved) - 1 |-> Sample(k + 1)])]

\* A lookup whose roots and guides are those of an earlier one uses that one.
ShareDeformation(w) ==
  LET guides == Evaluated([k \in DOMAIN w.surfaces |-> RebuiltGuides(w.surfaces[k], Cvs)])
      Same(k, j) == w.samples[k] = w.samples[j] /\ guides[k] = guides[j]
      Extend(sum, k) == Append(sum, Min({j \in 1 .. k - 1 : sum[j] = j /\ Same(k, j)} \cup {k}))
  IN [w EXCEPT !.source = IF Still THEN [k \in Lookups |-> 1]
                          ELSE FoldLeft(Extend, <<>>, [k \in 1 .. Cardinality(Lookups) |-> k])]

Own(w) == {k \in Lookups : w.source = <<>> \/ w.source[k] = k}

\* The plan of the roots as lookup k has them.
RootsAt(w, k) == [w.roots EXCEPT !.roots = w.samples[k].roots, !.tangents = w.samples[k].tangents]

Clump(w) ==
  LET Made(k) == AllClumps(D, w.surfaces[k], Directory, w.plan, Cvs, w.samples[k].roots, S.disk)
      made == Evaluated([k \in 1 .. Cardinality(Lookups) |-> IF k \in Own(w) THEN Made(k) ELSE <<>>])
  IN IF \E k \in DOMAIN made : \E m \in Range(made[k]) : ~m.fits THEN Failed(w) ELSE [w EXCEPT !.clumps = made]

\* Only the first effects are wanted; the clumps of the others have been built.
LimitEffects(w) ==
  IF S.tool = "cold" /\ S.effects > Len(w.plan.effects) THEN Failed(w)
  ELSE [w EXCEPT !.plan.effects = SubSeq(@, 1, Min({S.effects, Len(@)}))]

\* prepare_motion_description(): what the samples have in common is uploaded once.
ClumpIdentity(clump) ==
  [of |-> clump.of,
   guides |-> [g \in DOMAIN clump.guides |-> [face |-> clump.guides[g].face, prefix |-> clump.guides[g].prefix,
                                              row |-> clump.guides[g].row]]]

Identify(w) ==
  LET Identities(k) == [m \in DOMAIN w.clumps[k] |-> ClumpIdentity(w.clumps[k][m])]
  IN IF \A k \in Own(w) : Identities(k) = Identities(1) THEN w ELSE Failed(w)

-----------------------------------------------------------------------------
(* The asset and the roots that are drawn on it *)

Bake(w) ==
  LET a == BuildAsset(w.surfaces[1])
  IN IF a = NoBlob THEN Failed(w) ELSE [w EXCEPT !.asset = a]

\* The tool may end before it has written the last words.
SaveAndLoad(w) ==
  LET a == LoadAsset(SaveAsset(w.asset, w.asset.size - missing))
  IN IF a = NoBlob THEN Failed(w) ELSE [w EXCEPT !.asset = a]

\* RuntimeCase: strands have no rows, and their numbers begin at 0.
Sample(w) ==
  LET a == w.asset
      drawn == Evaluated([s \in 1 .. S.p.strands |-> SampleRoot(a, NoFrame, S.draws[s])])
      Uv(s) == [i \in 1 .. 2 |-> (drawn[s].uv[i] * Whole) \div Unit]
      tangents == Evaluated([s \in DOMAIN drawn |-> SurfaceU(a, NoFrame, drawn[s])])
  IN IF ~HostRequestFits(a, S.p, NoFrame) THEN Failed(w)
     ELSE [w EXCEPT
       !.roots = [fits |-> TRUE, roots |-> drawn, tangents |-> tangents,
                  references |-> [s \in DOMAIN drawn |-> drawn[s].position],
                  ids |-> [s \in DOMAIN drawn |-> s - 1], offsets |-> <<>>, influences |-> <<>>,
                  prefixes |-> [s \in DOMAIN drawn |->
                                  HashPrefix(Uv(s) \o <<FaceSeed(w.plan.id, w.plan.name, drawn[s].face)>>)]],
       !.rows = [s \in DOMAIN drawn |-> <<>>],
       !.samples = << [roots |-> drawn, tangents |-> tangents] >>]

-----------------------------------------------------------------------------
(* Curves of the host and of the kernels *)

Upstream(w, k) ==
  LET kept == Len(ModulesOf(w.plan, "clump"))
  IN IF kept = 0 THEN <<>> ELSE SubSeq(w.clumps[k], 1, kept)

BaseRadii(w, n) == [c \in 1 .. n |-> IF Relative(w) THEN 0 ELSE Width(S.p, c - 1) \div (2 * (n - 1))]

StrandsAt(w, k, curves) == StrandsOf(w.plan, RootsAt(w, k), curves, w.rows, Upstream(w, k), BaseRadii(w, Cvs))

\* The strands that are left, in the world, with the points that renderers want.
Finished(w, strands, applied, kept) ==
  LET live == InOrder({s \in DOMAIN strands : kept[s]}, Len(strands))
      Curve(s) ==
        LET points == IF Relative(w) THEN WorldSpace(applied[s].points, strands[s].root) ELSE applied[s].points
        IN IF S.tool = "asset" THEN [points |-> points, radii |-> applied[s].radii]
           ELSE RendererEndpoints(points, applied[s].radii)
  IN Evaluated([i \in DOMAIN live |-> [root |-> strands[live[i]].root, curve |-> Curve(live[i])]])

\* The curves of a whole groom, or of the guides around each root.
HostCurves(w, k) ==
  LET p == [S.p EXCEPT !.strands = Len(w.roots.roots), !.cvs = Cvs]
      made == GenerateFromRoots(w.asset, p, w.roots.roots, 1)
  IN IF Relative(w) THEN BaseCurves(w.surfaces[k], RootsAt(w, k), Cvs, 0, 1, TRUE)
     ELSE IF RootsRequestFits(w.asset, p, w.roots.roots, 1) THEN [s \in DOMAIN made |-> made[s].cvs] ELSE <<>>

Host(w, k) ==
  LET curves == HostCurves(w, k)
      strands == StrandsAt(w, k, curves)
      applied == ApplyRuntime(w.plan, strands, 1, Relative(w))
  IN IF curves = <<>> \/ ~RuntimeRequestFits(w.plan, strands, Cvs, 1) THEN NoCurves
     ELSE IF \E a \in Range(applied) : ~a.ok THEN NoCurves
     ELSE [ok |-> TRUE, curves |-> Finished(w, strands, applied, [s \in DOMAIN applied |-> applied[s].keep])]

\* Each kernel reads what the one before it has written for the strand.
Device(w, k) ==
  LET n == Len(w.roots.roots)
      guides == RebuiltGuides(w.surfaces[k], Cvs)
      Base(s) ==
        IF Relative(w) THEN BaseKernelStrand(w.samples[k].roots[s].position, s - 1, w.roots.offsets,
                                             w.roots.influences, guides, Cvs, TRUE)
        ELSE KernelStrand(w.asset, S.p, w.roots.roots[s], 1).cvs
      strands == StrandsAt(w, k, Evaluated([s \in 1 .. n |-> Base(s)]))
      applied == Evaluated([s \in 1 .. n |-> KernelApply(w.plan, strands[s], 1, Relative(w))])
      fits == n > 0 /\ IF Relative(w) THEN BaseKernelFits(Cvs, 0, 1) ELSE KernelFits(w.asset, S.p, 1)
  IN IF ~fits THEN NoCurves
     ELSE [ok |-> TRUE, curves |-> Finished(w, strands, applied, [s \in 1 .. n |-> applied[s].live])]

\* validate_motion_topology(): every sample has the strands of the first.
StrandsStay(w, made) ==
  LET Identities(k) == [i \in DOMAIN made[k].curves |-> [face |-> made[k].curves[i].root.face,
                                                        uv |-> made[k].curves[i].root.uv]]
  IN \A k \in Own(w) : Identities(k) = Identities(1)

\* Only the device modes launch kernels, and compare with what the host gives.
CurvesOf(w) ==
  LET Of(Made(_)) == Evaluated([k \in 1 .. Cardinality(Lookups) |-> IF k \in Own(w) THEN Made(k) ELSE NoCurves])
      device == IF S.tool = "cold" THEN <<>> ELSE Of(LAMBDA k : Device(w, k))
      host == Of(LAMBDA k : Host(w, k))
      Fits(made) == \A k \in DOMAIN made \cap Own(w) : made[k].ok
  IN IF Fits(device) /\ (Moves => StrandsStay(w, device)) /\ Fits(host) THEN [w EXCEPT !.device = device, !.host = host] ELSE Failed(w)

-----------------------------------------------------------------------------
(* The way, as far as a stage *)

Stage(w, stage) ==
  IF ~w.ok THEN w
  ELSE CASE stage = "lookups" -> ValidateLookups(w) [] stage = "directory" -> FindDirectory(w)
         [] stage = "compile" -> Compile(w) [] stage = "inspect" -> Inspect(w) [] stage = "import" -> Import(w)
         [] stage = "probe" -> Probe(w) [] stage = "roots" -> PlanRoots(w) [] stage = "inputs" -> BindInputs(w)
         [] stage = "deform" -> Deform(w) [] stage = "share" -> ShareDeformation(w) [] stage = "clumps" -> Clump(w)
         [] stage = "limit" -> LimitEffects(w) [] stage = "identify" -> Identify(w) [] stage = "bake" -> Bake(w)
         [] stage = "load" -> SaveAndLoad(w) [] stage = "sample" -> Sample(w) [] stage = "curves" -> CurvesOf(w)

Passes(stage) == stage \in Range(Stages[S.tool])

\* The way after a stage, where the tool comes to it.
WaysAfter(stage) ==
  LET stages == Stages[S.tool]
      n == Min({i \in DOMAIN stages : stages[i] = stage})
      w == FoldLeft(Stage, Start, SubSeq(stages, 1, n))
  IN IF ~Passes(stage) THEN {} ELSE IF w.ok THEN {w} ELSE {}

-----------------------------------------------------------------------------
(* Calls of the library with an asset or the roots of a description *)

\* A request is granted, or refused with what the library says.
Grants(asset, q) ==
  LET d == DescribeDeviceAsset(asset, TRUE, TRUE, q.capacity)
      error == CASE q.kind = "generate" -> GenerationError(d, q.frame, q.p, q.out, 256)
                 [] q.kind = "packed" -> PackedGenerationError(d, q.frame, q.p, q.out, 256)
                 [] q.kind = "motion" -> MotionGenerationError(d, q.samples, q.p, q.out, 256)
  IN CASE q.kind = "roots" -> RootsRequestFits(asset, q.p, q.roots, 1)
       [] q.kind = "frames" -> HostRequestFits(asset, q.p, q.frame)
       [] OTHER -> error = "None"

-----------------------------------------------------------------------------

SceneInit ==
  /\ scene \in DOMAIN Scenes
  /\ tree \in S.trees
  /\ missing \in S.missing
  /\ ran = FALSE /\ request = NoRequest

Run ==
  /\ ~ran
  /\ ran' = TRUE
  /\ UNCHANGED <<scene, tree, missing, request>>

\* What has been made does not change with a request.
Ask(q) ==
  /\ ran /\ request = NoRequest
  /\ request' = q
  /\ UNCHANGED <<scene, tree, missing, ran>>

SceneNext == Run \/ \E q \in S.requests : Ask(q)

SceneSpec == SceneInit /\ [][SceneNext]_sceneVars

-----------------------------------------------------------------------------
(* What is expected of the way when the tool has run, and of what it is asked   *)
(* then                                                                      *)

Runs == ran' # ran
Asks(kinds) == request' # request /\ request'.kind \in kinds

\* What an expression reads of the strand that the effects before may change.
Reading(e) ==
  IF e = <<>> THEN {}
  ELSE Range(e[1].inputs) \cup {"t" : i \in {j \in DOMAIN e[1].instructions : e[1].instructions[j].op = "ramp"}}

\* The host and the kernels read the width before it is known, the length for a
\* taper and the place on the strand at different times, the amount of a clump
\* has the random prefix and the stray of the strand on the host and those of its
\* guide on a device, and only the kernels write widths that nothing asks for.
ReadsAlike(plan) ==
  LET p == plan.primitive
      AlongTheStrand == {"type", "name", "control", "magnitude", "magnitudeScale", "noiseScale", "clumpScale"}
  IN /\ "cWidth" \notin Reading(p.length) \cup Reading(p.width)
     /\ plan.effects = <<>> \/ {"cLength", "t"} \cap (Reading(p.taper) \cup Reading(p.taperStart)) = {}
     /\ {"cLength", "cWidth", "t"} \cap Reading(plan.stray) = {}
     /\ \A m \in Range(plan.effects) : \A a \in DOMAIN m \ AlongTheStrand : "t" \notin Reading(m[a])
     /\ \A m \in Range(ModulesOf(plan, "clump")) :
          m.clump # <<>> => \A e \in Range(m.clump[1].instructions) : e.op \notin {"rand", "stray"}
     /\ \E a \in {"width", "taper", "taperStart", "widthRamp"} : p[a] # <<>>

\* The kernels of a device give the strands, points and widths that the host gives
\* for the same plan, although they compute every branch, read the points another
\* kernel wrote and search a fixed number of steps (compare() in
\* tools/xgen_classic_luisa_benchmark.cpp).
BackendsAgree ==
  [][Runs => \A w \in WaysAfter("curves") :
       w.device # <<>> /\ ReadsAlike(w.plan) => \A k \in Own(w) : w.host[k].curves = w.device[k].curves]_sceneVars

GrantedInBounds(asset, q) ==
  LET Holds(array, count) == array.there => \A i \in 0 .. count - 1 : i < array.capacity
      Reaches(array, size) == array.there => array.capacity >= size
      FrameReaches(f) == /\ Reaches(f.positions, asset.header.vertices)
                         /\ Reaches(f.normals, asset.header.vertices)
                         /\ Reaches(f.guideCvs, asset.header.guideCvs)
  IN /\ q.kind = "roots" =>
          \A r \in Range(q.roots) : \A access \in Reads(asset, r) : access[2] < SectionSize(asset, access[1])
     /\ q.kind \in {"generate", "packed"} =>
          /\ FrameReaches(q.frame)
          /\ Holds(q.out.points, PointIndex(q.p, q.p.strands - 1, q.p.cvs - 1) + 1)
          /\ Holds(q.out.roots, q.p.strands)
     /\ q.kind = "generate" => Holds(q.out.widths, q.p.strands * q.p.cvs)
     /\ q.kind = "packed" => Holds(q.out.rootUVs, q.p.strands) /\ Holds(q.out.pointCounts, q.p.strands)
     /\ q.kind = "motion" =>
          /\ \A i \in DOMAIN q.samples : FrameReaches(q.samples[i].frame)
          /\ Holds(q.out, Len(q.samples) * q.p.strands * q.p.cvs)

\* A request that is granted reads only what the asset has and writes only where
\* the arrays of the caller reach (src/asset.cpp, device_contract.h).
AccessesInBounds ==
  [][Asks({"roots", "generate", "packed", "motion"}) =>
       \A w \in WaysAfter("load") : Grants(w.asset, request') => GrantedInBounds(w.asset, request')]_sceneVars

AliasKept(asset) ==
  LET triangles == Triangles(asset)
  IN KeepsTheAreas(Aliases(asset), [i \in DOMAIN triangles |-> TriangleArea(Positions(asset), triangles[i])])

\* What the alias table gives each triangle, its own bucket's share and what other
\* buckets leave to it, is the triangle's part of the area (make_alias_table()).
AliasKeepsTheAreas ==
  [][Runs => \A w \in WaysAfter("load") : AliasKept(w.asset)]_sceneVars

MovedCurve(a, b, by) ==
  /\ Len(a.points) = Len(b.points) /\ a.radii = b.radii
  /\ \A c \in DOMAIN a.points : b.points[c] = Plus(a.points[c], by)

\* A clump guide has the places of its own sample as the domain of its noise, which
\* is then not the same noise on another sample.
ClumpsStayTheSame(plan) ==
  \A m \in Range(ModulesOf(plan, "clump")) :
    plan.in.noises = <<>> /\ \A e \in Range(m.noise[1].instructions) : e.op = "constant" /\ e.immediate = 0

\* Two samples of one surface that differ by a translation have curves that do.
SamplesAreCarried(w) ==
  LET Shift(k) == Minus(w.surfaces[k].positions[1], w.surfaces[1].positions[1])
      Rigid(k) == \A i \in DOMAIN w.surfaces[1].positions :
                    w.surfaces[k].positions[i] = Plus(w.surfaces[1].positions[i], Shift(k))
      first == w.host[1].curves
      Carried(k) == /\ Len(w.host[k].curves) = Len(first)
                    /\ \A i \in DOMAIN first :
                         MovedCurve(first[i].curve, w.host[k].curves[i].curve, FixedPoint(Shift(k)))
  IN \A k \in Own(w) \ {1} : Rigid(k) => Carried(k)

FrameIsCarried(asset, q) ==
  LET f == q.frame
      by == Minus(f.positions[1], Positions(asset)[1])
      Rigid == \A i \in DOMAIN f.positions : f.positions[i] = Plus(Positions(asset)[i], by)
      rest == GenerateDeformed(asset, q.p, NoFrame, q.draws, 1)
      strands == GenerateDeformed(asset, q.p, f, q.draws, 1)
  IN Rigid => \A s \in DOMAIN rest :
       SamePlaces(strands[s].cvs, [c \in DOMAIN rest[s].cvs |-> PlacePlus(rest[s].cvs[c], Place(by))])

\* A surface that only moves carries its curves along: the same strands, with the
\* same points as seen from their roots, whatever effects they have (motion samples
\* of a collection, deformed frames of an asset).
RigidMotionMovesCurves ==
  [][/\ Runs /\ Moves /\ ~UsesCache =>
          \A w \in WaysAfter("curves") : ClumpsStayTheSame(w.plan) => SamplesAreCarried(w)
     /\ Asks({"frames"}) =>
          \A w \in WaysAfter("load") : Grants(w.asset, request') => FrameIsCarried(w.asset, request')]_sceneVars

\* Where one import is taken for every motion sample, each of them would have been
\* imported the same (static_deformation in src/xgen_classic_collection.cpp).
StaticMeansStatic ==
  [][Runs /\ Moves /\ Still => \A w \in WaysAfter("import") : \A k \in Lookups : Imported(k) = w.surfaces[1]]_sceneVars

TakesTheLeast(given) ==
  LET sel == IF S.lookups = <<>> THEN FirstSample
             ELSE [first |-> FALSE, time |-> LookupTime(S.lookups[1]), mode |-> S.lookups[1].mode]
      bare == BuildAssetInput(D.patches, S.archive, sel, S.limits)
      curves == CacheCurves(S.disk[CachePath].archive, sel)
      guides == [g \in DOMAIN bare.guides |-> TurnedGuide(bare.guides, g)]
      costs == Costs(guides, curves)
      AreGiven(mapping) == \A g \in DOMAIN guides : Tail(given[g].cvs) = Tail(curves[mapping[g]].cvs)
  IN Authored(guides, curves, S.wires) = <<>> =>
       \E mapping \in Matchings(Len(guides)) : AreGiven(mapping) /\ CostsLeast(costs, mapping)

\* Without names that say it, the guides have been given the curves of the cache
\* that cost least in all, of all ways to give each its own
\* (apply_xgen_classic_alembic_guide_cache()).
AssignmentIsMinimal ==
  [][Runs /\ UsesCache => \A w \in WaysAfter("import") : TakesTheLeast(w.surfaces[1].guides)]_sceneVars

Means(program, in) ==
  LET Context(id, long) ==
        [id |-> id, cLength |-> long, cWidth |-> 0, row |-> <<>>, u |-> 0, v |-> 0, faceSeed |-> 0, t |-> 0,
         prefix |-> <<>>, stray |-> 0]
      Known(id, long) == ("id" :> id * Whole) @@ ("cLength" :> long)
  IN \A id \in {0, 2}, long \in {Whole \div 2, 3 * Whole} :
       EvaluateRuntime(in, program, Context(id, long)) = <<TreeWorth(tree, Known(id, long))>>

\* An expression means what its operators, calls and assignments say, with the
\* parentheses that are needed and no others (Compiler in src/xgen_expression.cpp).
CompiledMeansItsTree ==
  [][Runs /\ tree # NoTree => \E w \in WaysAfter("compile") :
       w.plan.primitive.length # <<>> /\ Means(w.plan.primitive.length[1], w.plan.in)]_sceneVars

\* The weights that are not 0, of all guides of the surface.
AllInfluences(in, roots, s) ==
  LET root == roots.roots[s]
      at == SurfaceAt(in, roots.patches[s], root.face, root.uv, TRUE)
      regions == Regions(D, Directory, Patch, in.guides, S.disk)
      InfluenceOf(i) == Product(GuideWeight(in.guides[i], at.position, at.normal),
                              GuideScale(D, regions, roots.patches[s], i, root.face, root.uv)[1])
  IN {[guide |-> i - 1, weight |-> InfluenceOf(i)] : i \in {j \in DOMAIN in.guides : InfluenceOf(j) > 0}}

\* The grid that roots look for guides in leaves none out: a root has every guide
\* that its place on the surface and the regions give a weight, with that weight
\* (GuideSupportIndex in src/xgen_classic_roots.cpp).
RootsHaveTheirGuides ==
  [][Runs /\ ObjectsOf(D, "RandomGenerator") # <<>> => \A w \in WaysAfter("roots") :
       HasSupport(w.surfaces[1]) =>
         \A s \in DOMAIN w.roots.roots : Range(InfluencesOf(w.roots, s)) = AllInfluences(w.surfaces[1], w.roots, s)]_sceneVars

AuthoredAs(a) == IF a \in DOMAIN Primitive.sources THEN Primitive.sources[a] ELSE <<>>
StrandValue(w, a, s) ==
  EvaluateRuntime(w.plan.in, w.plan.primitive[a][1], RootContext(w.plan.id, w.plan.name, w.roots, s, w.rows[s]))

\* `numbers' and `colors' are what has been given for the custom attributes.
PrimvarsAgree(w, numbers, colors) ==
  LET floats == CustomsOf(D, "float")
      painted == CustomsOf(D, "color")
  IN numbers.fits /\ colors.fits => \A i \in DOMAIN floats, s \in DOMAIN w.roots.roots :
       /\ \A a \in {"length", "width"} :
            AuthoredAs(a) = floats[i].source => <<numbers.values[i][s]>> = StrandValue(w, a, s)
       /\ \A c \in DOMAIN painted : painted[c].source = floats[i].source => colors.values[c][s][1] = numbers.values[i][s]

\* A custom attribute that is written as the length or the width is has the value
\* that the strand has, and a color that is a map the one that a number from the
\* map has, although each call numbers the inputs its own way
\* (src/xgen_classic_ptex.cpp).
PrimvarsAreTheStrands ==
  [][Asks({"primvars"}) => \A w \in WaysAfter("inputs") :
       PrimvarsAgree(w, FloatPrimvars(D, S.palette, Directory, Patch, w.roots, S.disk),
                     ColorPrimvars(D, request'.evaluates, Directory, Patch, w.roots, S.disk))]_sceneVars

Follows(module, root, made, s) ==
  LET Points == Locations(ClumpFile(D, module.name, "pointDir", Directory, "xuv", S.disk))
      id == MapId(ClumpFile(D, module.name, "mapDir", Directory, "ptx", S.disk), root.face, root.uv)
      IsThere(g) == g.face = Points[id].face /\ g.uv = Points[id].uv
  IN IF id = 0 THEN made.of[s] = 0
     ELSE IF made.of[s] = 0 THEN ~\E g \in Range(made.guides) : IsThere(g)
     ELSE IsThere(made.guides[made.of[s]])

\* A strand that the map gives a number follows the guide at the point of that
\* number in the file, or none if that point has none, however many points before
\* it were left out on the way (src/xgen_classic_clump.cpp).
ClumpsFollowTheirMap ==
  [][Runs => \A w \in WaysAfter("clumps") :
       LET modules == ModulesOf(w.plan, "clump")
       IN \A k \in Own(w), m \in DOMAIN modules : \A s \in DOMAIN w.roots.roots :
            Follows(modules[m], w.samples[k].roots[s], w.clumps[k][m], s)]_sceneVars

Stand(made) ==
  LET first == IF S.tool = "asset" THEN 1 ELSE 2
  IN \A i \in DOMAIN made.curves : made.curves[i].curve.points[first] = made.curves[i].root.position

\* No effect moves a strand off its root (src/xgen_classic_runtime.cpp).
StrandsStandOnTheirRoots ==
  [][Runs => \A w \in WaysAfter("curves") : \A made \in Range(w.host) \cup Range(w.device) : Stand(made)]_sceneVars

=============================================================================
