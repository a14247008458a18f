---------------------------- MODULE MCClassicScene ----------------------------
(* Scenes for TLC: a small description, and what is changed in it.           *)
EXTENDS ClassicScene, ExpressionTrees

MCGradients == << <<1, 0, 0>>, <<0, 1, 0>> >>

MCStringSeed ==
  LET Names ==
        {"d", "skin", "r", "p", "mask", "RandomGenerator", "roundOffInternal", "strayInternal", "Description",
         "SplinePrimitive", "length", "width", "taper", "taperStart", "widthRamp", "Palette", "grow", "amount",
         "NoiseFXModule", "ClumpingFXModule", "CutFXModule", "RendermanRenderer", "shade", "tone", "wide", "long", "tint",
         "strayPercentage", "magnitude", "magnitudeScale", "frequency", "correlation", "preserveLength", "clump",
         "clumpScale", "noise", "noiseScale", "noiseFrequency", "noiseCorrelation"}
  IN [n \in Names |-> CASE n = "mask" -> 3 [] n = "skin" -> 17 [] n = "length" -> 29 [] n = "d" -> 44 [] OTHER -> 5]

MCSamplePattern == << << <<1, 1>>, <<3, 3>>, <<3, 1>>, <<1, 3>> >>, << <<2, 1>>, <<1, 3>>, <<3, 2>>, <<0, 0>> >> >>

-----------------------------------------------------------------------------
(* Sources *)

Word(name) == NameToken(name)
Number(n) == NumberToken(n)
Sign1(k) == Symbol(k)
MapCall(path) == [kind |-> "map", text |-> "", number |-> 0, path |-> path]
Source(tokens) == << [tokens |-> tokens, comment |-> FALSE] >>
Constant(n) == Source(<<Number(n)>>)
CallOf(name, a, b) == <<Word(name), Sign1("("), Number(a), Sign1(","), Number(b), Sign1(")")>>
Ramp(a, b, kind) ==
  <<Word("rampUI"), Sign1("("), Number(0), Sign1(","), Number(a), Sign1(","), Number(kind), Sign1(":"),
    Number(Whole), Sign1(","), Number(b), Sign1(","), Number(0), Sign1(")")>>

-----------------------------------------------------------------------------
(* Files *)

InPlace(name, extension) == [root |-> "${DESC}", parts |-> <<OnlyPart(name)>>, extension |-> extension]
OnDisk(name, extension) ==
  [root |-> "/", parts |-> <<OnlyPart("d"), OnlyPart(name)>>, extension |-> extension]
Folder(root, names) ==
  [root |-> root, parts |-> [i \in DOMAIN names |-> OnlyPart(names[i])], extension |-> ""]
Folders(paths) == [path \in paths |-> [kind |-> "directory"]]
Collection ==
  [descriptions |-> <<OnlyPart("d")>>, palette |-> OnlyPart("furs"), data |-> <<>>, project |-> <<>>,
   directory |-> Folder("/", <<"home">>)]

\* The same files, in a directory that has been moved.
FilesIn(names, disk) ==
  LET Moved(path) == [path EXCEPT !.parts = Folder("/", names).parts \o @]
      moved == {Moved(path) : path \in DOMAIN disk}
  IN [path \in moved |-> disk[CHOOSE old \in DOMAIN disk : Moved(old) = path]]
     @@ Folders({Folder("/", names), Folder("/", Append(names, "d"))})

\* One row of two texels for each of two faces.
Painted(channels, a, b, c, d) ==
  [kind |-> "ptex", channels |-> channels, faces |-> << << <<a, b>> >>, << <<c, d>> >> >>]

Grey == Painted(1, <<255>>, <<128>>, <<64>>, <<255>>)
Half == Painted(1, <<0>>, <<255>>, <<255>>, <<128>>)

\* The colors of the numbers 0, 1, 2 and 3 of a region or a clump.
Color(id) == CASE id = 0 -> <<0, 0, 0>> [] id = 1 -> <<127, 255, 255>> [] id = 2 -> <<255, 127, 255>>
               [] id = 3 -> <<127, 127, 255>>
Ids(a, b, c, d) == Painted(3, Color(a), Color(b), Color(c), Color(d))

\* Points <<id, u, v, x, y, z>> of two faces.
Xpd(first, second) ==
  [kind |-> "xpd", magic |-> "XPD3", type |-> "point", space |-> "world", cvs |-> 1, header |-> 2,
   blocks |-> << [name |-> "Location", floats |-> 6] >>,
   faces |-> << [id |-> 0, primitives |-> Len(first), offset |-> <<2>>],
                [id |-> 1, primitives |-> Len(second), offset |-> <<2 + 6 * Len(first)>>] >>,
   size |-> 2 + 6 * (Len(first) + Len(second)),
   data |-> <<0, 0>> \o FlattenSeq(first) \o FlattenSeq(second)]

Points == Xpd(<< <<1, 1, 3, 0, 0, 0>>, <<2, 3, 3, 0, 0, 0>> >>, << <<3, 2, 3, 0, 0, 0>> >>)

-----------------------------------------------------------------------------
(* The surface: two quads side by side, in an archive *)

Flat(wide, high) ==
  [positions |-> << <<0, 0, 0>>, <<wide, 0, 0>>, <<2 * wide, 0, 0>>,
                    <<0, 0, high>>, <<wide, 0, high>>, <<2 * wide, 0, high>> >>,
   counts |-> <<4, 4>>, indices |-> <<0, 1, 4, 3, 1, 2, 5, 4>>]

Object(name, kind, parent, times, values) ==
  [name |-> name, kind |-> kind, parent |-> parent, times |-> times, values |-> values, pref |-> <<>>]

Still2 == <<Object("world", "xform", 0, <<0>>, << <<0, 0, 0>> >>), Object("skin", "subd", 1, <<0>>, <<Flat(16, 16)>>)>>
Raised ==
  <<Object("world", "xform", 0, <<0, 2>>, << <<0, 0, 0>>, <<0, 16, 0>> >>),
    Object("skin", "subd", 1, <<0>>, <<Flat(16, 16)>>)>>
Stretched ==
  <<Object("world", "group", 0, <<>>, <<>>), Object("skin", "subd", 1, <<0, 2>>, <<Flat(16, 16), Flat(32, 16)>>)>>

Guide(face, uv, cvs) ==
  [id |-> face, face |-> face, uv |-> uv, radii |-> <<40, 40, 16>>, angles |-> <<0, 2>>, blend |-> 0, cvs |-> cvs]
Up(n) == [k \in 1 .. n |-> <<0, 4 * (k - 1), 0>>]
Bent == << <<0, 0, 0>>, <<0, 8, 0>>, <<8, 8, 0>> >>
Guides2 == <<Guide(0, <<1, 1>>, Up(3)), Guide(1, <<1, 3>>, Bent)>>
Skin(guides) == [name |-> "skin", type |-> "Subd", faces |-> <<0, 1>>, culled |-> <<>>, guides |-> guides]

Limits ==
  [objects |-> 9, vertices |-> 99, faces |-> 9, faceVertices |-> 99, triangles |-> 99, resolution |-> 2,
   candidates |-> 20, roots |-> 20]

-----------------------------------------------------------------------------
(* The description *)

Random == [type |-> "RandomGenerator", name |-> "r", active |-> TRUE, density |-> <<1>>, scFlag |-> "", mask |-> <<>>]
Spline(sources, numbers) ==
  [type |-> "SplinePrimitive", name |-> "p", active |-> TRUE, sources |-> sources, numbers |-> numbers,
   regionMap |-> <<>>, regionMask |-> <<>>, cacheFile |-> InPlace("guides", "abc")]
Widths == [width |-> Constant(32), taper |-> Constant(32), widthRamp |-> Source(Ramp(Whole, Whole \div 2, Whole))]

Description(sources, modules) ==
  [name |-> "d", id |-> 3, objects |-> <<Random, Spline(sources, [fxCVCount |-> 4])>> \o modules,
   patches |-> <<Skin(Guides2)>>, bindings |-> {}, stray |-> <<>>]

Noise ==
  [type |-> "NoiseFXModule", name |-> "n", active |-> TRUE, numbers |-> <<>>,
   sources |-> [mask |-> Constant(64), magnitude |-> Constant(64), magnitudeScale |-> Source(Ramp(Whole, 0, Whole)),
                frequency |-> Constant(64), correlation |-> Constant(0), preserveLength |-> Constant(0)]]
Clumping ==
  [type |-> "ClumpingFXModule", name |-> "k", active |-> TRUE, numbers |-> <<>>,
   files |-> [pointDir |-> InPlace("points", "xuv"), mapDir |-> InPlace("ids", "ptx")],
   sources |-> [mask |-> Constant(64), clump |-> Constant(32), clumpScale |-> Constant(0), noise |-> Constant(0),
                noiseScale |-> Constant(64), noiseFrequency |-> Constant(64), noiseCorrelation |-> Constant(0)]]
Cut(amount) ==
  [type |-> "CutFXModule", name |-> "c", active |-> TRUE, numbers |-> [rebuildType |-> 1],
   sources |-> [amount |-> amount]]

Parameters ==
  [strands |-> 2, cvs |-> 4, support |-> 1, power |-> 2, reject |-> -1, length |-> 1, rootWidth |-> 32, tipWidth |-> 0,
   amplitude |-> 0, frequency |-> 2, mask |-> 1, decorrelation |-> 0, preserve |-> 0]

Base ==
  [tool |-> "collection", d |-> Description(Widths, <<>>), palette |-> <<>>, collection |-> Collection, root |-> Folder("/", <<>>),
   disk |-> OnDisk("grey", "ptx") :> Grey, limits |-> Limits, archive |-> Still2, wires |-> <<>>, lookups |-> <<>>,
   cvs |-> 0, effects |-> 9, probe |-> <<>>, p |-> Parameters, draws |-> <<>>, missing |-> {0}, requests |-> {},
   trees |-> {NoTree}]

-----------------------------------------------------------------------------
(* Expressions *)

Number3 == [op |-> "number", value |-> 3 * Whole, args |-> <<>>]
Id == [op |-> "variable", value |-> "id", args |-> <<>>]
Long == [op |-> "variable", value |-> "cLength", args |-> <<>>]
Local(name) == [op |-> "variable", value |-> name, args |-> <<>>]
Node(op, args) == [op |-> op, value |-> "", args |-> args]
Set(name, value, rest) == [op |-> "set", value |-> name, args |-> <<value, rest>>]

Operators == {"+", "-", "*", "/", "<", "==", "&&", "||"}
Pairs == Operators \X Operators

Trees ==
  {Node(o[2], <<Node(o[1], <<Id, Long>>), Number3>>) : o \in Pairs}
    \cup {Node(o[1], <<Id, Node(o[2], <<Long, Number3>>)>>) : o \in {p \in Pairs : p[1] # "/" \/ p[2] \in {"+", "*", "/"}}}
    \cup {Node(o[1], <<Node("negate", <<Id>>), Node(o[2], <<Node("not", <<Long>>), Number3>>)>>) :
            o \in {"+", "*"} \X {"-", ">="}}
    \cup {Node("negate", <<Node(o, <<Id, Long>>)>>) : o \in {"+", "!="}}
    \cup {Node("select", <<Node("<", <<Id, Long>>), Node("select", <<Id, Long, Number3>>), Node("+", <<Id, Long>>)>>),
          Node("+", <<Node("select", <<Id, Long, Number3>>), Id>>),
          [op |-> "method", value |-> "max", args |-> <<Node("+", <<Id, Long>>), Node("-", <<Number3, Id>>)>>],
          Node("*", <<[op |-> "call", value |-> "min", args |-> <<Id, Long>>], Number3>>),
          Set("a", Node("+", <<Id, Long>>),
              Set("b", Node("*", <<Local("a"), Number3>>),
                  Set("a", Node("-", <<Local("b"), Local("a")>>), Node("+", <<Local("a"), Local("b")>>))))}

Lowered2 ==
  [Base EXCEPT !.tool = "lower", !.trees = Trees,
               !.d.objects = <<Spline([length |-> Constant(Whole)], [fxCVCount |-> 4]), Random>>]

-----------------------------------------------------------------------------
(* What is changed in the description *)

Files(more) == more @@ Base.disk
Sampled(placement, frame, mode) ==
  [placement |-> placement, frame |-> frame, offset |-> 0, fps |-> 1, mode |-> mode]
Shutter == <<Sampled(0, 0, "linear"), Sampled(1, 1, "linear"), Sampled(2, 0, "none")>>
Two == SubSeq(Shutter, 1, 2)

ClumpFiles == (OnDisk("points", "xuv") :> Points) @@ (OnDisk("ids", "ptx") :> Ids(1, 2, 3, 0))

Inputs ==
  [Widths EXCEPT !.width = Source(CallOf("rand", 16, 64))]
    @@ [length |-> Source(<<MapCall(InPlace("grey", "ptx")), Sign1("*"), Word("grow"), Sign1("("), Sign1(")"),
                            Sign1("+"), Word("noise"), Sign1("("), Variable("Prefg"), Sign1("*"), Number(128), Sign1(")")>>)]
Palette == << [name |-> "grow", source |-> Source(<<Variable("id"), Sign1("/"), Number(128)>>)] >>

\* Numbers with these sources, and a color.
Attributes(sources, tint) ==
  [type |-> "RendermanRenderer", name |-> "r", active |-> TRUE,
   customs |-> [i \in DOMAIN sources |-> [kind |-> "float", name |-> <<"shade", "tone", "wide", "long">>[i],
                                          array |-> FALSE, source |-> sources[i]]]
                 \o << [kind |-> "color", name |-> "tint", array |-> FALSE, source |-> tint] >>]
OfMap(name) == Source(<<MapCall(InPlace(name, "ptx"))>>)
Renderer == Attributes(<<OfMap("half"), OfMap("grey"), Inputs.width, Inputs.length>>, OfMap("grey"))
FromVariable ==
  Source(<<Variable("t"), Sign1("="), MapCall(InPlace("ids", "ptx")), Sign1(";"), Variable("t"), Sign1(";")>>)
Primvars(evaluates) == {[kind |-> "primvars", evaluates |-> evaluates, capacity |-> 0]}

\* A ramp whose middle point is at a CV, and steps there.
Stepped ==
  Source(<<Word("rampUI"), Sign1("("), Number(0), Sign1(","), Number(64), Sign1(","), Number(0), Sign1(":"),
           Number(32), Sign1(","), Number(16), Sign1(","), Number(0), Sign1(":"),
           Number(64), Sign1(","), Number(48), Sign1(","), Number(0), Sign1(")")>>)
Steps == [Base EXCEPT !.d.objects[2].sources.widthRamp = Stepped, !.d.objects[2].numbers = [fxCVCount |-> 5]]

\* Guides that no radius has been authored for, and guides that reach less far.
Bare(guides) == [g \in DOMAIN guides |-> [guides[g] EXCEPT !.radii = <<>>, !.angles = <<>>]]
Near(guides, radii) == [g \in DOMAIN guides |-> [guides[g] EXCEPT !.radii = <<radii[g]>>, !.angles = <<>>]]
Guides3 == Guides2 \o <<Guide(1, <<3, 1>>, Up(2))>>

\* Clumps whose first point no guide reaches.
Holes ==
  [Base EXCEPT !.d = Description(Widths, <<Clumping>>), !.d.patches = <<Skin(Near(Guides2, <<8, 8>>))>>,
               !.disk = Files((OnDisk("points", "xuv") :>
                                 Xpd(<< <<1, 3, 3, 0, 0, 0>>, <<2, 1, 2, 0, 0, 0>> >>, << <<3, 2, 3, 0, 0, 0>> >>))
                                @@ (OnDisk("ids", "ptx") :> Ids(2, 1, 3, 3)))]

\* Clumps whose second guide is cut off by the clumps before it.
Cutting ==
  [Clumping EXCEPT !.name = "k2", !.sources.mask = Source(<<MapCall(InPlace("grey", "ptx"))>>)]

\* A map of regions, and a mask that keeps half of what other guides give.
Parted ==
  [Base EXCEPT !.disk = Files(OnDisk("regions", "ptx") :> Ids(1, 1, 2, 1)),
               !.d.objects[2].regionMap = <<InPlace("regions", "ptx")>>,
               !.d.objects[2].regionMask = Constant(32)]

Masked == [Base EXCEPT !.d.objects[1].mask = Source(<<Sign1("~"), MapCall(InPlace("half", "ptx"))>>),
                       !.d.objects[1].scFlag = "true",
                       !.d.patches[1].culled = << [face |-> 1, ids |-> <<1>>] >>,
                       !.disk = Files(OnDisk("half", "ptx") :> Half)]

AtGuides == [Base EXCEPT !.d.bindings = {[role |-> "Active", object |-> "GuideGenerator"]},
                         !.d.objects = Tail(Base.d.objects)]

-----------------------------------------------------------------------------
(* Guide caches: the same curves, moved along *)

Strands(name, kind, times, first, second) ==
  [name |-> name, kind |-> kind, parent |-> 0, times |-> times, pref |-> <<>>,
   values |-> [t \in DOMAIN times |-> [positions |-> [c \in 1 .. 6 |-> Plus(IF c < 4 THEN <<first, 4 * c, 4>>
                                                                          ELSE <<second, 8 * (c - 3), 4>>, <<0, times[t], 0>>)],
                                       counts |-> <<3, 3>>, indices |-> <<>>]]]
Cache(archive) == OnDisk("guides", "abc") :> [kind |-> "abc", archive |-> archive]

Cached(base, archive) ==
  [base EXCEPT !.d.objects[2].numbers = [fxCVCount |-> 4, useCache |-> 1, cacheFileName |-> 1],
               !.d.patches = <<Skin(<<Guide(0, <<1, 3>>, Up(3)), Guide(1, <<1, 3>>, Bent)>>)>>,
               !.disk = Files(Cache(archive))]

\* Each curve is nearest to the other's guide.
Crossed == << Strands(NoId, "curves", <<0>>, -10, 6) >>
Moving == << Strands(NoId, "curves", <<0, 2>>, 6, 22) >>
Named ==
  << [Strands(2, "curves", <<0>>, 4, 20) EXCEPT !.values[1].positions = SubSeq(@, 1, 3), !.values[1].counts = <<3>>],
     [Strands(1, "curves", <<0>>, 4, 20) EXCEPT !.values[1].positions = SubSeq(@, 4, 6), !.values[1].counts = <<3>>] >>

-----------------------------------------------------------------------------
(* Motion, one description, files of assets *)

Motion(archive, modules, lookups) ==
  [Base EXCEPT !.tool = "motion", !.archive = archive, !.lookups = lookups, !.d = Description(Widths, modules),
               !.disk = Files(ClumpFiles)]

Cold == [Base EXCEPT !.tool = "cold", !.effects = 0, !.cvs = 3]

\* The asset of a patch, drawn on at its first triangle and at the next one's alias.
Drawn == << [bucket |-> 0, coin |-> 0, bary |-> <<1, 1>>], [bucket |-> 1, coin |-> 5, bary |-> <<2, 0>>] >>
AssetOf(patch, archive, sources) ==
  [Base EXCEPT !.tool = "asset", !.archive = archive, !.d.patches = <<patch>>,
               !.d.objects = <<Random, Spline(sources, [fxCVCount |-> 4])>>,
               !.draws = Drawn, !.missing = {0, 30}]

\* A polygon mesh, with guides halfway along v.
Quads == [Skin(Bare(<<Guide(0, <<1, 2>>, Up(3)), Guide(1, <<1, 2>>, Bent)>>)) EXCEPT !.type = "Polygon"]
Uneven == [Still2 EXCEPT ![2].values = << [Flat(16, 16) EXCEPT !.positions[3] = <<64, 0, 0>>, !.positions[6] = <<64, 0, 16>>] >>]

Baked(requests) ==
  [AssetOf(Quads, Uneven, [length |-> Constant(32)] @@ Widths) EXCEPT !.requests = requests, !.p.support = 0]

\* What a caller asks for: arrays that are large enough, and ones that are not.
Sized(n) == IF n = 0 THEN NoArray ELSE [there |-> TRUE, capacity |-> n]
Outputs(points, count) ==
  [points |-> Sized(points), widths |-> Sized(points), roots |-> Sized(count), rootUVs |-> Sized(count),
   pointCounts |-> Sized(count), radiusScale |-> 1]
Unmoved == [positions |-> NoArray, normals |-> NoArray, guideCvs |-> NoArray]
RootAt(triangle, bary) ==
  [triangle |-> triangle, bary |-> bary, position |-> <<8, 0, 8>>, normal |-> <<0, 1, 0>>, uv |-> Zero, face |-> 0]

Requests ==
  {[kind |-> "roots", p |-> Parameters, capacity |-> 0,
    roots |-> <<RootAt(0, <<1, 1>>), RootAt(triangle, bary)>>] : triangle \in {3, 4}, bary \in {<<2, 2>>, <<4, 4>>}}
    \cup {[kind |-> kind, capacity |-> capacity, frame |-> [Unmoved EXCEPT !.positions = Sized(moved)],
           p |-> Parameters, out |-> Outputs(points, 2)] :
            kind \in {"generate", "packed"}, capacity \in {60, 999}, moved \in {0, 6, 7}, points \in {0, 7, 8}}
    \cup {[kind |-> "motion", capacity |-> 999, p |-> Parameters, out |-> Sized(points),
           samples |-> << [time |-> 0, frame |-> Unmoved], [time |-> later, frame |-> Unmoved] >>] :
            later \in {0, 1}, points \in {15, 16}}

\* Frames of the asset of two quads: ones that are moved, and one that is not a frame of it.
\* The grids of three by three vertices that the import gives the two quads.
AtRest ==
  [v \in 1 .. 18 |-> <<16 * ((v - 1) \div 9) + 8 * ((v - 1) % 3), 0, 16 - 8 * (((v - 1) % 9) \div 3)>>]
Frame(positions) == [NoFrame EXCEPT !.positions = positions]
Frames ==
  {[kind |-> "frames", capacity |-> 0, draws |-> Drawn, p |-> [Parameters EXCEPT !.support = support, !.amplitude = amplitude],
    frame |-> Frame([i \in DOMAIN AtRest |-> Plus(AtRest[i], <<0, 16, 16>>)])] : support \in {0, 1}, amplitude \in {0, 1}}
    \cup {[kind |-> "frames", capacity |-> 0, draws |-> Drawn, p |-> Parameters, frame |-> Frame(<<Zero>>)]}

-----------------------------------------------------------------------------
(* Scenes that come to an end before their curves *)

\* A directory that was written on a host which does not tell cases apart.
Old(names) ==
  [root |-> "c:/", parts |-> [i \in DOMAIN names |-> <<IF names[i] = "Old" THEN "old" ELSE names[i], names[i]>>],
   extension |-> ""]

Broken ==
  [ rate |-> [Motion(Still2, <<>>, Two) EXCEPT !.lookups[1].fps = 0],
    backwards |-> Motion(Still2, <<>>, <<Two[2], Two[1]>>),
    driven |-> [Base EXCEPT !.collection.data = <<Folder("c:", <<"d">>)>>],
    unmapped |-> [Base EXCEPT !.d = Description(Inputs, <<>>)],
    mapless |-> [Base EXCEPT !.d = Description(Inputs, <<>>), !.palette = Palette, !.disk = OnDisk("half", "ptx") :> Half],
    small |-> [Base EXCEPT !.d = Description(Inputs, <<>>), !.palette = Palette,
                           !.disk = OnDisk("grey", "ptx") :> [Grey EXCEPT !.faces = <<@[1]>>]],
    bounded |-> [Base EXCEPT !.limits.roots = 1],
    coarse |-> [Base EXCEPT !.limits.resolution = 0],
    absent |-> [Base EXCEPT !.d.patches[1].name = "p"],
    unread |-> [Base EXCEPT !.d.objects[2].numbers = [fxCVCount |-> -1]],
    mode |-> [Base EXCEPT !.d = Description(Widths, <<[Noise EXCEPT !.numbers = [mode |-> 1]]>>)],
    strayed |-> [Base EXCEPT !.d = Description([Widths EXCEPT !.width = Source(<<Word("stray"), Sign1("("), Sign1(")")>>)], <<>>),
                             !.d.stray = Source(<<Word("stray"), Sign1("("), Sign1(")")>>)],
    pointless |-> [Base EXCEPT !.d = Description(Widths, <<Clumping>>),
                               !.disk = Files(OnDisk("points", "xuv") :> [Points EXCEPT !.type = "spline"])],
    uncached |-> [Cached(Base, Crossed) EXCEPT !.disk = Base.disk],
    crowded |-> Cached(Base, << [Strands(NoId, "curves", <<0>>, 4, 20) EXCEPT !.values[1].counts = <<6>>] >>),
    far |-> [Cached(Base, << Strands(NoId, "curves", <<0>>, 4, 20),
                             [Strands(NoId, "curves", <<0>>, 40, 0) EXCEPT !.values[1].positions = SubSeq(@, 1, 3),
                                                                           !.values[1].counts = <<3>>] >>)
              EXCEPT !.d.patches = <<Skin(<<Guide(0, <<1, 3>>, Up(3)), Guide(1, <<1, 3>>, Bent), Guide(1, <<3, 3>>, Up(3))>>)>>],
    parts |-> Motion(<<Object("skin", "group", 0, <<>>, <<>>), Object("a", "subd", 1, <<0>>, <<Flat(16, 16)>>),
                       Object("b", "subd", 1, <<0>>, <<Flat(16, 16)>>)>>, <<>>, Two),
    tiny |-> [Cold EXCEPT !.cvs = 2],
    shrunk |-> [Base EXCEPT !.d = Description([length |-> Constant(-64)] @@ Widths, <<>>)] ]

MCScenes ==
  Broken @@
  [ plain |-> Steps,
    inputs |-> [Base EXCEPT !.d = Description(Inputs, <<Renderer>>), !.palette = Palette, !.requests = Primvars(FALSE),
                       !.disk = Files(OnDisk("half", "ptx") :> Half)],
    returned |-> [Base EXCEPT !.d = Description(Widths, <<Attributes(<<FromVariable>>, FromVariable)>>),
                         !.disk = Files(ClumpFiles), !.requests = Primvars(TRUE)],
    noise |-> [Base EXCEPT !.d = Description(Widths, <<Noise, Cut(Constant(32))>>)],
    clump |-> [Base EXCEPT !.d = Description(Widths, <<Clumping, Noise>>), !.disk = Files(ClumpFiles)],
    clumps |-> [Base EXCEPT !.d = Description(Widths, <<Clumping, Cutting>>), !.disk = Files(ClumpFiles)],
    moved |-> [Base EXCEPT !.d = Description(Widths, <<Clumping>>), !.root = Folder("/", <<"new">>),
                      !.collection.data = <<Folder("${PROJECT}", <<"none">>), Old(<<"Old", "x">>)>>,
                      !.collection.project = <<Old(<<"old">>)>>,
                      !.disk = FilesIn(<<"new", "x">>, Files(ClumpFiles)) @@ Folders({Folder("/", <<"new">>)})],
    shipped |-> [Base EXCEPT !.d = Description(Widths, <<Clumping>>), !.root = Folder("/", <<"new">>),
                        !.collection.data = <<Folder("", <<"none">>)>>,
                        !.disk = FilesIn(<<"home", "xgen", "collections", "furs">>, Files(ClumpFiles))],
    holes |-> Holes,
    parted |-> Parted,
    masked |-> Masked,
    guided |-> AtGuides,
    reach |-> [Base EXCEPT !.d.patches = <<Skin(Near(Guides2, <<40, 4>>))>>],
    single |-> [Base EXCEPT !.tool = "single", !.d = Description(Widths, <<Cut(Constant(32))>>)],
    crossed |-> Cached(Base, Crossed),
    named |-> [Cached(Base, Named) EXCEPT !.wires = <<1, 2>>],
    raised |-> Motion(Raised, <<Noise>>, Shutter),
    still |-> Motion(Still2, <<Noise>>, Two),
    stretched |-> Motion(Stretched, <<Clumping>>, Two),
    regrown |-> Cached(Motion(Still2, <<>>, Two), Moving),
    kept |-> Cached(Motion(Still2, <<>>, Two), Crossed),
    cold |-> [Cold EXCEPT !.probe = [face |-> 0, uv |-> <<1, 2>>]],
    packed |-> [Cold EXCEPT !.d = Description([length |-> Constant(32)] @@ Widths, <<>>),
                            !.d.patches = <<Skin(Bare(Guides3))>>],
    baked |-> [AssetOf(Skin(Guides2), Still2, Widths) EXCEPT !.requests = Frames],
    quads |-> Baked(Requests),
    lower |-> Lowered2
  ]

=============================================================================
