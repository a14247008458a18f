---------------------------- MODULE ClassicInputs ----------------------------
(***************************************************************************)
(* What the strands of a plan read: a row of numbers for each root, primvars  *)
(* for the renderer (src/xgen_classic_ptex.cpp), and the guides of clumps      *)
(* (src/xgen_classic_clump.cpp).                                             *)
(*                                                                          *)
(* A renderer object has `customs', a sequence of [kind, name, array, source];  *)
(* a clump module has `files', its paths pointDir and mapDir.                 *)
(***************************************************************************)
EXTENDS RuntimeKernels

NoRows == [fits |-> FALSE]
NoClump == [fits |-> FALSE]

RootFace(root) == IF root.face = InvalidIndex THEN root.triangle ELSE root.face

\* A place of the surface in the fixed point of the strands.
Fixed(place) ==
  LET Coordinate(i) == (place.at[i] * (Whole \div Unit)) \div place.over
  IN <<Coordinate(1), Coordinate(2), Coordinate(3)>>
FixedPoint(position) == Fixed(Place(position))

-----------------------------------------------------------------------------
(* build_xgen_classic_runtime_input_data() *)

InputMaps(in, directory, patch, disk) ==
  [i \in DOMAIN in.maps |-> OpenFile(in.maps[i], directory, OnlyPart(patch), "ptx", disk)]

MapsReach(maps, roots) ==
  \A m \in maps : \A r \in Range(roots) : RootFace(r) < Len(m.faces)

\* The context of an expression at a root, before the curve is there.
RootContext(id, name, roots, s, row) ==
  LET root == roots.roots[s]
  IN [id |-> roots.ids[s], cLength |-> 0, cWidth |-> 0, row |-> row, u |-> (root.uv[1] * Whole) \div Grid,
      v |-> (root.uv[2] * Whole) \div Grid, faceSeed |-> FaceSeed(id, name, RootFace(root)), t |-> 0,
      prefix |-> <<roots.prefixes[s]>>, stray |-> 0]

CustomValue(in, id, name, roots, s, i) ==
  LET program == in.customs[i].program
  IN EvaluateFloat(program, ExpressionContext(in, program, RootContext(id, name, roots, s, <<>>)))

\* Mutation of InputRow: custom values before those of maps.
InputRowShuffled(in, id, name, maps, roots, s) ==
  LET root == roots.roots[s]
  IN [i \in DOMAIN in.customs |-> CustomValue(in, id, name, roots, s, i)[1]]
     \o [i \in DOMAIN maps |-> Shade(PointSample(maps[i], RootFace(root), root.uv, 0))]
     \o [i \in DOMAIN in.noises |->
           ClassicNoise(Scaled(FixedPoint(roots.references[s]), in.noises[i])) + Whole \div 2]

InputRow(in, id, name, maps, roots, s) ==
  LET root == roots.roots[s]
      CellAt(frequency) == Scaled(FixedPoint(roots.references[s]), frequency)
  IN [i \in DOMAIN maps |-> Shade(PointSample(maps[i], RootFace(root), root.uv, 0))]
     \o [i \in DOMAIN in.customs |-> CustomValue(in, id, name, roots, s, i)[1]]
     \o [i \in DOMAIN in.noises |-> ClassicNoise(CellAt(in.noises[i])) + Whole \div 2]

InputRows(in, id, name, directory, patch, roots, disk) ==
  LET maps == InputMaps(in, directory, patch, disk)
  IN IF Given(in) = 0 THEN [fits |-> TRUE, rows |-> [s \in DOMAIN roots.roots |-> <<>>]]
     ELSE IF (\E m \in Range(maps) : ~IsMap(m)) \/ ~MapsReach(Range(maps), roots.roots) THEN NoRows
     ELSE IF \E s \in DOMAIN roots.roots, i \in DOMAIN in.customs :
               CustomValue(in, id, name, roots, s, i) = Invalid THEN NoRows
     ELSE [fits |-> TRUE, rows |-> [s \in DOMAIN roots.roots |-> InputRow(in, id, name, maps, roots, s)]]

-----------------------------------------------------------------------------
(* Primvars: one number or one color for each root *)

\* collect_custom_attributes()
Customs(d) ==
  FlattenSeq([o \in DOMAIN ObjectsOf(d, "RendermanRenderer") |-> ObjectsOf(d, "RendermanRenderer")[o].customs])

CustomsOf(d, kind) == SelectSeq(Customs(d), LAMBDA c : c.kind = kind)

\* validate_xgen_classic_uniform_primvar_declarations(): a name is one of either kind.
DeclarationsFit(d) ==
  LET declared == SelectSeq(Customs(d), LAMBDA c : c.kind # "_")
  IN /\ \A c \in Range(declared) : c.kind \in {"float", "color"} /\ ~c.array
     /\ IsInjective([i \in DOMAIN declared |-> declared[i].name])

\* build_xgen_classic_uniform_float_primvars(): the expressions share their inputs.
FloatPrimvars(d, palette, directory, patch, roots, disk) ==
  LET customs == CustomsOf(d, "float")
      Add(sum, custom) ==
        LET done == CompileBound(sum.in, palette, "RendermanRenderer", custom.name, custom.source)
            fits == /\ done.in.ok
                    /\ Range(done.expression[1].inputs) \subseteq BoundInputs(done.in) \ {"cLength", "cWidth"}
        IN IF ~sum.fits THEN sum
           ELSE IF ~fits THEN [sum EXCEPT !.fits = FALSE]
           ELSE [sum EXCEPT !.in = done.in, !.programs = Append(@, done.expression[1])]
      all == FoldLeft(Add, [fits |-> TRUE, in |-> NoInputs, programs |-> <<>>], customs)
      inputs == InputRows(all.in, d.id, d.name, directory, patch, roots, disk)
      ValueAt(p, s) == EvaluateRuntime(all.in, all.programs[p], RootContext(d.id, patch, roots, s, inputs.rows[s]))
  IN IF ~DeclarationsFit(d) \/ ~all.fits THEN NoRows
     ELSE IF customs = <<>> \/ roots.roots = <<>> THEN [fits |-> TRUE, values |-> <<>>]
     ELSE IF ~inputs.fits THEN NoRows
     ELSE IF \E p \in DOMAIN customs, s \in DOMAIN roots.roots : ValueAt(p, s) = Invalid THEN NoRows
     ELSE [fits |-> TRUE, values |-> [p \in DOMAIN customs |-> [s \in DOMAIN roots.roots |-> ValueAt(p, s)[1]]]]

\* direct_map_path(): a source that is a map, and perhaps a variable that is set
\* to it and returned.  What only begins so is refused.
NoMapPath == <<"refused">>

DirectMap(source) ==
  LET tokens == FlattenSeq([i \in DOMAIN source |-> source[i].tokens])
      assigns == Is(tokens, 1, "variable") /\ Is(tokens, 2, "=")
      call == IF assigns THEN 3 ELSE 1
      Past(i) == IF Is(tokens, i, ";") THEN i + 1 ELSE i
      returned == Past(call + 1)
      end == IF assigns THEN Past(returned + 1) ELSE returned
  IN IF ~Is(tokens, call, "map") THEN <<>>
     ELSE IF assigns /\ (returned > Len(tokens) \/ tokens[returned] # tokens[1]) THEN NoMapPath
     ELSE IF end # Len(tokens) + 1 THEN NoMapPath
     ELSE <<"map", tokens[call].path>>

\* build_xgen_classic_uniform_color_primvars(): a map with one channel is grey.
ColorOf(map, root) ==
  LET Channel(c) == IF c <= map.channels THEN c - 1 ELSE 0
  IN [c \in 1 .. 3 |-> Shade(PointSample(map, RootFace(root), root.uv, Channel(c)))]

ColorPrimvars(d, evaluates, directory, patch, roots, disk) ==
  LET customs == CustomsOf(d, "color")
      paths == [i \in DOMAIN customs |-> DirectMap(customs[i].source)]
      maps == [i \in DOMAIN customs |->
                 IF paths[i] = <<>> THEN NoFile ELSE OpenFile(paths[i][2], directory, OnlyPart(patch), "ptx", disk)]
      opened == {maps[i] : i \in {j \in DOMAIN customs : paths[j] # <<>>}}
  IN IF ~DeclarationsFit(d) \/ NoMapPath \in Range(paths) \/ (<<>> \in Range(paths) /\ ~evaluates) THEN NoRows
     ELSE IF NoFile \in opened THEN NoRows
     ELSE IF customs = <<>> \/ roots.roots = <<>> THEN [fits |-> TRUE, values |-> <<>>]
     ELSE IF (\E m \in opened : ~IsMap(m)) \/ ~MapsReach(opened, roots.roots) THEN NoRows
     ELSE [fits |-> TRUE,
           values |-> [i \in DOMAIN customs |->
                         IF paths[i] = <<>> THEN <<"evaluated", customs[i].name>>
                         ELSE [s \in DOMAIN roots.roots |-> ColorOf(maps[i], roots.roots[s])]]]

-----------------------------------------------------------------------------
(* build_xgen_classic_clump_runtime_data(): the points of a module, of which    *)
(* those that no guide of the surface reaches are left out, then those of other *)
(* regions, then those whose own curve is dropped.                            *)

\* find_module(), module_file()
ClumpFile(d, name, attribute, directory, extension, disk) ==
  LET modules == SelectSeq(d.objects, LAMBDA o : o.type = "ClumpingFXModule" /\ o.name = name)
      value == modules[1].files[attribute]
      Named(part) == IF part[2] = "${FXMODULE}" THEN OnlyPart(name) ELSE part
  IN IF Len(modules) # 1 \/ ~SafeComponent(OnlyPart(name)) THEN NoFile
     ELSE OpenFile([value EXCEPT !.parts = [i \in DOMAIN @ |-> Named(@[i])]], directory,
                   OnlyPart(d.patches[1].name), extension, disk)

LocationBlock(file) == Min({b \in DOMAIN file.blocks : file.blocks[b].name = "Location"})

PointsFit(file) ==
  /\ file.kind = "xpd" /\ XpdFits(file)
  /\ file.type = "point" /\ file.space = "world" /\ file.cvs = 1
  /\ \E b \in Range(file.blocks) : b.name = "Location"

Locations(file) ==
  LET Of(f) == [p \in 1 .. (IF file.faces[f].id < 0 THEN 0 ELSE file.faces[f].primitives) |->
                  LET record == XpdRecord(file, f, LocationBlock(file), p - 1)
                  IN [id |-> record[1], uv |-> SubSeq(record, 2, 3), position |-> SubSeq(record, 4, 6),
                      face |-> file.faces[f].id]]
  IN FlattenSeq([f \in DOMAIN file.faces |-> Of(f)])

Reached(in, patch, point) ==
  LET at == SurfaceAt(in, patch, point.face, point.uv, TRUE)
  IN \E g \in Range(in.guides) : PublicGuideWeight(g, at.position, at.normal) > 0

\* Mutation of KeptPlaces: what is left out keeps its place.
KeptPlacesHoled(sources, kept) == [i \in DOMAIN sources |-> IF i <= Len(kept) THEN i ELSE 0]

\* The place of each of the sources among those that are kept, which are known by
\* their face and coordinates; 0 for one that is left out.
KeptPlaces(sources, kept) ==
  LET Same(a, b) == a.face = b.face /\ a.uv = b.uv
      Next(sum, s) == IF Len(kept) > sum.at /\ Same(s, kept[sum.at + 1])
                      THEN [at |-> sum.at + 1, places |-> Append(sum.places, sum.at + 1)]
                      ELSE [sum EXCEPT !.places = Append(@, 0)]
  IN FoldLeft(Next, [at |-> 0, places |-> <<>>], sources).places

After(places, next) == [i \in DOMAIN places |-> IF places[i] = 0 THEN 0 ELSE next[places[i]]]

\* The plan before the module, of which only clumps may be there.
PlanBefore(plan, m) ==
  LET clumps == {e \in DOMAIN plan.effects : plan.effects[e].type = "clump"}
      own == CHOOSE e \in clumps : Cardinality({k \in clumps : k <= e}) = m
  IN [plan EXCEPT !.primitive.taper = <<>>, !.primitive.taperStart = <<>>, !.primitive.widthRamp = <<>>,
                  !.effects = SubSeq(@, 1, own - 1)]

\* The strands of roots, with the guides of each clump module before.
StrandsOf(plan, roots, curves, rows, upstream, radii) ==
  Evaluated([s \in DOMAIN roots.roots |->
     [points |-> Evaluated([k \in DOMAIN curves[s] |-> Fixed(curves[s][k])]), radii |-> radii,
      root |-> [roots.roots[s] EXCEPT !.position = FixedPoint(@)], id |-> roots.ids[s],
      prefix |-> <<roots.prefixes[s]>>, row |-> rows[s], tangent |-> roots.tangents[s],
      domain |-> FixedPoint(roots.references[s]),
      clumps |-> [m \in DOMAIN upstream |->
                    IF upstream[m].of[s] = 0 THEN <<>> ELSE upstream[m].guides[upstream[m].of[s]]]]])

\* The guides of a module; a strand asks the map which is its own.
BindStrands(module, roots) ==
  LET Id(r) == MapId(module.map, r.face, r.uv)
  IN IF ~module.fits THEN NoClump
     ELSE IF module.map.channels < 3 \/ \E r \in Range(roots) : r.face >= Len(module.map.faces) THEN NoClump
     ELSE IF \E r \in Range(roots) : Id(r) > Len(module.places) THEN NoClump
     ELSE [fits |-> TRUE, guides |-> module.guides,
           of |-> [s \in DOMAIN roots |-> IF Id(roots[s]) = 0 THEN 0 ELSE module.places[Id(roots[s])]]]

\* build_xgen_classic_clump_runtime_data_cached(), the guides of the next module,
\* and where each point of its file is among them.  `upstream' has the modules
\* before; their maps say which of their guides the points of this one follow.
ClumpGuides(d, in, directory, plan, cvs, disk, upstream) ==
  LET m == Len(upstream) + 1
      patch == d.patches[1].name
      name == ModulesOf(plan, "clump")[m].name
      file == ClumpFile(d, name, "pointDir", directory, "xuv", disk)
      map == ClumpFile(d, name, "mapDir", directory, "ptx", disk)
      points == Locations(file)
      valid == SelectSeq(points, LAMBDA p : Reached(in, patch, p))
      own == ExplicitRootPlan(d, in, directory, patch, valid, disk)
      before == PlanBefore(plan, m)
      clumps == [k \in DOMAIN upstream |-> BindStrands(upstream[k], own.roots)]
      inputs == InputRows(plan.in, plan.id, plan.name, directory, patch, own, disk)
      strands == StrandsOf(before, own, BaseCurves(in, own, cvs, 0, 1, TRUE), inputs.rows, clumps,
                           [k \in 1 .. cvs |-> 0])
      applied == ApplyRuntime(before, strands, 1, TRUE)
      live == SelectSeq([s \in DOMAIN strands |-> s], LAMBDA s : applied[s].keep)
      Guide(s) == [axis |-> Evaluated([k \in 1 .. cvs |-> Plus(applied[s].points[k], strands[s].root.position)]),
                   local |-> applied[s].points, normal |-> own.roots[s].normal, tangent |-> own.tangents[s],
                   domain |-> FixedPoint(own.references[s]), uv |-> own.roots[s].uv, face |-> own.roots[s].face,
                   prefix |-> own.prefixes[s], row |-> inputs.rows[s]]
      runtime == [s \in DOMAIN own.roots |-> IF applied[s].keep THEN Cardinality({k \in Range(live) : k <= s}) ELSE 0]
      places == After(After(KeptPlaces(points, valid), KeptPlaces(valid, own.roots)), runtime)
  IN IF cvs < 3 \/ Len(d.patches) # 1 \/ ~PointsFit(file) \/ file.blocks[LocationBlock(file)].floats # 6 THEN NoClump
     ELSE IF \E p \in Range(points) : p.id < 0 \/ ~EvaluationFits(in, patch, p.face, p.uv) THEN NoClump
     ELSE IF valid = <<>> \/ ~own.fits \/ own.roots = <<>> THEN NoClump
     ELSE IF \E e \in Range(before.effects) : e.type # "clump" THEN NoClump
     ELSE IF (\E c \in Range(clumps) : ~c.fits) \/ ~inputs.fits THEN NoClump
     ELSE IF ~RuntimeRequestFits(before, strands, cvs, 1) \/ \E s \in DOMAIN strands : ~applied[s].ok THEN NoClump
     ELSE IF ~IsMap(map) THEN NoClump
     ELSE [fits |-> TRUE, map |-> map, places |-> Evaluated(places),
           guides |-> Evaluated([k \in DOMAIN live |-> Guide(live[k])])]

\* build_xgen_classic_clump_runtime_data_parallel(): one module after another.
AllClumps(d, in, directory, plan, cvs, roots, disk) ==
  LET Add(sum, m) == Append(sum, ClumpGuides(d, in, directory, plan, cvs, disk, sum))
      made == FoldLeft(Add, <<>>, [m \in DOMAIN ModulesOf(plan, "clump") |-> m])
  IN [m \in DOMAIN made |-> BindStrands(made[m], roots)]

=============================================================================
