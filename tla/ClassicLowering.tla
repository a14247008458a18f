--------------------------- MODULE ClassicLowering ---------------------------
(***************************************************************************)
(* A description becomes a plan for its strands                              *)
(* (src/xgen_classic_runtime.cpp, compile_xgen_classic_float_runtime_plan).  *)
(*                                                                          *)
(* A description is that of ClassicRoots, with the stray percentage and        *)
(* objects [type, name, active, sources, numbers]: `sources' are its           *)
(* expressions by their names, `numbers' its other attributes; a negative one    *)
(* cannot be read.  The palette is a sequence of [name, source].              *)
(***************************************************************************)
EXTENDS ClassicRoots

CONSTANT InputLimit   \* 61, the external inputs of a plan

NoRuntimePlan == [fits |-> FALSE]

NumberOf(object, name) == IF name \in DOMAIN object.numbers THEN object.numbers[name] ELSE 0
SourceOf(object, name) == IF name \in DOMAIN object.sources THEN object.sources[name] ELSE <<>>

-----------------------------------------------------------------------------
(* What an expression reads beside the strand: maps, functions of the palette  *)
(* and noise of the rest position.  The lists grow while sources are rewritten. *)

NoInputs == [ok |-> TRUE, maps |-> <<>>, customs |-> <<>>, noises |-> <<>>]

Given(in) == Len(in.maps) + Len(in.customs) + Len(in.noises)

CustomInput(i) == "__nxg_custom_" \o ToString(i)
NoiseInput(i) == "__nxg_pref_noise_" \o ToString(i)

\* Every map() call is an input of its own.
MapStep(sum, token) ==
  IF ~sum.in.ok \/ token.kind # "map" THEN [sum EXCEPT !.tokens = Append(@, token)]
  ELSE IF Len(sum.in.maps) >= InputLimit THEN [sum EXCEPT !.in.ok = FALSE]
  ELSE [in |-> [sum.in EXCEPT !.maps = Append(@, token.path)],
        tokens |-> Append(sum.tokens, Variable(MapInput(Len(sum.in.maps))))]

Is(tokens, i, kind) == i <= Len(tokens) /\ tokens[i].kind = kind

\* A number with a sign at i: <<value, tokens>>, or <<>>.
LiteralAt(tokens, i) ==
  LET signed == Is(tokens, i, "+") \/ Is(tokens, i, "-")
      at == IF signed THEN i + 1 ELSE i
  IN IF ~Is(tokens, at, "number") THEN <<>>
     ELSE <<IF Is(tokens, i, "-") THEN -tokens[at].number ELSE tokens[at].number, at - i + 1>>

\* constant_local_assignment(): the number that the last assignment to the name
\* before the call starts with.
ConstantLocal(before, name) ==
  LET set == {i \in DOMAIN before : /\ before[i] = Variable(name) /\ Is(before, i + 1, "=")
                                    /\ LiteralAt(before, i + 2) # <<>>}
  IN IF set = {} THEN <<>> ELSE <<LiteralAt(before, Max(set) + 2)[1]>>

\* noise($Prefg * frequency) at i: <<frequency, tokens>>, or <<>>.
NoiseCall(before, tokens, i) ==
  LET literal == LiteralAt(tokens, i + 4)
      local == IF Is(tokens, i + 4, "variable")
               THEN ConstantLocal(before \o SubSeq(tokens, 1, i - 1), tokens[i + 4].text) ELSE <<>>
      width == IF literal # <<>> THEN literal[2] ELSE 1
      frequency == IF literal # <<>> THEN <<literal[1]>> ELSE local
  IN IF /\ i + 4 <= Len(tokens) /\ tokens[i].kind = "name" /\ tokens[i].text = "noise"
        /\ Is(tokens, i + 1, "(") /\ tokens[i + 2] = Variable("Prefg") /\ Is(tokens, i + 3, "*")
        /\ frequency # <<>> /\ Is(tokens, i + 4 + width, ")")
     THEN <<frequency[1], 5 + width>> ELSE <<>>

IndexIn(sequence, value) ==
  IF value \in Range(sequence) THEN (CHOOSE i \in DOMAIN sequence : sequence[i] = value) - 1
  ELSE Len(sequence)

\* A call that starts at token i becomes an input; those of one frequency share it.
BindNoise(part, i) ==
  LET call == NoiseCall(part.before, part.tokens, i)
      known == call[1] \in Range(part.in.noises)
      input == NoiseInput(IndexIn(part.in.noises, call[1]))
  IN IF ~part.in.ok \/ i > Len(part.tokens) \/ call = <<>> THEN part
     ELSE IF ~known /\ Given(part.in) >= InputLimit THEN [part EXCEPT !.in.ok = FALSE]
     ELSE [part EXCEPT !.in.noises = IF known THEN @ ELSE Append(@, call[1]),
                       !.tokens = SubSeq(@, 1, i - 1) \o <<Variable(input)>> \o SubSeq(@, i + call[2], Len(@))]

BindNoises(sum, tokens) ==
  LET done == FoldLeft(BindNoise, [in |-> sum.in, before |-> sum.before, tokens |-> tokens], [i \in DOMAIN tokens |-> i])
  IN [in |-> done.in, before |-> sum.before \o done.tokens, lines |-> Append(sum.lines, done.tokens)]

OptionsFor(attribute, object) == [MaskOptions EXCEPT !.name = attribute, !.object = object]

\* A function of the palette is compiled once; it may read the strand's number.
AddCustom(in, custom) ==
  LET program == Compiled(custom.source, OptionsFor(custom.name, "Palette"))
  IN IF custom.name \in {c.name : c \in Range(in.customs)} THEN in
     ELSE IF Given(in) >= InputLimit \/ program = NoProgram THEN [in EXCEPT !.ok = FALSE]
     ELSE IF Range(program.inputs) \ {"id"} # {} THEN [in EXCEPT !.ok = FALSE]
     ELSE [in EXCEPT !.customs = Append(@, [name |-> custom.name, program |-> FloatProgram(program)])]

BindCustom(in, custom, tokens) ==
  LET Calls(part, i) == Is(part.tokens, i, "name") /\ part.tokens[i].text = custom.name /\ Is(part.tokens, i + 1, "(")
      Bind(part, i) ==
        LET with == AddCustom(part.in, custom)
            index == IndexIn([c \in DOMAIN with.customs |-> with.customs[c].name], custom.name)
        IN IF ~part.in.ok \/ ~Calls(part, i) THEN part
           ELSE IF ~Is(part.tokens, i + 2, ")") THEN [part EXCEPT !.in.ok = FALSE]
           ELSE [in |-> with, tokens |-> SubSeq(part.tokens, 1, i - 1) \o <<Variable(CustomInput(index))>>
                                         \o SubSeq(part.tokens, i + 3, Len(part.tokens))]
  IN FoldLeft(Bind, [in |-> in, tokens |-> tokens], [i \in DOMAIN tokens |-> i])

\* compile_expression(): the maps of the whole source, then its noises, then the
\* calls of one function of the palette after another.
CompileBound(in, palette, type, attribute, source) ==
  LET Maps(sum, line) ==
        LET done == FoldLeft(MapStep, [in |-> sum.in, tokens |-> <<>>], line.tokens)
        IN [in |-> done.in, lines |-> Append(sum.lines, done.tokens)]
      mapped == FoldLeft(Maps, [in |-> in, lines |-> <<>>], source)
      noisy == FoldLeft(BindNoises, [in |-> mapped.in, before |-> <<>>, lines |-> <<>>], mapped.lines)
      Custom(sum, custom) ==
        LET Line(part, tokens) ==
              LET done == BindCustom(part.in, custom, tokens)
              IN [in |-> done.in, lines |-> Append(part.lines, done.tokens)]
        IN FoldLeft(Line, [in |-> sum.in, lines |-> <<>>], sum.lines)
      bound == FoldLeft(Custom, [in |-> noisy.in, lines |-> noisy.lines], palette)
      program == Compiled([i \in DOMAIN bound.lines |-> [tokens |-> bound.lines[i], comment |-> FALSE]],
                          OptionsFor(attribute, type))
  IN IF ~bound.in.ok \/ program = NoProgram THEN [in |-> [bound.in EXCEPT !.ok = FALSE], expression |-> <<>>]
     ELSE [in |-> bound.in, expression |-> <<FloatProgram(program)>>]

\* supported_runtime_input(), validate_inputs()
BoundInputs(in) ==
  {"id", "cLength", "cWidth"}
    \cup {MapInput(i - 1) : i \in DOMAIN in.maps}
    \cup {CustomInput(i - 1) : i \in DOMAIN in.customs}
    \cup {NoiseInput(i - 1) : i \in DOMAIN in.noises}

InputsFit(in, program) == Range(program.inputs) \subseteq BoundInputs(in)

UsesStray(program) == \E e \in Range(program.instructions) : e.op = "stray"

-----------------------------------------------------------------------------
(* The plan so far: [fits, in, primitive, effects, fallbacks, stray]          *)

\* compile_optional(): the inputs of a source that fails are taken back.
CompileOptional(plan, palette, object, attribute) ==
  LET source == SourceOf(object, attribute)
      done == CompileBound(plan.in, palette, object.type, attribute, source)
  IN IF ~plan.fits \/ source = <<>> THEN plan
     ELSE IF ~done.in.ok THEN [plan EXCEPT !.fallbacks = @ + 1]
     ELSE [plan EXCEPT !.in = done.in, !.primitive[attribute] = done.expression]

\* validate_optional_inputs(): what reads anything else is left out.
ValidateOptional(plan, attribute) ==
  LET e == plan.primitive[attribute]
  IN IF ~plan.fits \/ e = <<>> \/ InputsFit(plan.in, e[1]) THEN plan
     ELSE [plan EXCEPT !.primitive[attribute] = <<>>, !.fallbacks = @ + 1]

PrimitiveAttributes == <<"length", "width", "taper", "taperStart", "widthRamp">>

Fallback(plan) == [plan EXCEPT !.fallbacks = @ + 1]

\* The expressions of a module in their order, all of which it needs.  One that
\* fails ends the module, and what was bound so far stays bound.
CompileModule(plan, palette, object, attributes, extra) ==
  LET Next(sum, attribute) ==
        LET source == SourceOf(object, attribute)
            done == CompileBound(sum.in, palette, object.type, attribute, source)
        IN IF ~sum.in.ok THEN sum
           ELSE IF source = <<>> THEN [sum EXCEPT !.in.ok = FALSE]
           ELSE [in |-> done.in, module |-> (attribute :> done.expression) @@ sum.module]
      done == FoldLeft(Next, [in |-> plan.in, module |-> extra], attributes)
      known == [done.in EXCEPT !.ok = TRUE]
  IN IF ~done.in.ok THEN [Fallback(plan) EXCEPT !.in = known]
     ELSE IF \E a \in Range(attributes) : ~InputsFit(done.in, done.module[a][1])
     THEN [Fallback(plan) EXCEPT !.in = known]
     ELSE [plan EXCEPT !.in = known, !.effects = Append(@, done.module)]

NoiseAttributes == <<"mask", "magnitude", "magnitudeScale", "frequency", "correlation", "preserveLength">>
ClumpAttributes ==
  <<"mask", "clump", "clumpScale", "noise", "noiseScale", "noiseFrequency", "noiseCorrelation">>

\* Controls of a clump that must not be used.
UnusedControls == {"clumpVariance", "cut", "copy", "copyVariance", "curl", "offset", "flatness", "frame",
                   "clumpVolumize"}

\* An FX module in the order of the description; a number that cannot be read ends
\* the lowering.
AddModule(plan, palette, object) ==
  LET name == object.name
      maps == NumberOf(object, "useControlMaps")
  IN CASE ~plan.fits \/ ~object.active -> plan
       [] object.type = "NoiseFXModule" ->
            IF NumberOf(object, "mode") < 0 THEN NoRuntimePlan
            ELSE IF NumberOf(object, "mode") # 0 THEN Fallback(plan)
            ELSE CompileModule(plan, palette, object, NoiseAttributes, [type |-> "noise"])
       [] object.type = "ClumpingFXModule" ->
            IF maps \notin 0 .. 1 THEN NoRuntimePlan
            ELSE IF \E u \in UnusedControls : NumberOf(object, u) # 0 THEN Fallback(plan)
            ELSE CompileModule(plan, palette, object, ClumpAttributes,
                               [type |-> "clump", name |-> name, control |-> maps = 1])
       [] object.type = "CutFXModule" ->
            IF SourceOf(object, "amount") = <<>> THEN Fallback(plan)
            ELSE IF NumberOf(object, "rebuildType") < 0 THEN NoRuntimePlan
            ELSE IF NumberOf(object, "rebuildType") # 1 THEN Fallback(plan)
            ELSE CompileModule(plan, palette, object, <<"amount">>, [type |-> "cut"])
       [] object.type \in {"RandomGenerator", "GuideGenerator", "SplinePrimitive", "RendermanRenderer"} -> plan
       [] OTHER -> Fallback(plan)

Expressions(plan) ==
  UNION {Range(plan.primitive[a]) : a \in Range(PrimitiveAttributes)} \cup
  UNION {UNION {Range(m[a]) : a \in DOMAIN m \ {"type", "name", "control"}} : m \in Range(plan.effects)}

\* The share of stray strands is compiled when an expression asks for it; it cannot
\* ask for itself.
AddStray(plan, palette, d) ==
  LET done == CompileBound(plan.in, palette, "Description", "strayPercentage", d.stray)
      fits == done.in.ok /\ ~UsesStray(done.expression[1]) /\ InputsFit(done.in, done.expression[1])
  IN IF ~plan.fits \/ d.stray = <<>> \/ \A e \in Expressions(plan) : ~UsesStray(e) THEN plan
     ELSE IF fits THEN [plan EXCEPT !.in = done.in, !.stray = done.expression]
     ELSE Fallback(plan)

\* compile_xgen_classic_float_runtime_plan()
CompileRuntimePlan(d, palette) ==
  LET primitives == ObjectsOf(d, "SplinePrimitive")
      start == [fits |-> TRUE, in |-> NoInputs, primitive |-> [a \in Range(PrimitiveAttributes) |-> <<>>],
                effects |-> <<>>, fallbacks |-> 0, stray |-> <<>>, id |-> d.id, name |-> d.name]
      cached == IF NumberOf(primitives[1], "useCache") = 1 /\ NumberOf(primitives[1], "cacheFileName") = 0
                THEN Fallback(start) ELSE start
      compiled == FoldLeft(LAMBDA p, a : CompileOptional(p, palette, primitives[1], a), cached, PrimitiveAttributes)
      checked == FoldLeft(ValidateOptional, compiled, PrimitiveAttributes)
      modules == FoldLeft(LAMBDA p, o : AddModule(p, palette, o), checked, d.objects)
  IN IF Len(primitives) # 1 \/ NumberOf(primitives[1], "fxCVCount") < 0 THEN NoRuntimePlan
     ELSE AddStray(modules, palette, d)

-----------------------------------------------------------------------------
(* input_value(), evaluate_runtime_expression(): a context is [id, cLength,     *)
(* cWidth, row, u, v, faceSeed, t, prefix, stray], where the row has the maps,    *)
(* then the functions of the palette, then the noises.                        *)

RowIndex(in, input) ==
  LET names == [i \in DOMAIN in.maps |-> MapInput(i - 1)]
               \o [i \in DOMAIN in.customs |-> CustomInput(i - 1)]
               \o [i \in DOMAIN in.noises |-> NoiseInput(i - 1)]
  IN IndexIn(names, input) + 1

InputValue(in, input, c) ==
  CASE input = "id" -> c.id * Whole
    [] input = "cLength" -> c.cLength
    [] input = "cWidth" -> c.cWidth
    [] OTHER -> c.row[RowIndex(in, input)]

ExpressionContext(in, program, c) ==
  [inputs |-> [i \in DOMAIN program.inputs |-> InputValue(in, program.inputs[i], c)],
   u |-> c.u, v |-> c.v, faceSeed |-> c.faceSeed, t |-> c.t, stray |-> c.stray, prefix |-> c.prefix]

EvaluateRuntime(in, program, c) == EvaluateFloat(program, ExpressionContext(in, program, c))

=============================================================================
