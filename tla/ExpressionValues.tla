-------------------------- MODULE ExpressionValues ---------------------------
(***************************************************************************)
(* The values of compiled scalar expressions: in doubles and in floats on the  *)
(* host (src/xgen_expression.cpp) and in a kernel                            *)
(* (src/luisa/xgen_expression.cpp).                                          *)
(*                                                                          *)
(* A program is [instructions, inputs, ramps, result, ...], an instruction      *)
(* [op, operands, immediate, auxiliary], a ramp a sequence of points [position, *)
(* value, interpolation].  Numbers have a fixed point, n standing for n /       *)
(* Whole.  Powers and logarithms are external.  A hash has the range of         *)
(* HashSize.                                                                  *)
(***************************************************************************)
EXTENDS Integers, Sequences, SequencesExt

CONSTANTS
  Whole,       \* one
  HashSize,    \* 2^32
  StringSeed   \* xgen_string_seed() of each name

ASSUME ExpressionAssumption == Whole \in Nat \ {0} /\ HashSize \in Nat \ {0}

Flag(condition) == IF condition THEN Whole ELSE 0
Product(a, b) == (a * b) \div Whole
Quotient(a, b) == (a * Whole) \div b
Clamped(n, lowest, highest) == IF n < lowest THEN lowest ELSE IF n > highest THEN highest ELSE n

-----------------------------------------------------------------------------
(* Hashes *)

\* xgen_seexpr_component()
HashComponent(n) == n % HashSize

HashStep(state, component) == (state * 5 + component + 3) % HashSize

\* xgen_seexpr_hash_prefix(), xgen_seexpr_hash_finish()
HashPrefix(numbers) == FoldLeft(LAMBDA s, n : HashStep(s, HashComponent(n)), 0, numbers)
HashFinish(state) == (((state * 7) % HashSize) * Whole) \div HashSize
SeExprHash(numbers) == HashFinish(HashPrefix(numbers))

\* xgen_face_seed()
FaceSeed(description, patch, face) == SeExprHash(<<description, StringSeed[patch], face>>)

-----------------------------------------------------------------------------
(* Sources and programs *)

Symbol(kind) == [kind |-> kind, text |-> "", number |-> 0]
Variable(name) == [kind |-> "variable", text |-> name, number |-> 0]

\* A source that cannot be compiled has no program.
NoProgram == [instructions |-> <<>>]

-----------------------------------------------------------------------------
(* Ramps *)

\* The value on the part from point i to the next, not yet held to [0, 1].
Piece(points, i, parameter) ==
  LET p == points[i]
      q == points[i + 1]
      width == q.position - p.position
      u == Quotient(parameter - p.position, width)
      rest == u - Whole
      hermite == Product(Product(Product(p.value, rest), rest), 2 * u + Whole)
                 + Product(Product(Product(q.value, u), u), 3 * Whole - 2 * u)
      Slope(a, b) == Product(b.value - a.value, Quotient(width, b.position - a.position))
      from == IF i = 1 THEN (q.value - p.value) \div 2 ELSE Slope(points[i - 1], q)
      to == IF i + 1 = Len(points) THEN (q.value - p.value) \div 2 ELSE Slope(p, points[i + 2])
  IN CASE p.interpolation = 0 -> p.value
       [] p.interpolation = 1 -> p.value + Product(u, q.value - p.value)
       [] p.interpolation = 2 -> hermite
       [] OTHER -> hermite + Product(Product(Product(from, u), rest), rest)
                           + Product(Product(Product(to, u), u), rest)

\* evaluate_ramp_points()
RampValue(points, parameter) ==
  LET upper == CHOOSE i \in 2 .. Len(points) :
                 parameter < points[i].position /\ \A j \in 2 .. i - 1 : parameter >= points[j].position
      value == IF parameter <= Head(points).position THEN Head(points).value
               ELSE IF parameter >= Last(points).position THEN Last(points).value
               ELSE Piece(points, upper - 1, parameter)
  IN Clamped(value, 0, Whole)

\* Mutation of KernelRamp: a part starts behind its first point.
KernelRampLate(points, parameter) ==
  LET Part(result, i) ==
        IF parameter > points[i].position THEN Clamped(Piece(points, i, parameter), 0, Whole) ELSE result
      parts == FoldLeft(Part, Clamped(Head(points).value, 0, Whole), [i \in 1 .. Len(points) - 1 |-> i])
  IN IF parameter >= Last(points).position THEN Clamped(Last(points).value, 0, Whole) ELSE parts

\* lower_ramp(): every part is computed, and a later one replaces an earlier one.
RampPart(points, parameter, result, i) ==
  IF parameter >= points[i].position THEN Clamped(Piece(points, i, parameter), 0, Whole) ELSE result

KernelRamp(points, parameter) ==
  LET parts == FoldLeft(LAMBDA result, i : RampPart(points, parameter, result, i),
                        Clamped(Head(points).value, 0, Whole), [i \in 1 .. Len(points) - 1 |-> i])
  IN IF parameter >= Last(points).position THEN Clamped(Last(points).value, 0, Whole) ELSE parts

-----------------------------------------------------------------------------
(* Values of instructions *)

\* External: a number for each pair of arguments.
Power(base, exponent) == (base * 3 + exponent * 5) % (2 * Whole)

\* Between equal edges the quotient is infinite, and the clamp makes it 0 or 1.
Smoothstep(x, low, high) ==
  LET t == IF high = low THEN Flag(x > low) ELSE Clamped(Quotient(x - low, high - low), 0, Whole)
  IN Product(Product(t, t), 3 * Whole - 2 * t)

Contrast(x, amount) ==
  LET edge == IF 2 * x < Whole THEN 2 * x ELSE 2 * Whole - 2 * x
      shaped == Power(Whole - amount, edge) \div 2
  IN IF 2 * x < Whole THEN shaped ELSE Whole - shaped

\* With an exponent of 0 the power is infinite: below 1 nothing is left of x.
Gamma(x, exponent) ==
  IF exponent = 0 THEN Flag(x \in {-Whole, Whole}) ELSE Power(x, Quotient(Whole, exponent))

\* Operations whose value is not a number, or infinite, for these operands.
NotANumber(op, a) ==
  \/ op = "/" /\ a[2] = 0
  \/ op = "fit" /\ a[3] = a[2]
  \/ op = "gamma" /\ a[2] = 0 /\ a[1] \notin -Whole .. Whole
  \/ op = "smoothstep" /\ a[3] = a[2] /\ a[1] = a[2]

\* The operations that the host and a kernel compute alike.
Operation(op, a) ==
  CASE op = "negate" -> -a[1]
    [] op = "not" -> Flag(a[1] = 0)
    [] op = "+" -> a[1] + a[2]
    [] op = "-" -> a[1] - a[2]
    [] op = "*" -> Product(a[1], a[2])
    [] op = "/" -> Quotient(a[1], a[2])
    [] op = "<" -> Flag(a[1] < a[2])
    [] op = "<=" -> Flag(a[1] <= a[2])
    [] op = ">" -> Flag(a[1] > a[2])
    [] op = ">=" -> Flag(a[1] >= a[2])
    [] op = "==" -> Flag(a[1] = a[2])
    [] op = "!=" -> Flag(a[1] # a[2])
    [] op = "&&" -> Flag(a[1] # 0 /\ a[2] # 0)
    [] op = "||" -> Flag(a[1] # 0 \/ a[2] # 0)
    [] op = "select" -> IF a[1] # 0 THEN a[2] ELSE a[3]
    [] op = "hash" -> SeExprHash(a)
    [] op = "min" -> IF a[2] < a[1] THEN a[2] ELSE a[1]
    [] op = "max" -> IF a[1] < a[2] THEN a[2] ELSE a[1]
    [] op = "clamp" -> Clamped(a[1], a[2], a[3])
    [] op = "fit" -> a[4] + Quotient(Product(a[1] - a[2], a[5] - a[4]), a[3] - a[2])
    [] op = "gamma" -> Gamma(a[1], a[2])
    [] op = "contrast" -> Contrast(a[1], a[2])
    [] op = "smoothstep" -> Smoothstep(a[1], a[2], a[3])

HasExplicitSeed(arguments) == Len(arguments) \in {1, 3}

Operands(instruction, values) ==
  [k \in DOMAIN instruction.operands |-> values[instruction.operands[k] + 1]]

\* Before the first instruction.
NoValues == [ok |-> TRUE, values |-> <<>>]

\* rand(low, high, seed) out of a random number.
InRange(random, a) == IF Len(a) >= 2 THEN Product(a[2] - a[1], random) + a[1] ELSE random

-----------------------------------------------------------------------------
(* evaluate_xgen_scalar_expression(): a context is [inputs, u, v, faceSeed, t, *)
(* stray, prefix]                                                            *)

ExactRandom(instruction, a, c) ==
  LET place == <<c.u, c.v, c.faceSeed, instruction.immediate>>
  IN SeExprHash(IF HasExplicitSeed(a) THEN Append(place, Last(a)) ELSE place)

ExactValue(program, instruction, a, c) ==
  CASE instruction.op = "constant" -> instruction.immediate
    [] instruction.op = "input" -> c.inputs[instruction.auxiliary + 1]
    [] instruction.op = "rand" -> InRange(ExactRandom(instruction, a, c), a)
    [] instruction.op = "stray" -> Flag(ExactRandom(instruction, <<>>, c) * 100 < c.stray)
    [] instruction.op = "ramp" -> RampValue(program.ramps[instruction.auxiliary + 1], c.t)
    [] OTHER -> Operation(instruction.op, a)

Invalid == <<>>

\* Every instruction is evaluated, and none may give what is not a number.
ExactStep(program, c, sum, instruction) ==
  LET a == Operands(instruction, sum.values)
  IN IF ~sum.ok \/ NotANumber(instruction.op, a) THEN [sum EXCEPT !.ok = FALSE]
     ELSE [sum EXCEPT !.values = Append(@, ExactValue(program, instruction, a, c))]

EvaluateExact(program, c) ==
  LET done == FoldLeft(LAMBDA sum, instruction : ExactStep(program, c, sum, instruction),
                       NoValues, program.instructions)
  IN IF Len(c.inputs) # Len(program.inputs) \/ ~done.ok THEN Invalid
     ELSE <<done.values[program.result + 1]>>

-----------------------------------------------------------------------------
(* evaluate_xgen_scalar_expression_float(), make_xgen_float_expression_program() *)

\* The immediate of a random instruction is kept as a component of a hash.
FloatProgram(program) ==
  LET Kept(e) == IF e.op \in {"rand", "stray"} THEN [e EXCEPT !.auxiliary = HashComponent(e.immediate)] ELSE e
  IN [program EXCEPT !.instructions = [i \in DOMAIN @ |-> Kept(@[i])]]

\* The prefix of a root is the state after its place; without one it is hashed here.
PrefixedRandom(instruction, a, c) ==
  LET site == HashStep(c.prefix[1], instruction.auxiliary)
  IN IF c.prefix = <<>> THEN ExactRandom(instruction, a, c)
     ELSE HashFinish(IF HasExplicitSeed(a) THEN HashStep(site, HashComponent(Last(a))) ELSE site)

FloatValue(program, instruction, a, c) ==
  CASE instruction.op = "constant" -> instruction.immediate
    [] instruction.op = "input" -> c.inputs[instruction.auxiliary + 1]
    [] instruction.op = "rand" -> InRange(PrefixedRandom(instruction, a, c), a)
    [] instruction.op = "stray" -> Flag(PrefixedRandom(instruction, <<>>, c) * 100 < c.stray)
    [] instruction.op = "ramp" -> RampValue(program.ramps[instruction.auxiliary + 1], c.t)
    [] OTHER -> Operation(instruction.op, a)

FloatStep(program, c, sum, instruction) ==
  LET a == Operands(instruction, sum.values)
  IN IF ~sum.ok \/ NotANumber(instruction.op, a) THEN [sum EXCEPT !.ok = FALSE]
     ELSE [sum EXCEPT !.values = Append(@, FloatValue(program, instruction, a, c))]

EvaluateFloat(program, c) ==
  LET done == FoldLeft(LAMBDA sum, instruction : FloatStep(program, c, sum, instruction),
                       NoValues, program.instructions)
  IN IF Len(c.inputs) # Len(program.inputs) \/ ~done.ok THEN Invalid
     ELSE <<done.values[program.result + 1]>>

-----------------------------------------------------------------------------
(* lower_expression(): nothing is checked *)

\* Infinities and the like are numbers that no other value equals.
Infinite == 10 ^ 6

KernelValue(program, instruction, a, c) ==
  CASE instruction.op = "constant" -> instruction.immediate
    [] instruction.op = "input" -> c.inputs[instruction.auxiliary + 1]
    [] instruction.op = "rand" -> InRange(PrefixedRandom(instruction, a, c), a)
    [] instruction.op = "stray" -> Flag(PrefixedRandom(instruction, <<>>, c) * 100 < c.stray)
    [] instruction.op = "ramp" -> KernelRamp(program.ramps[instruction.auxiliary + 1], c.t)
    [] OTHER -> IF NotANumber(instruction.op, a) THEN Infinite ELSE Operation(instruction.op, a)

KernelStep(program, c, values, instruction) ==
  Append(values, KernelValue(program, instruction, Operands(instruction, values), c))

LowerExpression(program, c) ==
  LET done == FoldLeft(LAMBDA values, instruction : KernelStep(program, c, values, instruction),
                       <<>>, program.instructions)
  IN done[program.result + 1]

=============================================================================
