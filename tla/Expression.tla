----------------------------- MODULE Expression ------------------------------
(***************************************************************************)
(* Scalar expressions of a description: their compiler                        *)
(* (src/xgen_expression.cpp).  A source is a sequence of lines [tokens,        *)
(* comment]; a token is [kind, text, number].                                *)
(***************************************************************************)
EXTENDS ExpressionValues, FiniteSets, TLC

ExpressionSeed(name, object) == StringSeed[name] + StringSeed[object]

-----------------------------------------------------------------------------
(* normalize_source(): lines become one, with a semicolon between statements *)

Continuation ==
  {"+", "-", "*", "/", "<", ">", "<=", ">=", "=", "==", "!", "!=", "&&", "||", "?", ":", ",", "(", "->"}

\* The first thing that a later line has: a comment ends with a semicolon.
NextKind(lines, i) ==
  LET later == {j \in i + 1 .. Len(lines) : lines[j].tokens # <<>> \/ lines[j].comment}
      j == CHOOSE k \in later : \A l \in later : k <= l
  IN IF later = {} THEN "end" ELSE IF lines[j].tokens = <<>> THEN ";" ELSE lines[j].tokens[1].kind

NormalizeSource(lines) ==
  LET AddLine(sum, i) ==
        LET here == sum \o lines[i].tokens
            joins == ~lines[i].comment /\ (\/ here # <<>> /\ Last(here).kind \in Continuation
                                           \/ NextKind(lines, i) \in Continuation \cup {")"})
        IN IF i = Len(lines) \/ joins THEN here ELSE Append(here, Symbol(";"))
  IN FoldLeft(AddLine, <<>>, [i \in DOMAIN lines |-> i])

-----------------------------------------------------------------------------
(* The compiler: a state is [tokens, at, program, locals, value, ok] *)

Peek(st) == IF st.at > Len(st.tokens) THEN "end" ELSE st.tokens[st.at].kind
Peek2(st) == IF st.at >= Len(st.tokens) THEN "end" ELSE st.tokens[st.at + 1].kind
Skip(st) == [st EXCEPT !.at = @ + 1]
Fail(st) == [st EXCEPT !.ok = FALSE]
Expect(st, kind) == IF st.ok /\ Peek(st) = kind THEN Skip(st) ELSE Fail(st)

\* emit(): operands are earlier values, counted from 0.
Emit(st, op, operands, immediate, auxiliary) ==
  IF ~st.ok \/ Len(st.program.instructions) >= st.options.instructions THEN Fail(st)
  ELSE [st EXCEPT !.value = Len(st.program.instructions),
                  !.program.instructions = Append(@, [op |-> op, operands |-> operands,
                                                      immediate |-> immediate, auxiliary |-> auxiliary])]

\* Mutation of Tiers: a sum binds its parts as tightly as a product.
TiersFlat ==
  << [s \in {"||"} |-> s], [s \in {"&&"} |-> s], [s \in {"==", "!="} |-> s],
     [s \in {"<", "<=", ">", ">="} |-> s], [s \in {"*", "/"} |-> s], [s \in {"+", "-"} |-> s] >>

\* The binary operators, from the loosest to the tightest.
Tiers ==
  << [s \in {"||"} |-> s], [s \in {"&&"} |-> s], [s \in {"==", "!="} |-> s],
     [s \in {"<", "<=", ">", ">="} |-> s], [s \in {"+", "-"} |-> s], [s \in {"*", "/"} |-> s] >>

Arity ==
  [min |-> 2, max |-> 2, clamp |-> 3, fit |-> 5, gamma |-> 2, contrast |-> 2, smoothstep |-> 3, stray |-> 0]

StraySite == SeExprHash(<<ExpressionSeed("strayInternal", "Description"), 0>>)

\* call(): every call of rand() has a place of its own in the expression.
Call(st, name, arguments) ==
  LET calls == st.program.calls
      site == SeExprHash(<<st.program.seed, calls>>)
  IN IF ~st.ok THEN st
     ELSE IF name = "hash" /\ arguments # <<>> THEN Emit(st, "hash", arguments, 0, 0)
     ELSE IF name = "rand" /\ Len(arguments) <= 3
     THEN Emit([st EXCEPT !.program.calls = @ + 1], "rand", arguments, site, 0)
     ELSE IF name \in DOMAIN Arity /\ Len(arguments) = Arity[name]
     THEN Emit(st, name, arguments, IF name = "stray" THEN StraySite ELSE 0, 0)
     ELSE Fail(st)

\* A number with a sign, of a point of a ramp.
SignedNumber(st) ==
  LET here == IF Peek(st) \in {"+", "-"} THEN Skip(st) ELSE st
  IN IF ~st.ok \/ Peek(here) # "number" THEN Fail(st)
     ELSE [Skip(here) EXCEPT !.value = IF Peek(st) = "-" THEN -here.tokens[here.at].number
                                       ELSE here.tokens[here.at].number]

RECURSIVE RampPoints(_, _)
RampPoints(st, points) ==
  LET p == SignedNumber(st)
      v == SignedNumber(Expect(p, ","))
      i == SignedNumber(Expect(v, ","))
      point == [position |-> p.value, value |-> v.value, interpolation |-> i.value \div Whole]
      fits == /\ i.ok /\ i.value % Whole = 0 /\ point.interpolation \in 0 .. 3
              /\ p.value \in 0 .. Whole
              /\ points # <<>> => p.value > Last(points).position
      all == Append(points, point)
      closed == Expect(i, ")")
  IN IF ~fits THEN Fail(st)
     ELSE IF Peek(i) = ":" THEN RampPoints(Skip(i), all)
     ELSE Emit([closed EXCEPT !.program.ramps = Append(@, all)], "ramp", <<>>, 0, Len(st.program.ramps))

RECURSIVE Ternary(_), Tier(_, _), Rest(_, _), Prefix(_), Methods(_), Primary(_), Arguments(_, _)

Ternary(st) ==
  LET condition == Tier(st, 1)
      yes == Ternary(Skip(condition))
      no == Ternary(Expect(yes, ":"))
  IN IF ~condition.ok \/ Peek(condition) # "?" THEN condition
     ELSE IF ~yes.ok \/ ~no.ok THEN Fail(st)
     ELSE Emit(no, "select", <<condition.value, yes.value, no.value>>, 0, 0)

Tier(st, n) == IF n > Len(Tiers) THEN Prefix(st) ELSE Rest(Tier(st, n + 1), n)

\* Operators of one tier join from the left.
Rest(st, n) ==
  LET right == Tier(Skip(st), n + 1)
  IN IF ~st.ok \/ Peek(st) \notin DOMAIN Tiers[n] THEN st
     ELSE Rest(Emit(right, Tiers[n][Peek(st)], <<st.value, right.value>>, 0, 0), n)

Prefix(st) ==
  LET inner == Prefix(Skip(st))
  IN IF ~st.ok THEN st
     ELSE IF Peek(st) = "+" THEN inner
     ELSE IF Peek(st) = "-" THEN Emit(inner, "negate", <<inner.value>>, 0, 0)
     ELSE IF Peek(st) = "!" THEN Emit(inner, "not", <<inner.value>>, 0, 0)
     ELSE Methods(Primary(st))

\* Arguments up to the closing parenthesis; the first one may be there already.
Arguments(st, sum) ==
  LET next == Ternary(st)
      values == Append(sum, next.value)
  IN IF ~next.ok THEN [Fail(st) EXCEPT !.arguments = sum]
     ELSE IF Peek(next) = "," THEN Arguments(Skip(next), values)
     ELSE [Expect(next, ")") EXCEPT !.arguments = values]

CallArguments(st, first) ==
  IF Peek(st) = ")" THEN [Skip(st) EXCEPT !.arguments = first] ELSE Arguments(st, first)

Methods(st) ==
  LET name == Skip(st)
      open == Expect(Expect(name, "name"), "(")
      closed == CallArguments(open, <<st.value>>)
  IN IF ~st.ok \/ Peek(st) # "->" THEN st
     ELSE IF ~open.ok THEN Fail(st)
     ELSE Methods(Call(closed, name.tokens[name.at].text, closed.arguments))

Primary(st) ==
  LET token == st.tokens[st.at]
      next == Skip(st)
      inputs == st.program.inputs
      known == IF \E i \in DOMAIN inputs : inputs[i] = token.text THEN inputs ELSE Append(inputs, token.text)
      inner == Ternary(next)
      closed == CallArguments(Skip(next), <<>>)
  IN CASE Peek(st) = "number" -> Emit(next, "constant", <<>>, token.number, 0)
       [] Peek(st) = "variable" ->
            IF token.text \in DOMAIN st.locals THEN [next EXCEPT !.value = st.locals[token.text]]
            ELSE Emit([next EXCEPT !.program.inputs = known], "input", <<>>, 0,
                      (CHOOSE i \in DOMAIN known : known[i] = token.text) - 1)
       [] Peek(st) = "(" -> IF inner.ok THEN Expect(inner, ")") ELSE Fail(st)
       [] Peek(st) = "name" ->
            IF token.text \in {"true", "false"} THEN Emit(next, "constant", <<>>, Flag(token.text = "true"), 0)
            ELSE IF Peek(next) # "(" THEN IF token.text \in DOMAIN st.locals
                                          THEN [next EXCEPT !.value = st.locals[token.text]] ELSE Fail(st)
            ELSE IF token.text = "rampUI" THEN RampPoints(Skip(next), <<>>)
            ELSE Call(closed, token.text, closed.arguments)
       [] OTHER -> Fail(st)

\* A statement; one that assigns names its value.
Statement(st) ==
  LET assigns == Peek(st) \in {"variable", "name"} /\ Peek2(st) = "="
      done == Ternary(IF assigns THEN Skip(Skip(st)) ELSE st)
      local == st.tokens[st.at].text
      full == assigns /\ local \notin DOMAIN done.locals /\ Cardinality(DOMAIN done.locals) >= st.options.locals
  IN IF ~done.ok THEN done
     ELSE IF full THEN Fail(st)
     ELSE [done EXCEPT !.program.result = done.value,
                       !.locals = IF assigns THEN (local :> done.value) @@ @ ELSE @]

RECURSIVE Statements(_)
Statements(st) ==
  LET next == Statement(st)
  IN IF ~st.ok \/ Peek(st) = "end" THEN st
     ELSE IF Peek(st) = ";" THEN Statements(Skip(st))
     ELSE IF Peek(next) \notin {";", "end"} THEN Fail(next) ELSE Statements(next)

\* compile_xgen_scalar_expression()
CompileExpression(lines, options) ==
  LET tokens == NormalizeSource(lines)
      start == [tokens |-> tokens, at |-> 1, locals |-> <<>>, value |-> 0, ok |-> TRUE,
                arguments |-> <<>>, options |-> options,
                program |-> [instructions |-> <<>>, inputs |-> <<>>, ramps |-> <<>>, result |-> 0, calls |-> 0,
                             seed |-> ExpressionSeed(options.name, options.object)]]
      done == Statements(start)
  IN IF options.instructions = 0 \/ options.locals = 0 \/ Len(tokens) >= options.tokens
        \/ ~done.ok \/ done.program.instructions = <<>>
     THEN NoProgram ELSE done.program

=============================================================================
