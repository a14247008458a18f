--------------------------- MODULE ExpressionTrees ---------------------------
(***************************************************************************)
(* Expressions as trees [op, args, value]: the way they are written and what   *)
(* they are worth, the measure of the compiler (src/xgen_expression.cpp).     *)
(***************************************************************************)
EXTENDS Expression

BinaryOps == UNION {DOMAIN Tiers[i] : i \in DOMAIN Tiers}

\* How tightly an operator binds, from the conditional to a call.
Binds(t) ==
  CASE t.op = "select" -> 0
    [] t.op \in {"||"} -> 1 [] t.op \in {"&&"} -> 2 [] t.op \in {"==", "!="} -> 3
    [] t.op \in {"<", "<=", ">", ">="} -> 4 [] t.op \in {"+", "-"} -> 5 [] t.op \in {"*", "/"} -> 6
    [] t.op \in {"negate", "not"} -> 7
    [] OTHER -> 8

NumberToken(n) == [kind |-> "number", text |-> "", number |-> n]
NameToken(name) == [kind |-> "name", text |-> name, number |-> 0]

\* The tokens with no more parentheses than are needed.
RECURSIVE WrittenAs(_)
WrittenAs(t) ==
  LET Part(u, least) == IF Binds(u) >= least THEN WrittenAs(u)
                        ELSE <<Symbol("(")>> \o WrittenAs(u) \o <<Symbol(")")>>
      Arg(i, least) == Part(t.args[i], least)
  IN CASE t.op = "number" -> <<NumberToken(t.value)>>
       [] t.op = "variable" -> <<Variable(t.value)>>
       [] t.op = "select" -> Arg(1, 1) \o <<Symbol("?")>> \o Arg(2, 0) \o <<Symbol(":")>> \o Arg(3, 0)
       [] t.op \in BinaryOps -> Arg(1, Binds(t)) \o <<Symbol(t.op)>> \o Arg(2, Binds(t) + 1)
       [] t.op = "negate" -> <<Symbol("-")>> \o Arg(1, 7)
       [] t.op = "not" -> <<Symbol("!")>> \o Arg(1, 7)
       [] t.op = "method" -> Arg(1, 8) \o <<Symbol("->"), NameToken(t.value), Symbol("(")>> \o Arg(2, 0) \o <<Symbol(")")>>
       [] t.op = "call" -> <<NameToken(t.value), Symbol("(")>> \o Arg(1, 0) \o <<Symbol(",")>> \o Arg(2, 0) \o <<Symbol(")")>>
       [] t.op = "set" -> <<Variable(t.value), Symbol("=")>> \o Arg(1, 0) \o <<Symbol(";")>> \o Arg(2, 0)

\* What the tree is worth, where `known' has the values of the variables.
RECURSIVE TreeValue(_, _)
TreeValue(t, known) ==
  LET Arg(i) == TreeValue(t.args[i], known)
  IN CASE t.op = "number" -> t.value
       [] t.op = "variable" -> known[t.value]
       [] t.op \in {"method", "call"} -> Operation(t.value, <<Arg(1), Arg(2)>>)
       [] t.op = "set" -> TreeValue(t.args[2], (t.value :> Arg(1)) @@ known)
       [] OTHER -> Operation(t.op, [i \in DOMAIN t.args |-> Arg(i)])

=============================================================================
