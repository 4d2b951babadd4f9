------------------------------ MODULE MathEval ------------------------------
(***************************************************************************)
(* The math_eval tool: the recursive descent parser that evaluates an      *)
(* expression while it reads it, against the grammar it is meant to        *)
(* implement.  An expression is a sequence of characters; "f" stands for   *)
(* the name of a one-argument function (abs) and "g" for a two-argument    *)
(* one (min), "u" for an unknown name.  A value is a rational <<n, d>>;    *)
(* floating point, and the other functions, are abstracted.                *)
(***************************************************************************)
EXTENDS Integers, Sequences

CONSTANTS Chars,        \* the characters expressions are made of
          Openings,     \* how expressions begin
          MaxChars      \* bound on the characters after the beginning

VARIABLES expr,         \* the expression under test
          room          \* the characters that may still be added

mathVars == <<expr, room>>

Digits == {"0", "1", "2"}
Letters == {"f", "g", "u"}
Digit(c) == CASE c = "0" -> 0 [] c = "1" -> 1 [] c = "2" -> 2

(***************************************************************************)
(* Values.                                                                 *)
(***************************************************************************)
Abs(n) == IF n < 0 THEN -n ELSE n

Value(n, d) ==
  LET k == CHOOSE k \in 1..(Abs(n) + Abs(d)) :
             /\ n % k = 0 /\ d % k = 0
             /\ \A j \in (k + 1)..(Abs(n) + Abs(d)) : ~(n % j = 0 /\ d % j = 0)
      sign == IF d < 0 THEN -1 ELSE 1
  IN <<sign * (n \div k), sign * (d \div k)>>

Neg(a) == <<-a[1], a[2]>>
Less(a, b) == a[1] * b[2] < b[1] * a[2]
IsZero(a) == a[1] = 0

Apply(op, a, b) ==
  CASE op = "+" -> Value(a[1] * b[2] + b[1] * a[2], a[2] * b[2])
    [] op = "-" -> Value(a[1] * b[2] - b[1] * a[2], a[2] * b[2])
    [] op = "*" -> Value(a[1] * b[1], a[2] * b[2])
    [] op = "/" -> Value(a[1] * b[2], a[2] * b[1])
    [] op = "%" -> LET q == Value(a[1] * b[2], a[2] * b[1])
                       t == IF q[1] < 0 THEN -(Abs(q[1]) \div q[2]) ELSE q[1] \div q[2]
                   IN Value(a[1] * b[2] - t * b[1] * a[2], a[2] * b[2])

Call1(a) == IF a[1] < 0 THEN Neg(a) ELSE a
Call2(a, b) == IF Less(a, b) THEN a ELSE b

(***************************************************************************)
(* The parser.  A parse at position p of s yields the value and the        *)
(* position after it, or fails.                                            *)
(***************************************************************************)
Fails == [ok |-> FALSE, pos |-> 0, val |-> <<0, 1>>]
Yields(v, p) == [ok |-> TRUE, pos |-> p, val |-> v]

At(s, p) == IF p <= Len(s) THEN s[p] ELSE "end"

RECURSIVE SkipWhitespace(_, _)
SkipWhitespace(s, p) == IF At(s, p) = " " THEN SkipWhitespace(s, p + 1) ELSE p

RECURSIVE ReadDigits(_, _, _)
ReadDigits(s, p, n) ==
  IF At(s, p) \in Digits THEN ReadDigits(s, p + 1, 10 * n + Digit(s[p])) ELSE Yields(<<n, 1>>, p)

\* A sign and digits (the fraction and the exponent are abstracted).
ParseNumber(s, p) ==
  LET signed == At(s, p) \in {"+", "-"}
      first  == IF signed THEN p + 1 ELSE p
      num    == ReadDigits(s, first, 0)
  IN IF num.pos = first THEN Fails
     ELSE IF At(s, p) = "-" THEN Yields(Neg(num.val), num.pos) ELSE num

RECURSIVE ParseExpr(_, _), ParseSum(_, _), ParseMulDiv(_, _), ParseProduct(_, _),
          ParseUnary(_, _), ParsePrimary(_, _), ParseFunc(_, _), ParseArgs(_, _, _)

\* parseAddSub: the loop after its left operand.
ParseExpr(s, p) == ParseSum(s, ParseMulDiv(s, p))

ParseSum(s, left) ==
  IF ~left.ok THEN Fails
  ELSE LET q == SkipWhitespace(s, left.pos)
       IN IF At(s, q) \notin {"+", "-"} THEN Yields(left.val, q)
          ELSE LET right == ParseMulDiv(s, q + 1)
               IN IF ~right.ok THEN Fails
                  ELSE ParseSum(s, Yields(Apply(s[q], left.val, right.val), right.pos))

ParseMulDiv(s, p) == ParseProduct(s, ParseUnary(s, p))

ParseProductRight(s, left) ==
  IF ~left.ok THEN Fails
  ELSE LET q == SkipWhitespace(s, left.pos)
       IN IF At(s, q) \notin {"*", "/", "%"} THEN Yields(left.val, q)
          ELSE LET right == ParseMulDiv(s, q + 1)
               IN IF ~right.ok \/ (s[q] \in {"/", "%"} /\ IsZero(right.val)) THEN Fails
                  ELSE Yields(Apply(s[q], left.val, right.val), right.pos)

ParseProduct(s, left) ==
  IF ~left.ok THEN Fails
  ELSE LET q == SkipWhitespace(s, left.pos)
       IN IF At(s, q) \notin {"*", "/", "%"} THEN Yields(left.val, q)
          ELSE LET right == ParseUnary(s, q + 1)
               IN IF ~right.ok \/ (s[q] \in {"/", "%"} /\ IsZero(right.val)) THEN Fails
                  ELSE ParseProduct(s, Yields(Apply(s[q], left.val, right.val), right.pos))

ParseUnary(s, p) ==
  LET q == SkipWhitespace(s, p)
  IN IF At(s, q) = "-"
     THEN LET v == ParsePrimary(s, q + 1)
          IN IF v.ok THEN Yields(Neg(v.val), v.pos) ELSE Fails
     ELSE ParsePrimary(s, IF At(s, q) = "+" THEN q + 1 ELSE q)

ParsePrimary(s, p) ==
  LET q == SkipWhitespace(s, p)
  IN IF At(s, q) = "("
     THEN LET v == ParseExpr(s, q + 1)
              r == SkipWhitespace(s, v.pos)
          IN IF v.ok /\ At(s, r) = ")" THEN Yields(v.val, r + 1) ELSE Fails
     ELSE IF At(s, q) \in Letters THEN ParseFunc(s, q)
     ELSE ParseNumber(s, q)

\* A name takes its arguments in parentheses; their number must be right.
ParseFunc(s, p) ==
  LET q    == SkipWhitespace(s, p + 1)
      args == ParseArgs(s, q + 1, <<>>)
  IN IF At(s, q) # "(" \/ ~args.ok THEN Fails
     ELSE CASE s[p] = "f" /\ Len(args.vals) = 1 -> Yields(Call1(args.vals[1]), args.pos)
            [] s[p] = "g" /\ Len(args.vals) = 2 ->
                 Yields(Call2(args.vals[1], args.vals[2]), args.pos)
            [] OTHER -> Fails

\* The arguments that follow those already read.
ParseArgs(s, p, vals) ==
  LET q == SkipWhitespace(s, p)
      v == ParseExpr(s, q)
      r == SkipWhitespace(s, v.pos)
      more == Append(vals, v.val)
  IN IF vals = <<>> /\ At(s, q) = ")" THEN [ok |-> TRUE, pos |-> q + 1, vals |-> <<>>]
     ELSE IF ~v.ok THEN [ok |-> FALSE]
     ELSE IF At(s, r) = ")" THEN [ok |-> TRUE, pos |-> r + 1, vals |-> more]
     ELSE IF At(s, r) = "," THEN ParseArgs(s, r + 1, more)
     ELSE [ok |-> FALSE]

\* evalExpr: the whole of the trimmed input must be one expression.
EvalExpr(s) ==
  LET v == ParseExpr(s, 1)
  IN IF v.ok /\ SkipWhitespace(s, v.pos) > Len(s) THEN {v.val} ELSE {}

MathInit == expr \in Openings /\ room = MaxChars

MathNext ==
  /\ room > 0
  /\ room' = room - 1
  /\ \E c \in Chars : expr' = Append(expr, c)

\* The grammar, as the set of values a piece of text derives:
\*   E ::= T | E + T | E - T        T ::= U | T * U | T / U | T % U
\*   U ::= P | + P | - P            N ::= D | +D | -D
\*   P ::= [ E ] | name [ E ] | name [ E , E ] | N
\* where [ ] are parentheses and spaces may surround every symbol, except
\* inside N.
RECURSIVE Stripped(_)
Stripped(s) ==
  IF s = <<>> THEN s
  ELSE IF s[1] = " " THEN Stripped(Tail(s))
  ELSE IF s[Len(s)] = " " THEN Stripped(SubSeq(s, 1, Len(s) - 1)) ELSE s

Upto(s, i) == SubSeq(s, 1, i)
From(s, i) == SubSeq(s, i, Len(s))

Signed(sign, vals) == IF sign = "-" THEN {Neg(v) : v \in vals} ELSE vals

RECURSIVE Natural(_)
Natural(s) == IF s = <<>> THEN 0 ELSE 10 * Natural(Upto(s, Len(s) - 1)) + Digit(s[Len(s)])

IsNatural(s) == s # <<>> /\ \A i \in DOMAIN s : s[i] \in Digits

N(s) ==
  IF IsNatural(s) THEN {<<Natural(s), 1>>}
  ELSE IF Len(s) > 1 /\ s[1] \in {"+", "-"} /\ IsNatural(Tail(s))
       THEN Signed(s[1], {<<Natural(Tail(s)), 1>>})
  ELSE {}

RECURSIVE E(_), T(_), U(_), P(_)

E(text) ==
  LET s == Stripped(text)
  IN T(s) \union
     UNION {{Apply(s[i], a, b) : a \in E(Upto(s, i - 1)), b \in T(From(s, i + 1))} :
              i \in {i \in DOMAIN s : s[i] \in {"+", "-"}}}

T(text) ==
  LET s == Stripped(text)
  IN U(s) \union
     UNION {{Apply(s[i], a, b) : a \in T(Upto(s, i - 1)),
                                 b \in {b \in U(From(s, i + 1)) : s[i] \in {"/", "%"} => ~IsZero(b)}} :
              i \in {i \in DOMAIN s : s[i] \in {"*", "/", "%"}}}

U(text) ==
  LET s == Stripped(text)
  IN P(s) \union (IF s # <<>> /\ s[1] \in {"+", "-"} THEN Signed(s[1], P(Tail(s))) ELSE {})

P(text) ==
  LET s    == Stripped(text)
      args == Stripped(IF s = <<>> THEN s ELSE Tail(s))
      inner == SubSeq(args, 2, Len(args) - 1)
      Enclosed(t) == Len(t) > 2 /\ t[1] = "(" /\ t[Len(t)] = ")"
  IN N(s)
     \union (IF Enclosed(s) THEN E(SubSeq(s, 2, Len(s) - 1)) ELSE {})
     \union (IF s # <<>> /\ s[1] = "f" /\ Enclosed(args) THEN {Call1(a) : a \in E(inner)} ELSE {})
     \union (IF s # <<>> /\ s[1] = "g" /\ Enclosed(args)
             THEN UNION {{Call2(a, b) : a \in E(Upto(inner, i - 1)), b \in E(From(inner, i + 1))} :
                           i \in {i \in DOMAIN inner : inner[i] = ","}}
             ELSE {})

\* The parser accepts exactly the expressions of the grammar and computes the
\* one value each of them has: left to right, products before sums, a sign
\* before the product it stands in, division by zero refused (evalExpr).
EvaluatesTheGrammar == EvalExpr(expr) = E(expr)

=============================================================================
