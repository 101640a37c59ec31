-------------------------------- MODULE Calc --------------------------------
(***************************************************************************)
(* shell/calc.rs: integer expressions, from characters to tokens, to       *)
(* postfix order, to a value.  Err is any of the error results, and MAX    *)
(* stands for the largest i64.  Other characters are refused and left out. *)
(***************************************************************************)
EXTENDS Integers, SequencesExt, FiniteSetsExt

CONSTANTS
    MAX,          \* the largest number; the smallest is -MAX - 1
    Literals,     \* the numbers in expressions, each a sign and its digits
    MaxOps        \* bound: operators in one expression

ASSUME CalcAssumption ==
    /\ MAX \in Nat /\ MaxOps \in Nat
    /\ Literals \subseteq [neg : BOOLEAN, digits : Seq(0 .. 9) \ {<<>>}]

Ops == {"+", "-", "*", "/", "%"}
InRange(n) == n \in -MAX - 1 .. MAX

Ok(v) == [ok |-> TRUE, v |-> v]
Err == [ok |-> FALSE, v |-> 0]
checked(n) == IF InRange(n) THEN Ok(n) ELSE Err

-----------------------------------------------------------------------------
(***************************************************************************)
(* tokenize.                                                               *)
(***************************************************************************)
Num(n) == [t |-> "num", n |-> n, op |-> ""]
Op(o) == [t |-> "op", n |-> 0, op |-> o]
LParen == [t |-> "(", n |-> 0, op |-> ""]
RParen == [t |-> ")", n |-> 0, op |-> ""]

Sign(s) == [t |-> "sign", d |-> 0, s |-> s]
Digit(d) == [t |-> "digit", d |-> d, s |-> ""]

\* The literal that was being read, a minus and digits, becomes a token.
NoLiteral == [open |-> FALSE, neg |-> FALSE, digits |-> <<>>]

Decimal(digits) ==
    LET upto[k \in 0 .. Len(digits)] ==
            IF k = 0 THEN 0 ELSE 10 * upto[k - 1] + digits[k]
    IN  upto[Len(digits)]
Signed(lit) == IF lit.neg THEN -Decimal(lit.digits) ELSE Decimal(lit.digits)

parse(lit) == IF lit.digits = <<>> THEN Err ELSE checked(Signed(lit))

Finish(st) ==
    IF ~st.lit.open THEN st
    ELSE [st EXCEPT !.lit = NoLiteral,
                    !.out = Append(@, Num(parse(st.lit).v)),
                    !.bad = @ \/ ~parse(st.lit).ok]

\* A minus starts a number at the beginning, after an operator and after "(".
StartsNumber(out) == out = <<>> \/ Last(out).t \in {"op", "("}

Tokenize1(st, c) ==
    IF c.t = "digit" THEN [st EXCEPT !.lit.open = TRUE, !.lit.digits = Append(@, c.d)]
    ELSE LET f == Finish(st)
         IN  CASE c.s = " " -> f
               [] c.s = "-" /\ StartsNumber(f.out) ->
                      [f EXCEPT !.lit = [open |-> TRUE, neg |-> TRUE, digits |-> <<>>]]
               [] c.s \in Ops /\ ~(c.s = "-" /\ StartsNumber(f.out)) ->
                      [f EXCEPT !.out = Append(@, Op(c.s))]
               [] c.s = "(" -> [f EXCEPT !.out = Append(@, LParen)]
               [] c.s = ")" -> [f EXCEPT !.out = Append(@, RParen)]

\* after[k] is the state when the first k characters are read; so below.
tokenize(chars) ==
    LET after[k \in 0 .. Len(chars)] ==
            IF k = 0 THEN [out |-> <<>>, lit |-> NoLiteral, bad |-> FALSE]
            ELSE Tokenize1(after[k - 1], chars[k])
    IN  Finish(after[Len(chars)])

-----------------------------------------------------------------------------
(***************************************************************************)
(* shunting_yard.                                                          *)
(***************************************************************************)
\* Mutant: all operators bind alike.
precFlat(o) == 1

prec(o) == IF o \in {"+", "-"} THEN 1 ELSE 2

\* Operators are popped to the output, the last one first, down to the last
\* of the positions in stops.
PopTo(st, stops) ==
    LET keep == Max({0} \cup stops)
    IN  [output |-> st.output \o Reverse(SubSeq(st.ops, keep + 1, Len(st.ops))),
         ops |-> SubSeq(st.ops, 1, keep)]

Yard1(st, t) ==
    CASE t.t = "num" -> [st EXCEPT !.output = Append(@, t)]
      [] t.t = "op" ->
             LET Binds(u) == u.t = "op" /\ prec(u.op) >= prec(t.op)
                 p == PopTo(st, {i \in DOMAIN st.ops : ~Binds(st.ops[i])})
             IN  [p EXCEPT !.ops = Append(@, t)]
      [] t.t = "(" -> [st EXCEPT !.ops = Append(@, t)]
      [] t.t = ")" ->      \* a ")" without "(" is not an error
             LET p == PopTo(st, {i \in DOMAIN st.ops : st.ops[i].t = "("})
             IN  [p EXCEPT !.ops = IF @ = <<>> THEN @ ELSE Front(@)]

shunting_yard(toks) ==
    LET after[k \in 0 .. Len(toks)] ==
            IF k = 0 THEN [output |-> <<>>, ops |-> <<>>] ELSE Yard1(after[k - 1], toks[k])
        st == after[Len(toks)]
    IN  [bad |-> \E i \in DOMAIN st.ops : st.ops[i].t = "(",
         output |-> PopTo(st, {}).output]

-----------------------------------------------------------------------------
(***************************************************************************)
(* eval_rpn.  Division truncates, and the remainder has the sign of the    *)
(* dividend.                                                               *)
(***************************************************************************)
Abs(n) == IF n < 0 THEN -n ELSE n
Quotient(a, b) == IF (a < 0) = (b < 0) THEN Abs(a) \div Abs(b) ELSE -(Abs(a) \div Abs(b))

apply(o, a, b) ==
    CASE o = "+" -> checked(a + b)
      [] o = "-" -> checked(a - b)
      [] o = "*" -> checked(a * b)
      [] o \in {"/", "%"} ->
             IF b = 0 \/ ~InRange(Quotient(a, b)) THEN Err
             ELSE Ok(IF o = "/" THEN Quotient(a, b) ELSE a - b * Quotient(a, b))

Rpn1(st, t) ==
    LET n == Len(st.stack)
    IN  CASE st.bad -> st
          [] ~st.bad /\ t.t = "num" -> [st EXCEPT !.stack = Append(@, t.n)]
          [] ~st.bad /\ t.t # "num" ->
                 IF n < 2 THEN [st EXCEPT !.bad = TRUE]
                 ELSE LET r == apply(t.op, st.stack[n - 1], st.stack[n])
                      IN  [stack |-> Append(SubSeq(st.stack, 1, n - 2), r.v), bad |-> ~r.ok]

eval_rpn(toks) ==
    LET after[k \in 0 .. Len(toks)] ==
            IF k = 0 THEN [stack |-> <<>>, bad |-> FALSE] ELSE Rpn1(after[k - 1], toks[k])
        st == after[Len(toks)]
    IN  IF st.bad \/ Len(st.stack) # 1 THEN Err ELSE Ok(st.stack[1])

eval(chars) ==
    LET toks == tokenize(chars)
        rpn == shunting_yard(toks.out)
    IN  IF toks.bad \/ rpn.bad THEN Err ELSE eval_rpn(rpn.output)

-----------------------------------------------------------------------------
(***************************************************************************)
(* What an expression means.  An expression is given by how it is written, *)
(* its value, and how strongly its outermost operator binds.               *)
(***************************************************************************)
Atom(lit) ==
    [chars |-> (IF lit.neg THEN <<Sign("-")>> ELSE <<>>)
                 \o [k \in DOMAIN lit.digits |-> Digit(lit.digits[k])],
     value |-> checked(Signed(lit)),
     strength |-> 3]

Strength(o) == IF o \in {"+", "-"} THEN 1 ELSE 2

Group(e) ==
    [chars |-> <<Sign("(")>> \o e.chars \o <<Sign(")")>>, value |-> e.value, strength |-> 3]

\* Parentheses only where they are needed: around a weaker operand, and
\* around a right operand of the same strength.
Binary(o, l, r) ==
    LET left == IF l.strength < Strength(o) THEN Group(l) ELSE l
        right == IF r.strength <= Strength(o) THEN Group(r) ELSE r
    IN  [chars |-> left.chars \o <<Sign(" "), Sign(o)>> \o right.chars,
         value |-> IF l.value.ok /\ r.value.ok THEN apply(o, l.value.v, r.value.v) ELSE Err,
         strength |-> Strength(o)]

\* The expressions with n operators.
Expressions[n \in 0 .. MaxOps] ==
    IF n = 0 THEN {Atom(lit) : lit \in Literals}
    ELSE UNION {{Binary(o, l, r) : o \in Ops, l \in Expressions[i], r \in Expressions[n - 1 - i]} :
                  i \in 0 .. n - 1}
=============================================================================
