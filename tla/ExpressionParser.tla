-------------------------- MODULE ExpressionParser --------------------------
(***************************************************************************)
(* parseScaledUnits (expr.go): a precedence-climbing parser that computes  *)
(* a scale and a container while it reads.  One action per return or call; *)
(* "stack" is the Go call stack.  The text is not fixed in advance: the    *)
(* lexer draws the next token when it is asked for one, so that texts with *)
(* a common beginning share their states.                                  *)
(***************************************************************************)
EXTENDS UnitsContainers, Sequences

CONSTANTS
  Number,      \* literals, as fractions
  Ident,       \* unit and dimension names
  MaxTokens    \* bound: tokens of a text

ASSUME TokenAssumption ==
  /\ \A r \in Number : IsRational(r)
  /\ MaxTokens \in Nat

VARIABLES
  text,     \* the tokens drawn so far
  err,      \* lexer.err is set
  stack,    \* pending calls, the innermost last
  at,       \* what happens next
  val       \* the ScaledUnits being returned

parserVars == <<text, err, stack, at, val>>

EOF == [kind |-> "EOF"]
Bad == [kind |-> "bad"]   \* a rune, number or bracket the lexer cannot read
Operand == [kind : {"number"}, num : Number] \cup [kind : {"ident"}, name : Ident]
Operator == [kind : {"+", "-", "*", "/", "**"}]
Token == Operand \cup Operator \cup [kind : {"(", ")"}]

\* lexer.tok.  After an error it is the end of the text.
Tok == IF text = << >> \/ err THEN EOF ELSE text[Len(text)]

\* lexer.next
Lex ==
  \E t \in Token \cup {EOF, Bad} :
    /\ Len(text) < MaxTokens \/ t = EOF
    /\ text' = Append(text, t)
    /\ err' = (err \/ t = Bad)

-----------------------------------------------------------------------------
(* Operands and operators *)

Literal(t) == IF t.kind = "number" THEN Dimensionless(t.num) ELSE Scaled(One, UnitPair(t.name, One))

\* Which operands parseExpr refuses, and what it makes of the others.
Accepts(op, a, b) ==
  /\ op \in {"+", "-"} => a.units = b.units
  /\ op = "**" => b.units = Empty
Apply(op, a, b) ==
  CASE op = "+" -> Scaled(Plus(a.scale, b.scale), a.units)
    [] op = "-" -> Scaled(Minus(a.scale, b.scale), a.units)
    [] op = "*" -> ScaledMul(a, b)
    [] op = "/" -> ScaledDiv(a, b)
    [] op = "**" -> ScaledPow(a, b.scale)

-----------------------------------------------------------------------------
(* infixBP *)

Implicit(t) == t.kind \in {"number", "ident", "("}
IsInfix(t) == t \in Operator \/ Implicit(t)
InfixOp(t) == IF Implicit(t) THEN "*" ELSE t.kind
BP(op) == CASE op \in {"+", "-"} -> 10 [] op \in {"*", "/"} -> 20 [] op = "**" -> 30

AllLeftAssociative(op) == BP(op) + 1   \* mutant: one rule for all operators

\* The least binding power of the right operand: only ** associates to the right.
RightBP(op) == IF op = "**" THEN BP(op) ELSE BP(op) + 1

-----------------------------------------------------------------------------
(* The calls *)

Nothing == Dimensionless(One)
ExprCall(minBP) == [call |-> "expr", min |-> minBP, op |-> "none", left |-> Nothing]
NegCall == [ExprCall(0) EXCEPT !.call = "neg"]
ParenCall == [ExprCall(0) EXCEPT !.call = "paren"]
Top == stack[Len(stack)]
Pop == SubSeq(stack, 1, Len(stack) - 1)

ParserInit ==
  /\ text = << >> /\ err = FALSE /\ stack = << >> /\ at = "start" /\ val = Nothing

\* p.lx.next() and parseExpr(0).
Start ==
  /\ at = "start"
  /\ Lex
  /\ stack' = <<ExprCall(0)>>
  /\ at' = "first"
  /\ UNCHANGED val

\* A text of nothing but spaces is the number 1; a lexer error is reported at once.
First ==
  /\ at = "first"
  /\ at' = IF text = <<EOF>> THEN "accepted" ELSE IF err THEN "refused" ELSE "unary"
  /\ stack' = IF at' = "unary" THEN stack ELSE << >>
  /\ UNCHANGED <<text, err, val>>

Refuse == at' = "refused" /\ stack' = << >> /\ UNCHANGED <<text, err, val>>

\* parseUnary
PlusSign ==
  /\ at = "unary" /\ Tok.kind = "+"
  /\ Lex
  /\ UNCHANGED <<stack, at, val>>

MinusSign ==
  /\ at = "unary" /\ Tok.kind = "-"
  /\ Lex
  /\ stack' = Append(stack, NegCall)
  /\ UNCHANGED <<at, val>>

ReadOperand ==
  /\ at = "unary" /\ Tok \in Operand
  /\ val' = Literal(Tok)
  /\ Lex
  /\ at' = "return"
  /\ UNCHANGED stack

OpenParen ==
  /\ at = "unary" /\ Tok.kind = "("
  /\ Lex
  /\ stack' = stack \o <<ParenCall, ExprCall(0)>>
  /\ UNCHANGED <<at, val>>

NoOperand ==
  /\ at = "unary" /\ Tok.kind \in {"*", "/", "**", ")", "EOF"}
  /\ Refuse

\* A value is returned to the call on top of the stack.
NegReturn ==
  /\ at = "return" /\ stack # << >> /\ Top.call = "neg"
  /\ val' = ScaledNeg(val)
  /\ stack' = Pop
  /\ UNCHANGED <<text, err, at>>

ParenReturnUnchecked ==   \* mutant: a missing parenthesis is not noticed
  /\ at = "return" /\ stack # << >> /\ Top.call = "paren"
  /\ IF Tok.kind = ")" THEN Lex ELSE UNCHANGED <<text, err>>
  /\ stack' = Pop
  /\ UNCHANGED <<at, val>>

ParenReturn ==
  /\ at = "return" /\ stack # << >> /\ Top.call = "paren"
  /\ IF Tok.kind = ")" THEN Lex /\ stack' = Pop /\ UNCHANGED <<at, val>> ELSE Refuse

FirstOperand ==
  /\ at = "return" /\ stack # << >> /\ Top.call = "expr" /\ Top.op = "none"
  /\ stack' = Append(Pop, [Top EXCEPT !.left = val])
  /\ at' = "infix"
  /\ UNCHANGED <<text, err, val>>

\* The switch on op; a lexer error met meanwhile is reported after it.
RightOperand ==
  /\ at = "return" /\ stack # << >> /\ Top.call = "expr" /\ Top.op # "none"
  /\ IF Accepts(Top.op, Top.left, val) /\ ~err
     THEN /\ stack' = Append(Pop, [Top EXCEPT !.left = Apply(Top.op, Top.left, val),
                                              !.op = "none"])
          /\ at' = "infix" /\ UNCHANGED <<text, err, val>>
     ELSE Refuse

\* The loop of parseExpr: go on with an operator that binds tightly enough ...
Continues == IsInfix(Tok) /\ BP(InfixOp(Tok)) >= Top.min

Infix ==
  /\ at = "infix" /\ Continues
  /\ IF Implicit(Tok) THEN UNCHANGED <<text, err>> ELSE Lex
  /\ stack' = Append(Pop, [Top EXCEPT !.op = InfixOp(Tok)])
              \o <<ExprCall(RightBP(InfixOp(Tok)))>>
  /\ at' = "unary"
  /\ UNCHANGED val

\* ... or return.
Leave ==
  /\ at = "infix" /\ ~Continues
  /\ val' = Top.left
  /\ stack' = Pop
  /\ at' = "return"
  /\ UNCHANGED <<text, err>>

\* parseScaledUnits: nothing may follow the expression.
Finish ==
  /\ at = "return" /\ stack = << >>
  /\ at' = IF Tok = EOF /\ ~err THEN "accepted" ELSE "refused"
  /\ UNCHANGED <<text, err, stack, val>>

ParserNext ==
  \/ Start \/ First \/ PlusSign \/ MinusSign \/ ReadOperand \/ OpenParen \/ NoOperand
  \/ NegReturn \/ ParenReturn \/ FirstOperand \/ RightOperand \/ Infix \/ Leave \/ Finish

-----------------------------------------------------------------------------
\* The grammar the parser is meant for.  Value(words)[<<rule, i, j>>] are the values of the
\* words i..j: a sum is a term, or a sum + or - a term; a term is a power, or a term * or /
\* or next to a power; a power is a unary, or a unary ** a power; a unary is a signed
\* unary, an operand, or a sum in parentheses.

Combine(op, A, B) == {Apply(op, x[1], x[2]) : x \in {y \in A \X B : Accepts(op, y[1], y[2])}}

Rule == {"sum", "term", "power", "unary"}
Joined(words, value, left, right, ops, i, j) ==
  UNION {Combine(words[k].kind, value[<<left, i, k - 1>>], value[<<right, k + 1, j>>]) :
           k \in {m \in (i + 1)..(j - 1) : words[m].kind \in ops}}
Juxtaposed(words, value, i, j) ==
  UNION {Combine("*", value[<<"term", i, k - 1>>], value[<<"power", k, j>>]) :
           k \in {m \in (i + 1)..j : Implicit(words[m])}}
Derived(words, value, rule, i, j) ==
  IF i > j THEN {}
  ELSE CASE rule = "sum" -> value[<<"term", i, j>>]
                            \cup Joined(words, value, "sum", "term", {"+", "-"}, i, j)
         [] rule = "term" -> value[<<"power", i, j>>] \cup Juxtaposed(words, value, i, j)
                             \cup Joined(words, value, "term", "power", {"*", "/"}, i, j)
         [] rule = "power" -> value[<<"unary", i, j>>]
                              \cup Joined(words, value, "unary", "power", {"**"}, i, j)
         [] rule = "unary" ->
              (IF i = j /\ words[i] \in Operand THEN {Literal(words[i])} ELSE {})
              \cup (IF words[i].kind = "+" THEN value[<<"unary", i + 1, j>>] ELSE {})
              \cup (IF words[i].kind = "-"
                    THEN {ScaledNeg(v) : v \in value[<<"unary", i + 1, j>>]} ELSE {})
              \cup (IF words[i].kind = "(" /\ words[j].kind = ")"
                    THEN value[<<"sum", i + 1, j - 1>>] ELSE {})
Value(words) ==
  LET value[c \in Rule \X (1..(Len(words) + 1)) \X (0..Len(words))] ==
        Derived(words, value, c[1], c[2], c[3])
  IN  value

Denotation == IF text = <<EOF>> THEN {Nothing} ELSE Value(text)[<<"sum", 1, Len(text) - 1>>]

\* The parser computes the grammar: an accepted text has one value, the one that
\* precedence and association give it, and a text refused at its end has none.
ParserMatchesGrammar ==
  /\ at = "accepted" => Denotation = {val}
  /\ at = "refused" /\ text[Len(text)] = EOF => Denotation = {}

\* Between two tokens the call stack explains the text: parentheses that are open
\* are pending calls, and an error of the lexer is never forgotten.
StackExplains ==
  LET count(kind) == Cardinality({i \in DOMAIN text : text[i].kind = kind})
      pending == Cardinality({i \in DOMAIN stack : stack[i].call = "paren"})
      lookahead(kind) == IF Tok.kind = kind THEN 1 ELSE 0
  IN  /\ at \in {"unary", "infix"} =>
           pending = (count("(") - lookahead("(")) - (count(")") - lookahead(")"))
      /\ at = "accepted" => ~err /\ count("(") = count(")")
=============================================================================
