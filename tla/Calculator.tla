----------------------------- MODULE Calculator -----------------------------
(***************************************************************************)
(* A text is parsed into a quantity, and operations of the API are applied *)
(* to it.  Composes ExpressionParser and Quantities; one caller, since     *)
(* quantities are immutable and the catalog does not change.               *)
(***************************************************************************)
EXTENDS ExpressionParser, Quantities, DimensionalAnalysis

CONSTANTS
  Spelling,       \* [spelling -> name]; "" for the dimensionless unit
  Stock,          \* quantities to operate with; their units are also destinations
  Companions,     \* pairs of quantities to analyse together with the one at hand
  Exponents,      \* numbers for Pow
  Factors,        \* numbers for MulFloat
  Magnitudes,     \* numbers for Registry.Quantity
  MaxRead,        \* bound: tokens of the texts whose value is used
  MaxOperations,  \* bound: operations on a quantity
  MaxNumerator, MaxDenominator,  \* bounds of magnitudes
  MaxDegree       \* bound of the exponents of units together

VARIABLES
  q,        \* the quantity at hand
  did,      \* history: the last operation, its other operand, the answer
  seen,     \* history: what q and the other operand stand for
  done      \* history: how many operations

vars == <<parserVars, autoOffsetToBase, q, did, seen, done>>

\* What a quantity stands for.
Measure(x) ==
  LET nm == NonMult(x.units)
      kind == IF nm = {} THEN "vector" ELSE IF HasLogarithmic(x.units) THEN "level" ELSE "point"
      n == OffsetUnit(x.units)
  IN  IF \/ ~Defined(x.units) \/ Cardinality(nm) > 1
         \/ kind # "vector" /\ x.units[n] # One
         \/ kind = "level" /\ Cardinality(Names(x.units)) > 1
      THEN [kind |-> "unclear", dim |-> Empty, value |-> Zero]
      ELSE [kind |-> kind,
            dim |-> Dimensionality(x.units),
            value |-> IF kind = "vector" THEN Times(x.mag, RootUnits(x.units).scale)
                      ELSE Times(ToReference(Catalog[n], x.mag),
                                 RootUnits(Linear(n, x.units)).scale)]

Did(op, other, answer) == [op |-> op, other |-> other, answer |-> answer]
NoQuantity == Quantity(Zero, Empty)
Plain(x) == Quantity(x, Empty)
Other == [x \in Stock \cup {NoQuantity} \cup {Plain(p) : p \in Exponents \cup Factors \cup {Whole(-1)}}
            |-> Measure(x)]
Seen(m, d) == [measure |-> m, did |-> IF d.op = "pi" THEN d ELSE [d EXCEPT !.other = Other[@]]]

Representable(x) ==
  /\ x.mag # Inexact /\ Abs(x.mag[1]) <= MaxNumerator /\ x.mag[2] <= MaxDenominator
  /\ MapThenSumSet(LAMBDA n : Abs(x.units[n][1]), Names(x.units)) <= MaxDegree

Init ==
  /\ ParserInit
  /\ autoOffsetToBase \in BOOLEAN
  /\ q = NoQuantity
  /\ did = Did("none", NoQuantity, "done") /\ seen = Seen(Measure(q), did)
  /\ done = 0

Parsing == ParserNext /\ UNCHANGED <<autoOffsetToBase, q, did, seen, done>>

-----------------------------------------------------------------------------
(* Parse and ParseUnits *)

Canonical(names) == {n \in names : Spelling[n] # ""}
Resolved(u, nameOf(_)) ==
  Product([n \in Canonical(Names(u)) |-> u[n]],
          LAMBDA n : Scaled(One, UnitPair(nameOf(Spelling[n]), One))).units

Parse(su) == {Quantity(su.scale, Resolved(su.units, LAMBDA n : n))}

\* In a product or a power an offset unit means its difference.
ParseUnits(su) ==
  LET many == Cardinality(Names(su.units)) > 1
      compound == {n \in Canonical(Names(su.units)) : many \/ su.units[n] # One}
      asDelta(n) == IF IsMultiplicative(Catalog[n]) THEN n ELSE Delta[n]
      lone == [n \in Names(su.units) \ compound |-> su.units[n]]
  IN  IF su.scale # One THEN {}
      ELSE {Mul(Resolved([n \in compound |-> su.units[n]], asDelta),
                Resolved(lone, LAMBDA n : n))}

\* The text is dropped once it has been read.
Read(quantities) ==
  /\ at = "accepted" /\ Len(text) <= MaxRead + 1
  /\ \E x \in quantities : Representable(x) /\ q' = x
  /\ did' = Did("read", NoQuantity, "done")
  /\ text' = << >> /\ at' = "read" /\ val' = Nothing
  /\ UNCHANGED <<err, stack, autoOffsetToBase, done>>

\* Registry.Parse.
ReadQuantity == Read(Parse(val))

\* Registry.Quantity, Unit.Quantity.
ReadUnits == Read({Quantity(m, u) : m \in Magnitudes, u \in ParseUnits(val)})

-----------------------------------------------------------------------------
(* Operations.  They are refused or done; where they are done, the result is at hand. *)

\* A refusal or a question changes nothing, so that no other operation need follow it.
Idle(op, other, answer) ==
  /\ did' = Did(op, other, answer)
  /\ done' = MaxOperations
  /\ UNCHANGED q

Ready ==
  /\ at = "read" /\ done < MaxOperations
  /\ UNCHANGED <<parserVars, autoOffsetToBase>>

Operation(op, other, results) ==
  /\ Ready
  /\ \/ results = {} /\ Idle(op, other, "refused")
     \/ /\ \E x \in results : Representable(x) /\ q' = x
        /\ did' = Did(op, other, "done")
        /\ done' = done + 1

To == \E s \in Stock : Operation("to", s, ToUnits(q, s.units))
ConvertCompiled ==
  \E s \in Stock :
    Operation("to", s, {Quantity(v, s.units) :
      v \in UNION {OpConvert(op, q.mag, q.units, s.units) : op \in Converter(q.units, s.units)}})
Root == Operation("root", NoQuantity, ToRootUnits(q))
Compact == Operation("compact", NoQuantity, ToCompact(q))
AddOrSub == \E s \in Stock, sub \in BOOLEAN :
              Operation(IF sub THEN "sub" ELSE "add", s, AddSub(q, s, sub))
MulOrDiv == \E s \in Stock, div \in BOOLEAN :
              Operation(IF div THEN "div" ELSE "mul", s, MulDiv(q, s, div))
Raise == \E p \in Exponents : Operation("pow", Plain(p), PowQ(q, p))
Negate == Operation("times", Plain(Whole(-1)), NegQ(q))
Multiple == \E x \in Factors : Operation("times", Plain(x), MulFloat(q, x))

Equal ==
  /\ Ready
  /\ \E s \in Stock : Idle("equal", s, IF AlmostEqual(q, s) THEN "yes" ELSE "no")

\* PiTheorem on the quantity at hand and two others.
Groups(others) == PiTheorem([i \in DOMAIN others |-> Dimensionality(others[i].units)])
Analyse ==
  /\ Ready /\ Defined(q.units)
  /\ \E c \in Companions : Idle("pi", <<q>> \o c, Groups(<<q>> \o c))

Calculating ==
  \/ ReadQuantity \/ ReadUnits
  \/ To \/ ConvertCompiled \/ Root \/ Compact \/ AddOrSub \/ MulOrDiv
  \/ Raise \/ Negate \/ Multiple \/ Equal \/ Analyse

Next ==
  \/ Parsing
  \/ Calculating /\ \E x \in {q'}, d \in {did'} :
       seen' = Seen(IF x = q THEN seen.measure ELSE Measure(x), d)

Spec == Init /\ [][Next]_vars

-----------------------------------------------------------------------------
\* Every operation does to the measures what Measures says, or is refused where that
\* may be: conversions keep the amount, points and amounts and levels are not mixed up,
\* whether convertIn or a compiled line does the work, and whatever came before.
KeepsMeasure == INSTANCE Measures WITH measure <- seen.measure, did <- seen.did
ImplementsMeasures == KeepsMeasure!Spec

TypeOK ==
  /\ IsContainer(q.units) /\ IsRational(q.mag) /\ q.mag # Inexact
  /\ IsContainer(val.units) /\ \A i \in DOMAIN stack : IsContainer(stack[i].left.units)
  /\ at \in {"start", "first", "unary", "infix", "return", "accepted", "refused", "read"}

\* ToCompact brings the magnitude between 1 and 1000 whenever a prefix that it may put
\* on the only unit of positive power does, whatever the sign of the magnitude.
CompactReadable ==
  LET readable(x) == Abs(x[1]) >= x[2] /\ Abs(x[1]) < 1000 * x[2]
      targets(u) == {n \in Names(u) : u[n][1] > 0}
      usable(p, n) == p.name = "" \/ <<p.name, n>> \in DOMAIN Prefixed
  IN  did.op = "compact" /\ did.answer = "done" =>
        \A g \in ToUnits(q, InferBaseUnit(q.units)) : \A n \in targets(g.units) :
          \A i \in DOMAIN siPrefixOrder :
            LET p == siPrefixOrder[i]
            IN  /\ targets(g.units) = {n} /\ usable(p, n)
                /\ readable(Over(g.mag, Power(p.value, g.units[n])))
                => readable(q.mag)

\* The groups of PiTheorem are dimensionless, and they generate every dimensionless
\* product, unless no quantity has a dimension, when the code returns none.
PiGroupsComplete ==
  did.op = "pi" =>
    LET dims == [i \in DOMAIN did.other |-> Dimensionality(did.other[i].units)]
    IN  (\E i \in DOMAIN dims : dims[i] # Empty) => GroupsComplete(dims, did.answer)
=============================================================================
