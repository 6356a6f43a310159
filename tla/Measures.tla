------------------------------ MODULE Measures ------------------------------
(***************************************************************************)
(* What arithmetic on quantities promises.  A quantity stands for a        *)
(* measure: an amount in root units of a dimension.  Its units say how it  *)
(* is read: "vector" for an amount, "point" for a place on a scale with    *)
(* an offset, "level" for the logarithm of an amount; "unclear" is what    *)
(* has no reading (an offset unit squared, a unit nobody defined).         *)
(***************************************************************************)
EXTENDS UnitsContainers

VARIABLES
  measure,   \* [kind, dim, value]
  did        \* the last operation: [op, other, answer]

Kinds == {"vector", "point", "level"}
Operations == {"to", "root", "compact", "add", "sub", "mul", "div", "pow", "times"}
Unclear == [kind |-> "unclear", dim |-> Empty, value |-> Zero]
Vector(d, v) == [kind |-> "vector", dim |-> d, value |-> v]

\* Sums.  Two points have a difference and no sum; amounts move points; levels multiply.
Sum(a, b, c) ==
  \/ /\ {a.kind, b.kind} \subseteq {"vector", "point"} /\ {a.kind, b.kind} # {"point"}
     /\ a.dim = b.dim
     /\ c = [kind |-> IF "point" \in {a.kind, b.kind} THEN "point" ELSE "vector",
             dim |-> a.dim, value |-> Plus(a.value, b.value)]
  \/ /\ {a.kind, b.kind} = {"level"}
     /\ c.dim = Mul(a.dim, b.dim) /\ c.value = Times(a.value, b.value)

Difference(a, b, c) ==
  \/ /\ a.kind \in {"vector", "point"} /\ b.kind \in {"vector", a.kind} /\ a.dim = b.dim
     /\ c = [kind |-> IF a.kind = b.kind THEN "vector" ELSE "point",
             dim |-> a.dim, value |-> Minus(a.value, b.value)]
  \/ \* An amount minus a point is a reading of the scale and nothing more.
     /\ a.kind = "vector" /\ b.kind = "point" /\ a.dim = b.dim
     /\ c.kind = "point" /\ c.dim = a.dim
  \/ /\ {a.kind, b.kind} = {"level"}
     /\ c.dim = Div(a.dim, b.dim) /\ c.value = Over(a.value, b.value)

\* The outcome c of an operation on a and b; b.value is the exponent or the number.
Outcome(op, a, b, c) ==
  CASE op = "to" -> c.dim = a.dim /\ c.value = a.value /\ c.kind = b.kind
    [] op = "root" -> c = Vector(a.dim, a.value)
    [] op = "compact" -> c = a
    [] op = "add" -> Sum(a, b, c)
    [] op = "sub" -> Difference(a, b, c)
    [] op = "mul" -> c = Vector(Mul(a.dim, b.dim), Times(a.value, b.value))
    [] op = "div" -> c = Vector(Div(a.dim, b.dim), Over(a.value, b.value))
    [] op = "pow" -> IF a.kind = "vector"
                     THEN c = Vector(Pow(a.dim, b.value), Power(a.value, b.value))
                     ELSE b.value = One /\ c = a
    [] op = "times" -> /\ c.kind = a.kind /\ c.dim = a.dim
                       /\ a.kind = "vector" => c.value = Times(a.value, b.value)

\* Only offset units, levels and different dimensions excuse a refusal.
MayRefuse(op, a, b) ==
  \/ {a.kind, b.kind} # {"vector"}
  \/ op \in {"to", "add", "sub"} /\ a.dim # b.dim

\* A step: the measure a becomes c by what d says was done.
Operate(a, d, c) ==
  /\ d.op \in Operations
  /\ \/ /\ d.answer = "done"
        /\ {a.kind, d.other.kind} \subseteq Kinds => Outcome(d.op, a, d.other, c)
     \/ /\ d.answer = "refused"
        /\ MayRefuse(d.op, a, d.other)
        /\ c = a

\* AlmostEqual says yes of equal measures only, and of two amounts whenever they are equal.
Compare(a, d, c) ==
  /\ d.op = "equal" /\ c = a
  /\ LET same == a.dim = d.other.dim /\ a.value = d.other.value
     IN  {a.kind, d.other.kind} \subseteq Kinds =>
           /\ d.answer = "yes" => same
           /\ d.answer = "no" => ~same \/ MayRefuse("to", a, d.other)

\* A question about dimensions.
Analyse(a, d, c) == d.op = "pi" /\ c = a

\* A text that is read may give any measure.
Step(a, d, c) == d.op = "read" \/ Analyse(a, d, c) \/ Compare(a, d, c) \/ Operate(a, d, c)

Next == Step(measure, did', measure')
Spec == did.op = "none" /\ [][Next]_<<measure, did>>
=============================================================================
