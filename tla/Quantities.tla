----------------------------- MODULE Quantities -----------------------------
(***************************************************************************)
(* Quantity (quantity.go) and the arithmetic under it: convertIn and       *)
(* Converter (convert.go) on offset, delta and logarithmic units, and      *)
(* ToCompact (extra.go).  The catalog is a constant and no context is      *)
(* enabled; ContextScopes has those.  A result is the set that holds it,   *)
(* and an error is the empty set.                                          *)
(***************************************************************************)
EXTENDS UnitAmounts, Sequences

CONSTANTS
  Delta,       \* [name of a unit -> name of its difference]
  Stem,        \* [name -> name without prefix], by parseUnitName
  Prefixed,    \* [<<prefix, name>> -> name], for the pairs that parse
  Rank,        \* [name -> place in the order of strings]
  siPrefixOrder  \* <<[name, value], ...>>

ASSUME NamesAssumption == DOMAIN Stem = DOMAIN Catalog /\ DOMAIN Delta = DOMAIN Catalog

VARIABLE autoOffsetToBase   \* the option of NewRegistry, chosen once

Quantity(m, u) == [mag |-> m, units |-> u]

Deltas(u) == Names(u) \cap {Delta[n] : n \in DOMAIN Delta}

-----------------------------------------------------------------------------
(* convertIn *)

ValidOffset(u) ==
  /\ \A n \in NonMult(u) : u[n] = One
  /\ Cardinality(NonMult(u)) <= 1
  /\ NonMult(u) # {} => Cardinality(Names(u)) = 1 \/ autoOffsetToBase

OffsetUnit(u) == CHOOSE n \in NonMult(u) : TRUE

\* addOffsetRef of what is left of u without its offset unit.
Linear(n, u) == Mul(Without(u, n), Catalog[n].reference)

Convert(v, src, dst) ==
  LET linearSrc == IF NonMult(src) = {} THEN src ELSE Linear(OffsetUnit(src), src)
      linearDst == IF NonMult(dst) = {} THEN dst ELSE Linear(OffsetUnit(dst), dst)
      toLinear == IF NonMult(src) = {} THEN v ELSE ToReference(Catalog[OffsetUnit(src)], v)
      scaled == Times(toLinear, ConversionFactor(linearSrc, linearDst))
  IN  IF src = dst THEN {v}
      ELSE IF \/ ~ValidOffset(src) \/ ~ValidOffset(dst)
              \/ ~Defined(src) \/ ~Defined(dst)
              \/ Dimensionality(src) # Dimensionality(dst)
              \/ NonMult(src) # {} /\ Deltas(dst) # {}
              \/ NonMult(dst) # {} /\ Deltas(linearSrc) # {}
      THEN {}
      ELSE {IF NonMult(dst) = {} THEN scaled
            ELSE FromReference(Catalog[OffsetUnit(dst)], scaled)}

\* Converter compiles a line through the values at 0 and 1, or a factor, or nothing
\* when a unit is logarithmic; ConverterOp.Convert applies it.
ThroughOne(c0, c1) == [simple |-> TRUE, scale |-> c1, offset |-> c0]   \* mutant
Line(c0, c1) == [simple |-> TRUE, scale |-> Minus(c1, c0), offset |-> c0]

Converter(src, dst) ==
  IF src = dst THEN {[simple |-> TRUE, scale |-> One, offset |-> Zero]}
  ELSE IF NonMult(src) \cup NonMult(dst) = {}
  THEN {[simple |-> TRUE, scale |-> f, offset |-> Zero] : f \in Convert(One, src, dst)}
  ELSE IF HasLogarithmic(src) \/ HasLogarithmic(dst) THEN {[simple |-> FALSE]}
  ELSE {Line(c[1], c[2]) : c \in Convert(Zero, src, dst) \X Convert(One, src, dst)}

OpConvert(op, v, src, dst) ==
  IF op.simple THEN {Plus(Times(v, op.scale), op.offset)} ELSE Convert(v, src, dst)

-----------------------------------------------------------------------------
(* Quantity *)

ToUnits(q, u) == {Quantity(v, u) : v \in Convert(q.mag, q.units, u)}
ToRootUnits(q) == IF Defined(q.units) THEN ToUnits(q, RootUnits(q.units).units) ELSE {}

HasCompatibleDelta(q, n) ==
  \/ Delta[n] \in Names(q.units)
  \/ \E d \in Deltas(q.units) \cap DOMAIN Catalog :
       Catalog[d].reference = Catalog[n].reference

AlwaysOk(q) == TRUE   \* mutant: offset units are multiplied in place

\* okMulDiv: an offset or logarithmic unit is never multiplied in place.
OkMulDiv(q) == NonMult(q.units) = {}

Multipliable(q) ==
  IF OkMulDiv(q) THEN {q} ELSE IF autoOffsetToBase THEN ToRootUnits(q) ELSE {}
MulDiv(a, b, div) ==
  {IF div THEN Quantity(Over(p[1].mag, p[2].mag), Div(p[1].units, p[2].units))
   ELSE Quantity(Times(p[1].mag, p[2].mag), Mul(p[1].units, p[2].units)) :
     p \in Multipliable(a) \X Multipliable(b)}
PowQ(a, p) == IF OkMulDiv(a) \/ p = One THEN {Quantity(Power(a.mag, p), Pow(a.units, p))} ELSE {}
NegQ(a) == {Quantity(Neg(a.mag), a.units)}
MulFloat(a, x) == {Quantity(Times(a.mag, x), a.units)}

IsLog(q) == Cardinality(Names(q.units)) = 1 /\ HasLogarithmic(q.units)

\* Levels: the linear amounts are multiplied or divided, and the result is a level again
\* if one of them has no dimension.
AddLevels(a, b, sub) ==
  LET dimensionless(q) == Dimensionality(q.units) = Empty
      level(p) == IF dimensionless(p[2]) THEN {a.units}
                  ELSE IF dimensionless(p[1]) THEN {b.units} ELSE {}
      asLevel(r, us) == IF us = {} THEN {r} ELSE UNION {ToUnits(r, u) : u \in us}
  IN  UNION {UNION {asLevel(r, level(p)) : r \in MulDiv(p[1], p[2], sub)} :
               p \in ToRootUnits(a) \X ToRootUnits(b)}

\* The offset unit of a quantity that has one, of power 1: a point on its scale.
PointOf(q) == {n \in NonMult(q.units) : NonMult(q.units) = {n} /\ q.units[n] = One}

AddSub(a, b, sub) ==
  LET op(x, y) == IF sub THEN Minus(x, y) ELSE Plus(x, y)
      linear == NonMult(a.units) \cup NonMult(b.units) = {}
      delta(q) == LET n == OffsetUnit(q.units) IN Rename(q.units, n, Delta[n])
      \* The units that b is converted to, and those of the result.
      plan ==
        IF linear THEN {<<a.units, a.units>>}
        ELSE IF sub /\ \E n \in PointOf(a) : ~HasCompatibleDelta(a, n) /\ NonMult(b.units) = {n}
        THEN {<<a.units, delta(a)>>}
        ELSE IF \E n \in PointOf(a) : HasCompatibleDelta(b, n) THEN {<<delta(a), a.units>>}
        ELSE {}
  IN  IF IsLog(a) /\ IsLog(b) THEN AddLevels(a, b, sub)
      ELSE IF \/ ~Defined(a.units) \/ ~Defined(b.units)
              \/ Dimensionality(a.units) # Dimensionality(b.units) THEN {}
      ELSE IF plan # {}
        THEN UNION {{Quantity(op(a.mag, v), to[2]) : v \in Convert(b.mag, b.units, to[1])} :
                      to \in plan}
      ELSE IF \E n \in PointOf(b) : HasCompatibleDelta(a, n)
        THEN {Quantity(op(v, b.mag), b.units) : v \in Convert(a.mag, a.units, delta(b))}
      ELSE {}

\* AlmostEqual, without its tolerance.
AlmostEqual(a, b) ==
  /\ Defined(a.units) /\ Defined(b.units)
  /\ Dimensionality(a.units) = Dimensionality(b.units)
  /\ a.mag \in Convert(b.mag, b.units, a.units)

-----------------------------------------------------------------------------
(* ToCompact *)

InferBaseUnit(u) ==
  Product(u, LAMBDA n : Scaled(One, UnitPair(IF n \in DOMAIN Stem THEN Stem[n] ELSE n, One))).units

SignedMagnitude(r) == r   \* mutant: the sign is left on
Magnitude(r) == <<Abs(r[1]), r[2]>>
InRange(r) == AtMost(One, Magnitude(r)) /\ ~AtMost(Whole(1000), Magnitude(r))

\* |log10 a - 1.5|, compared without logarithms: the square root of 1000 is the middle.
Nearer(r, s) ==
  LET a == Magnitude(r)
      b == Magnitude(s)
      above(x) == \* 31^2 < 1000 < 32^2
        AtMost(Whole(32), x) \/ (AtMost(Whole(31), x) /\ AtMost(Whole(1000), Times(x, x)))
  IN  IF above(a) THEN IF above(b) THEN ~AtMost(b, a) ELSE ~AtMost(Whole(1000), Times(a, b))
      ELSE IF above(b) THEN ~AtMost(Times(a, b), Whole(1000)) ELSE ~AtMost(a, b)
Better(r, s) ==
  \/ InRange(r) /\ ~InRange(s)
  \/ (InRange(r) <=> InRange(s)) /\ Nearer(r, s)

\* The prefixes tried on the name n: those that parse, in their order, and none.
Tried(n) == SelectSeq(siPrefixOrder, LAMBDA p : p.name = "" \/ <<p.name, n>> \in DOMAIN Prefixed)

CompactFrom(got, target) ==
  LET mag(p) == Over(got.mag, Power(p.value, got.units[target]))
      tried == Tried(target)
      best == CHOOSE i \in DOMAIN tried :
                \A j \in DOMAIN tried :
                  \/ Better(mag(tried[i]), mag(tried[j]))
                  \/ ~Better(mag(tried[j]), mag(tried[i])) /\ i <= j
      p == tried[best]
  IN  Quantity(mag(p), IF p.name = "" THEN got.units
                       ELSE Rename(got.units, target, Prefixed[<<p.name, target>>]))

ToCompact(q) ==
  {LET positive == {n \in Names(got.units) : AtMost(Zero, got.units[n])}
   IN  IF got.mag = Zero \/ positive = {} THEN got
       ELSE CompactFrom(got, CHOOSE n \in positive : \A m \in positive : Rank[n] <= Rank[m]) :
     got \in ToUnits(q, InferBaseUnit(q.units))}
=============================================================================
