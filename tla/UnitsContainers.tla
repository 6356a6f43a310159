-------------------------- MODULE UnitsContainers --------------------------
(***************************************************************************)
(* Products of named powers (unitscontainer.go): a function from the names *)
(* of units or dimensions to exponents, none of them zero.  The code keeps *)
(* the items sorted by name so that equal products have equal items, keys  *)
(* and strings; a function has no order to keep.                           *)
(***************************************************************************)
EXTENDS Rationals, FiniteSets, FiniteSetsExt

Empty == << >>
Names(u) == DOMAIN u
Get(u, n) == IF n \in DOMAIN u THEN u[n] ELSE Zero

NewKeepingZeros(m) == m   \* mutant

\* NewUnitsContainer drops the zero exponents.
NewUnitsContainer(m) == [n \in {x \in DOMAIN m : m[x] # Zero} |-> m[n]]

UnitPair(n, e) == NewUnitsContainer([x \in {n} |-> e])

Mul(u, o) == NewUnitsContainer([n \in Names(u) \cup Names(o) |-> Plus(Get(u, n), Get(o, n))])
Div(u, o) == NewUnitsContainer([n \in Names(u) \cup Names(o) |-> Minus(Get(u, n), Get(o, n))])
Pow(u, p) == NewUnitsContainer([n \in Names(u) |-> Times(u[n], p)])
Without(u, n) == [x \in Names(u) \ {n} |-> u[x]]
Rename(u, old, new) ==
  IF old \in Names(u) THEN Mul(Without(u, old), UnitPair(new, u[old])) ELSE u

IsContainer(u) == \A n \in Names(u) : IsRational(u[n]) /\ u[n] # Zero

-----------------------------------------------------------------------------
(* ScaledUnits (expr.go): a number times a container *)

Scaled(s, u) == [scale |-> s, units |-> u]
Dimensionless(s) == Scaled(s, Empty)
ScaledMul(a, b) == Scaled(Times(a.scale, b.scale), Mul(a.units, b.units))
ScaledDiv(a, b) == Scaled(Over(a.scale, b.scale), Div(a.units, b.units))
ScaledPow(a, p) == Scaled(Power(a.scale, p), Pow(a.units, p))
ScaledNeg(a) == Scaled(Neg(a.scale), a.units)

\* The product of meaning[n] to the power u[n] over the names of u.
Product(u, meaning(_)) ==
  MapThenFoldSet(ScaledMul, Dimensionless(One), LAMBDA n : ScaledPow(meaning(n), u[n]),
                 LAMBDA S : CHOOSE n \in S : TRUE, Names(u))
=============================================================================
