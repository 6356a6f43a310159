---------------------------- MODULE UnitAmounts ----------------------------
(***************************************************************************)
(* What units stand for: converters (converters.go), and the dimensions    *)
(* and root units that dimRecurse and rootRecurse (convert.go) find by     *)
(* following references.  The definitions are a constant.                  *)
(***************************************************************************)
EXTENDS UnitsContainers

CONSTANTS
  Catalog,     \* [name -> definition]: scale, offset, logbase, logfactor, isBase, reference
  Dimension    \* base dimensions

ASSUME CatalogAssumption ==
  \A n \in DOMAIN Catalog :
    /\ IsContainer(Catalog[n].reference)
    /\ Catalog[n].isBase => Names(Catalog[n].reference) \subseteq Dimension

-----------------------------------------------------------------------------
(* converters.go *)

\* converterFromModifiers: an offset wins over a logarithm.
IsOffset(d) == d.offset # Zero
IsLogarithmic(d) == ~IsOffset(d) /\ d.logbase # Zero
IsMultiplicative(d) == ~IsOffset(d) /\ ~IsLogarithmic(d)

\* Levels of the model are whole powers of the base, up to MaxPower.
MaxPower == 12
Exp(base, p) == IF Abs(p[1]) > MaxPower THEN Inexact ELSE Power(base, p)
Log(r, base) ==
  LET p == {k \in -MaxPower..MaxPower : Power(base, Whole(k)) = r}
  IN  IF p = {} THEN Inexact ELSE Whole(CHOOSE k \in p : TRUE)

ToReference(d, v) ==
  IF IsLogarithmic(d) THEN Times(d.scale, Exp(d.logbase, Over(v, d.logfactor)))
  ELSE Plus(Times(v, d.scale), d.offset)
FromReference(d, v) ==
  IF IsLogarithmic(d) THEN Times(d.logfactor, Log(Over(v, d.scale), d.logbase))
  ELSE Over(Minus(v, d.offset), d.scale)

-----------------------------------------------------------------------------
(* The catalog *)

Defined(u) == Names(u) \subseteq DOMAIN Catalog
NonMult(u) == {n \in Names(u) \cap DOMAIN Catalog : ~IsMultiplicative(Catalog[n])}
HasLogarithmic(u) == \E n \in NonMult(u) : IsLogarithmic(Catalog[n])

\* dimRecurse and rootRecurse.
DimOf[n \in DOMAIN Catalog \cup Dimension] ==
  IF n \in Dimension THEN Scaled(One, UnitPair(n, One))
  ELSE Product(Catalog[n].reference, LAMBDA m : DimOf[m])
RootOf[n \in DOMAIN Catalog] ==
  IF Catalog[n].isBase THEN Scaled(One, UnitPair(n, One))
  ELSE ScaledMul(Dimensionless(Catalog[n].scale),
                 Product(Catalog[n].reference, LAMBDA m : RootOf[m]))

Dimensionality(u) == Product(u, LAMBDA n : DimOf[n]).units
RootUnits(u) == Product(u, LAMBDA n : RootOf[n])
ConversionFactor(src, dst) == RootUnits(Div(src, dst)).scale
=============================================================================
