---------------------------- MODULE MCCalculator ----------------------------
(***************************************************************************)
(* A catalog for Calculator: lengths with prefixes, two temperature scales *)
(* with their differences, a logarithm of a number and one of a power.     *)
(* Offsets and sizes are small numbers.                                    *)
(***************************************************************************)
EXTENDS Calculator, TLC

MCDimension == {"[length]", "[temperature]", "[power]"}

Scaling(scale, ref) ==
  [scale |-> scale, offset |-> Zero, logbase |-> Zero, logfactor |-> One,
   isBase |-> FALSE, reference |-> UnitPair(ref, One)]
Base(dim) == [Scaling(One, dim) EXCEPT !.isBase = TRUE]
Affine(scale, offset, ref) == [Scaling(scale, ref) EXCEPT !.offset = offset]
Logarithmic(scale, factor, u) ==
  [scale |-> scale, offset |-> Zero, logbase |-> Whole(2), logfactor |-> factor,
   isBase |-> FALSE, reference |-> u]

MCCatalog ==
  "m" :> Base("[length]") @@ "dam" :> Scaling(Whole(10), "m") @@
  "dm" :> Scaling(Fraction(1, 10), "m") @@
  "K" :> Base("[temperature]") @@ "C" :> Affine(One, Whole(3), "K") @@
  "F" :> Affine(Fraction(1, 2), Whole(2), "K") @@
  "delta_C" :> Scaling(One, "K") @@ "delta_F" :> Scaling(Fraction(1, 2), "K") @@
  "W" :> Base("[power]") @@ "oct" :> Logarithmic(One, One, Empty) @@
  "B" :> Logarithmic(Whole(2), Whole(2), UnitPair("W", One))

MCDelta == [n \in DOMAIN MCCatalog |->
  CASE n = "C" -> "delta_C" [] n = "F" -> "delta_F" [] n = "oct" -> "delta_oct"
    [] n = "B" -> "delta_B" [] OTHER -> "delta_other"]
MCStem == [n \in DOMAIN MCCatalog |-> IF n \in {"dam", "dm"} THEN "m" ELSE n]
MCPrefixed == <<"deca", "m">> :> "dam" @@ <<"deci", "m">> :> "dm"
MCOrder == <<"B", "C", "F", "K", "W", "dam", "delta_B", "delta_C", "delta_F", "delta_oct",
             "dm", "m", "oct">>
MCRank == [n \in DOMAIN MCCatalog \cup {"delta_B", "delta_oct"} |->
             CHOOSE i \in DOMAIN MCOrder : MCOrder[i] = n]
MCsiPrefixOrder ==
  <<[name |-> "hecto", value |-> Whole(100)], [name |-> "deca", value |-> Whole(10)],
    [name |-> "", value |-> One],
    [name |-> "deci", value |-> Fraction(1, 10)], [name |-> "centi", value |-> Fraction(1, 100)]>>

MCNumber == {One, Whole(2)}
MCIdent == {"m", "celsius", "dimensionless"}
MCSpelling == "m" :> "m" @@ "celsius" :> "C" @@ "dimensionless" :> ""
U(n) == UnitPair(n, One)
MCStock == {Quantity(Whole(4), U(n)) : n \in {"C", "F", "K", "delta_F", "oct", "B"}}
           \cup {Quantity(Whole(6), Empty), Quantity(One, Mul(U("C"), U("m"))),
                 Quantity(Whole(3), Mul(U("delta_C"), U("m")))}
MCCompanions ==
  {<<Quantity(One, a), Quantity(One, b)>> :
     a \in {Pow(U("m"), Whole(2)), Div(U("m"), U("K"))}, b \in {U("K"), Empty, Mul(U("W"), U("m"))}}
MCExponents == {One, Whole(2), Whole(-1)}
MCFactors == {Whole(300)}
MCMagnitudes == {Whole(8)}
=============================================================================
