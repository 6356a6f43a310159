--------------------------- MODULE MCUnitCatalog ---------------------------
(***************************************************************************)
(* Definition files for UnitCatalog: prefixes and metric units, an offset  *)
(* and a logarithmic unit, lines that clash with what is loaded or claim a *)
(* name that a lookup may have interned, and several names of one product. *)
(***************************************************************************)
EXTENDS UnitCatalog

MCToken == {"kilo", "k", "milli", "m", "meter", "metre", "s", "second", "inch",
            "K", "kelvin", "C", "celsius", "dB", "yard", "knot", "kt", "mps",
            "delta_", "Delta", "[length]", "[time]", "[temperature]", "dimensionless"}
MCLetter == {"k", "m", "s", "K", "C"}

Unit(name, symbol, aliases, type, scale, ref) ==
  [kind |-> "unit",
   def |-> [name |-> name, symbol |-> symbol, aliases |-> aliases, type |-> type,
            scale |-> scale, ref |-> ref, prefix |-> Blank]]
Prefix(name, symbol, scale) ==
  [kind |-> "prefix", def |-> [name |-> name, symbol |-> symbol, aliases |-> << >>,
                               scale |-> scale]]
One(n) == [x \in {<<n>>} |-> 1]
Per(m, n) == [x \in {<<m>>, <<n>>} |-> IF x = <<m>> THEN 1 ELSE -1]

Metric == <<Prefix(<<"kilo">>, <<"k">>, 1000), Prefix(<<"milli">>, <<"m">>, 2),
            Unit(<<"meter">>, <<"m">>, <<<<"metre">>>>, "base", 1, One("[length]")),
            Unit(<<"second">>, <<"s">>, << >>, "base", 1, One("[time]"))>>
Thermal == <<Unit(<<"kelvin">>, <<"K">>, << >>, "base", 1, One("[temperature]")),
             Unit(<<"celsius">>, <<"C">>, << >>, "offset", 1, One("kelvin")),
             Unit(<<"dB">>, Blank, << >>, "log", 1, One("meter"))>>

\* A unit of a prefixed unit, and one whose symbol is taken: yard is refused half way.
Yard == <<Unit(<<"knot">>, Blank, << >>, "scale", 2, [x \in {<<"milli", "meter">>} |-> 1]),
          Unit(<<"yard">>, <<"m">>, << >>, "scale", 1, One("meter"))>>
\* A name and a symbol that lookups may have interned, or read as milli + second.
Kilometer == <<Unit(<<"kilo", "meter">>, <<"m", "s">>, << >>, "scale", 1000, One("meter"))>>
\* A delta unit's symbol taken in advance or its name afterwards, and a logarithmic
\* unit that becomes another one.
Interval == <<Unit(<<"kt">>, <<"Delta", "C">>, << >>, "scale", 1, One("kelvin")),
              Unit(<<"delta_", "celsius">>, Blank, << >>, "scale", 2, One("kelvin")),
              Unit(<<"dB">>, Blank, << >>, "scale", 1, One("meter"))>>
\* The binary kilo, after an alias.
Binary == <<[kind |-> "alias", name |-> <<"metre">>, aliases |-> <<<<"k", "m">>>>],
            Prefix(<<"kilo">>, <<"K">>, 1024)>>
\* An alias of a unit that may not be there, a dimension that may, a malformed line.
Malformed == <<[kind |-> "alias", name |-> <<"second">>, aliases |-> <<<<"inch">>>>],
               [kind |-> "dimension", name |-> <<"[length]">>], [kind |-> "bad"]>>
\* Two and three names of one product, one of them scaled.
Speeds == <<Unit(<<"mps">>, Blank, << >>, "scale", 1, Per("meter", "second")),
            Unit(<<"knot">>, Blank, << >>, "scale", 2, Per("meter", "second"))>>
Aliases == <<Unit(<<"yard">>, Blank, << >>, "scale", 1, Per("meter", "second")),
             Unit(<<"inch">>, Blank, << >>, "scale", 1, Per("meter", "second")),
             Unit(<<"mps">>, Blank, << >>, "scale", 1, Per("meter", "second"))>>

CatalogFiles == {Metric, Thermal, Yard, Kilometer, Interval, Binary, Malformed,
                 Speeds, Aliases}
BothPolicies == {"raise", "ignore"}

Term(name) == <<<<name, 1>>>>
Power(name) == <<<<name, 2>>>>
CatalogLookups == {Term(<<"k", "m">>), Term(<<"kilo", "meter", "s">>), Term(<<"k", "C">>),
                   Term(<<"m", "s">>), Power(<<"C">>), Power(<<"dB">>),
                   <<<<<<"m">>, 1>>, <<<<"metre">>, -1>>>>,
                   <<<<<<"meter">>, 1>>, <<<<"dimensionless">>, 1>>, <<<<"s">>, -1>>>>}
=============================================================================
