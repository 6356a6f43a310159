---------------------------- MODULE MCDefinitions ----------------------------
(***************************************************************************)
(* Texts for RegistryQueries.  The default file has lengths, an area, a    *)
(* group, a system, a context and the prefix kilo; the lines that a text   *)
(* is made of clash with them, go round in circles, mean something else in *)
(* every block, or define what was read with the prefix or as a plural.    *)
(***************************************************************************)
EXTENDS RegistryQueries, TLC

U(name, value) == [is |-> "unit", name |-> name, value |-> value, offset |-> Zero]
Celsius == [U("degC", "K") EXCEPT !.offset = Whole(5)]
Is(kind, name) == [is |-> kind, name |-> name]
Header(kind, name, using) == [is |-> kind, name |-> name, using |-> using]
Context(names_) == [is |-> "context", names |-> names_]
Relation(src, dst, both) == [is |-> "relation", src |-> src, dst |-> dst, bidirect |-> both]
Alias(name, alias) == [is |-> "alias", name |-> name, aliases |-> <<alias>>]
Kilo(scale) == [is |-> "prefix", name |-> "kilo", scale |-> Whole(scale)]
End == [is |-> "end"]
Import(file) == [is |-> "import", file |-> file]

\* Other values, such as the name of a group, are units that are not defined.
MCMeaning ==
  [v \in {"m", "ft", "yd", "K", "us", "[L]", "[A]", "[T]", "3 m", "3 km", "3 fts", "2 yd^2", "[L]^2"} |->
     CASE v = "3 m" -> Scaled(Whole(3), UnitPair("m", One))
       [] v = "3 km" -> Scaled(Whole(3), UnitPair("km", One))
       [] v = "3 fts" -> Scaled(Whole(3), UnitPair("fts", One))
       [] v = "2 yd^2" -> Scaled(Whole(2), UnitPair("yd", Whole(2)))
       [] v = "[L]^2" -> Scaled(One, UnitPair("[L]", Whole(2)))
       [] OTHER -> Scaled(One, UnitPair(v, One))]
MCIdentifier == {"m", "km", "ft", "yd", "acre", "K", "degC", "delta_degC", "group"}
MCBracketed == {"[L]", "[A]", "[T]"}
MCDeltaName == [n \in MCIdentifier |-> IF n = "degC" THEN "delta_degC" ELSE "delta_other"]

\* km can be read as kilo and m, kdegC as kilo and degC, and their full names as well.
Core == [kilom |-> "m", kilokm |-> "km", kiloft |-> "ft", kiloyd |-> "yd", kiloacre |-> "acre",
         kiloK |-> "K", kilodegC |-> "degC", kilodelta_degC |-> "delta_degC",
         kilodelta_other |-> "delta_other", kilogroup |-> "group",
         km |-> "m", kms |-> "m", kdegC |-> "degC"]
MCSplit == [n \in DOMAIN Core |-> [prefix |-> "kilo", core |-> Core[n]]]
MCPlural == [fts |-> "ft", kms |-> "km"]
MCPrefixedName ==
  [x \in {"kilo"} \X (MCIdentifier \cup {"delta_other"}) |-> x[1] \o x[2]]

MCEmbedded ==
  "default" :> <<U("m", "[L]"), Import("constants"), Header("group", "imp", << >>),
                 U("ft", "3 m"), U("acre", "2 yd^2"),
                 Header("group", "uk", <<"imp">>), End,
                 Header("system", "imp", <<"imp">>), Is("rule", "yd"),
                 Context(<<"c">>), Relation("[L]", "[A]", TRUE)>> @@
  "constants" :> <<Kilo(10), U("K", "[T]"),
                   [is |-> "derived", name |-> "[A]", value |-> "[L]^2"]>>

\* Texts of every kind, and calls on groups.
TextLine ==
  {U("m", "[L]"), U("yd", "3 fts"), U("ft", "yd"), Celsius, U("degC", "K"), U("group", "us"),
   U("acre", "4 *"), Kilo(20),
   Is("dimension", "[A]"), [is |-> "derived", name |-> "[L]", value |-> "[A]"],
   Alias("m", "metre"), Is("word", "degC"),
   Relation("[A]", "[L]", FALSE),
   Header("group", "us", <<"uk">>), Header("group", "imp", <<"us">>), Header("group", "", << >>),
   Header("system", "us", << >>),
   Context(<<"d", "e">>), [is |-> "defaults"], End, Import("other")}
TextInclusion == {<<"us">>, <<"imp", "us">>, <<Root>>}
TextStray == {"ft", "metre"}

\* Questions between texts that define, or fail to define, what was asked about.
QueryLine ==
  {U("yd", "3 fts"), U("yd", "3 km"), U("km", "ft"), U("ft", "yd"), Celsius,
   [is |-> "derived", name |-> "[L]", value |-> "[A]"]}
QueryStray == {"fts"}
QueryAsked == {"km", "ft", "degC", "K"}
QueryPlace == {Missing, "imp"}
MCPolicy == {"raise", "ignore"}
=============================================================================
