-------------------------- MODULE MCContextScopes --------------------------
(***************************************************************************)
(* Contexts over three dimensions: spectroscopy (length and frequency, an   *)
(* inverse), energy (frequency to energy, a scale or a shift), chemistry   *)
(* (length and energy, by a parameter that must carry a dimension) and a   *)
(* square.                                                                 *)
(***************************************************************************)
EXTENDS ContextScopes

CONSTANT g1
OneGoroutine == {g1}
MCDim == {"1", "L", "F", "E"}

Tr(src, dst, eq) == [src |-> src, dst |-> dst, eq |-> eq]
Ctx(defaults, transforms) == [defaults |-> defaults, transforms |-> transforms]
NoParams == << >>

Sp == Ctx([p \in {"n"} |-> 1], <<Tr("L", "F", "inverse"), Tr("F", "L", "inverse")>>)
En == Ctx(NoParams, <<Tr("F", "E", "double")>>)
\* A second definition of energy, with another direction.
En2 == Ctx([p \in {"n"} |-> 3], <<Tr("F", "E", "shift"), Tr("E", "L", "double")>>)
\* The parameter must be a quantity of dimension L.
Chem == Ctx([p \in {"mw"} |-> 0], <<Tr("L", "E", "times"), Tr("E", "L", "minus")>>)
Square == Ctx(NoParams, <<Tr("L", "E", "square")>>)

MCContexts(en) ==
  [c \in {"sp", "en", "chem", "sq"} |->
     CASE c = "sp" -> Sp [] c = "en" -> en [] c = "chem" -> Chem [] OTHER -> Square]
MCCatalog == {MCContexts(En), MCContexts(En2)}

Use(name, params) == [name |-> name, params |-> params]
Quantity(mag, dim) == [mag |-> mag, dim |-> dim]
Par(p, mag, dim) == [x \in {p} |-> Quantity(mag, dim)]

MixedScopes ==
  {<<Use("sp", NoParams), Use("en", NoParams)>>,
   <<Use("chem", Par("mw", 2, "L"))>>, <<Use("chem", Par("mw", 3, "1"))>>,
   <<Use("sp", Par("mw", 1, "1"))>>, << >>}
PairScopes == {<<Use("sp", NoParams), Use("en", NoParams)>>}
SquareScopes == {<<Use("sq", NoParams)>>}
MCValue == {0, 2}
OneValue == {2}

\* What the equations come to.  24 stands for the speed of light.
MCEval(eq, vals, q) ==
  LET other == IF q.dim = "L" THEN "F" ELSE "L"
      amount(d) == IF vals["mw"].dim = "L" THEN d ELSE q.dim
      dim == CASE eq = "inverse" -> other
               [] eq = "double" -> IF q.dim = "F" THEN "E" ELSE "L"
               [] eq \in {"shift", "square"} -> "E"
               [] eq = "times" -> amount("E")
               [] eq = "minus" -> amount("L")
      mag == CASE eq = "inverse" -> IF q.mag * vals["n"].mag = 0 THEN Infinite
                                    ELSE 24 \div (q.mag * vals["n"].mag)
               [] eq = "double" -> 2 * q.mag
               [] eq = "shift" -> q.mag + vals["n"].mag
               [] eq = "square" -> q.mag * q.mag
               [] eq = "times" -> q.mag * vals["mw"].mag
               [] eq = "minus" -> q.mag - vals["mw"].mag
  IN  [mag |-> IF q.mag = Infinite THEN Infinite ELSE mag, dim |-> dim]

\* Every context with any of the values that a parameter is given or has by default.
MCBindings ==
  UNION {{[ctx |-> x, values |-> v] :
            v \in [DOMAIN x.defaults -> {Quantity(m, d) : m \in 0..3, d \in {"1", "L"}}]} :
         x \in Contexts}

\* So their dimensions do not depend on magnitudes, and none is refused: the hypothesis
\* EquationsKeepDimension, for scopes of one or two contexts and small magnitudes.
ASSUME EquationsAssumption ==
  \A a, b \in MCBindings :
    \A scope \in {<<a>>, <<a, b>>} : KeepsDimension(scope, 0..4 \cup {Infinite})
=============================================================================
