------------------------- MODULE MCConversionCaches -------------------------
(***************************************************************************)
(* A small catalog for ConversionCaches.  liter is decimeter ** 3, so the  *)
(* first walk over liter interns the prefixed unit decimeter, as parsing   *)
(* "dm**3" does; degC and K convert through convertIn; dBm is logarithmic. *)
(* "revised" gives liter another size and adds the unit that "furlong"     *)
(* names.                                                                  *)
(***************************************************************************)
EXTENDS ConversionCaches

CONSTANTS g1, g2

MCGoroutine == {g1, g2}
MCCatalog == {"default", "revised"}
MetricExpr == {"liter", "dm**3", "m**3", "s"}
AffineExpr == {"s", "degC", "degC**2", "delta_degC", "K", "dBm", "furlong"}
MetricContainer == {"1", "liter", "dm3", "m3", "s", "liter/m3", "other"}
AffineContainer ==
  {"1", "s", "degC", "degC**2", "delta_degC", "K", "dBm", "mW", "furlong", "other"}
MCName == {"decimeter"}
MCDim == {"[]", "[length]**3", "[time]", "[temperature]", "[temperature]**2",
          "[power]", "[length]"}
MCFactor == {"1", "1e-3", "2e-3", "?"}

Volumes == {"liter", "dm3", "m3"}
Metric == {"liter", "dm3", "liter/m3"}

MCParseOf ==
  [c \in Catalog |->
    [e \in Expr |->
      CASE e = "dm**3" -> "dm3"
        [] e = "m**3" -> "m3"
        [] e = "furlong" /\ c = "default" -> Undefined
        [] OTHER -> e]]

MCInternsOf ==
  [c \in Catalog |->
    [e \in Expr |-> IF e = "dm**3" THEN <<"decimeter">> ELSE << >>]]

MCWalkOf ==
  [c \in Catalog |->
    [u \in Container |-> IF u \in Metric THEN <<"decimeter">> ELSE << >>]]

\* A walk that skips decimeter finds no length in liter or in dm**3.
MCDimOf ==
  [c \in Catalog |->
    [u \in Container |->
      [S \in SUBSET Name |->
        CASE u \in Volumes -> IF u \in Metric /\ S # {} THEN "[]" ELSE "[length]**3"
          [] u = "s" -> "[time]"
          [] u \in {"degC", "delta_degC", "K"} -> "[temperature]"
          [] u = "degC**2" -> "[temperature]**2"
          [] u \in {"dBm", "mW"} -> "[power]"
          [] u = "furlong" -> "[length]"
          [] OTHER -> "[]"]]]

MCFactorOf ==
  [c \in Catalog |->
    [u \in Container |->
      CASE u = "1" -> "1"
        [] u = "liter/m3" -> IF c = "default" THEN "1e-3" ELSE "2e-3"
        [] OTHER -> "?"]]

MCRatio ==
  [u \in Container |->
    [v \in Container |->
      CASE u = v -> "1"
        [] u = "liter" /\ v = "m3" -> "liter/m3"
        [] OTHER -> "other"]]

MCOffsetOf == [c \in Catalog |-> {"degC", "degC**2", "dBm"} \cap Container]
MCLogOf == [c \in Catalog |-> {"dBm"} \cap Container]
MCInvalidOf == [c \in Catalog |-> {"degC**2"} \cap Container]
MCDeltaMixOf ==
  [c \in Catalog |-> {<<"degC", "delta_degC">>} \cap (Container \X Container)]
MCRefOf == [c \in Catalog |->
             [u \in Container |-> CASE u = "degC" -> "K" [] u = "dBm" -> "mW"
                                      [] OTHER -> u]]
MCHeaderOf ==
  [c \in Catalog |-> IF c = "default" \/ "liter" \notin Container THEN "1" ELSE "liter"]

Req(op, from, to) == [op |-> op, from |-> from, to |-> to]

\* Calls that intern decimeter: by a walk over liter, while parsing, and by the walk
\* that finds a mismatch.
MetricRequests ==
  {Req("convert", "liter", "m**3"), Req("dimensionality", "dm**3", "dm**3"),
   Req("convert", "liter", "s")}

\* Offset and logarithmic operands, operands convertIn refuses, equal operands and
\* an unknown one.
AffineRequests ==
  {Req("converter", "degC", "K"), Req("convert", "degC", "delta_degC"),
   Req("convert", "degC**2", "K"),
   Req("converter", "dBm", "s"), Req("convert", "dBm", "K"),
   Req("converter", "K", "K"), Req("convert", "furlong", "s")}

=============================================================================
