--------------------------- MODULE RegistryQueries ---------------------------
(***************************************************************************)
(* What callers ask of a registry that is loaded, or half loaded: the      *)
(* factor between two units (convert.go), the units compatible with a unit *)
(* and its amount in the units of a system (extra.go).  Whatever is asked  *)
(* is remembered in four caches, and the prefixed units that it comes by   *)
(* become units of the registry.  One call runs at a time; no context is   *)
(* enabled.  UnitAmounts says what the answers should be.                  *)
(***************************************************************************)
EXTENDS DefinitionLoading

CONSTANTS
  Asked,     \* spellings of units that callers ask about
  Place      \* names of groups and systems that they ask about, Missing for none

ASSUME AskingAssumption == Asked \subseteq STRING \ {Missing}

-----------------------------------------------------------------------------
(* Answers *)

\* parseUnits of a single name.
ParseUnits(n) == IF n \in DOMAIN parseCache THEN parseCache[n] ELSE GetName(n)

\* rootUnits: a factor to root units that have an offset is no number, if that is checked.
IsOffset(g) == g \in DOMAIN byName /\ byName[g].offset # Zero
Checked(s) == IF \E g \in Names(s.units) : IsOffset(g) THEN [s EXCEPT !.scale = Inexact] ELSE s
RootUnits(u, check) ==
  IF u \in DOMAIN rootCache THEN Answer(rootCache[u])
  ELSE LET found == Follow(RootEntries, u)
       IN  IF check /\ found.end = "answered" THEN Answer(Checked(found.is)) ELSE found

Mismatch == [end |-> "mismatch"]
SameDimension(u, v) == Dimensionality(u).end = "answered" /\ Dimensionality(v) = Dimensionality(u)
ConversionFactor(src, dst) ==
  IF <<src, dst>> \in DOMAIN convCache THEN Answer(Dimensionless(convCache[<<src, dst>>]))
  ELSE IF SameDimension(src, dst) THEN RootUnits(Div(src, dst), TRUE) ELSE Mismatch

\* Two containers are reduced to their dimensions one after the other.
InTurn(src, dst) == IF Dimensionality(src).end = "answered" THEN {src, dst} ELSE {src}

\* What a call leaves behind that parses the spellings ns and asks for the dimensions of us,
\* the root units of vs and the factors of pairs: all that was answered is remembered.
Looked(ns, us, vs, pairs) ==
  LET read == {n \in ns : ParseUnits(n) # Missing}
      new == pairs \ DOMAIN convCache
      dims == us \cup UNION {InTurn(p[1], p[2]) : p \in new}
      ratios == {Div(p[1], p[2]) : p \in {q \in new : SameDimension(q[1], q[2])}}
      root(u) == RootUnits(u, u \in ratios)
      roots == vs \cup ratios
  IN  /\ Intern((read \ DOMAIN parseCache) \cup Measured(dims)
                \cup UNION {Met(RootEntries, u) : u \in roots \ DOMAIN rootCache})
      /\ parseCache' = [n \in DOMAIN parseCache \cup read |-> ParseUnits(n)]
      /\ dimCache' = Cached({u \in dims : Dimensionality(u).end = "answered"})
      /\ rootCache' = [u \in DOMAIN rootCache \cup {u \in roots \ {Empty} : root(u).end = "answered"}
                         |-> root(u).is]
      /\ convCache' = [p \in DOMAIN convCache \cup
                               {p \in new : ConversionFactor(p[1], p[2]).end = "answered"}
                         |-> ConversionFactor(p[1], p[2]).is.scale]
      /\ pc' = IF \/ \E u \in dims : Dimensionality(u) = Overflow
                  \/ \E u \in roots : root(u) = Overflow
               THEN "crashed" ELSE pc
      /\ UNCHANGED <<prefixes, dimensions, blocks, pending, stale, text, parsed, strays, lines,
                     loads>>

-----------------------------------------------------------------------------
(* Converter *)

\* An offset unit is replaced by its reference; convertIn refuses a difference beside it.
Unshifted(g) == IF IsOffset(g) THEN byName[g].reference ELSE UnitPair(g, One)
HasDelta(u) == Names(u) \cap {DeltaName[n] : n \in Identifier} # {}
Clash(a, b) == \/ IsOffset(a) /\ HasDelta(UnitPair(b, One))
               \/ IsOffset(b) /\ HasDelta(Unshifted(a))

Convert(n, m) ==
  /\ Call
  /\ LET a == ParseUnits(n)
         b == ParseUnits(m)
         src == UnitPair(a, One)
         dst == UnitPair(b, One)
         differ == a # Missing /\ b # Missing /\ a # b
         affine == differ /\ (IsOffset(a) \/ IsOffset(b))
         refused == affine /\ (~SameDimension(src, dst) \/ Clash(a, b))
     IN  Looked(IF a = Missing THEN {} ELSE {n, m},
                IF affine THEN InTurn(src, dst) ELSE {},
                {},
                IF differ /\ ~refused THEN {<<Unshifted(a), Unshifted(b)>>} ELSE {})

-----------------------------------------------------------------------------
(* CompatibleUnits *)

\* The names to choose from.  A group hides a system of its name.
Pool(where) ==
  IF where = Missing THEN DOMAIN byName
  ELSE IF where \in DOMAIN groups THEN Expanded(groups, where)
  ELSE IF where \notin DOMAIN systems THEN {}
  ELSE LET using == systems[where].using
       IN  UNION {Expanded(groups, g) : g \in IF using = << >> THEN {Root}
                                              ELSE ToSet(using) \cap DOMAIN groups}

DimensionOfName(n) == Dimensionality(UnitPair(n, One))

CompatibleUnits(n, where) ==
  LET dim == DimensionOfName(ParseUnits(n))
  IN  {m \in Pool(where) : dim.end = "answered" /\ DimensionOfName(m) = dim}

AskCompatible(n, where) ==
  /\ Call
  /\ LET a == ParseUnits(n)
         found == DimensionOfName(a).end = "answered"
     IN  Looked({n},
                {UnitPair(m, One) : m \in ({a} \ {Missing}) \cup IF found THEN Pool(where) ELSE {}},
                {}, {})

-----------------------------------------------------------------------------
(* BaseUnits *)

\* systemReplacement: the first rule of the dimension of a root unit, or the unit.
Fits(rule, root) ==
  /\ ParseUnits(rule) # Missing
  /\ SameDimension(UnitPair(root, One), UnitPair(ParseUnits(rule), One))
RulesTried(rules, root) ==
  {i \in DOMAIN rules : DimensionOfName(root).end = "answered"
                        /\ \A j \in 1..(i - 1) : ~Fits(rules[j], root)}
SystemReplacement(rules, root) ==
  LET fit == SelectSeq(rules, LAMBDA rule : Fits(rule, root))
  IN  IF fit = << >> THEN root ELSE Head(fit)

\* A root unit to a power in the unit that replaces it; it stays what it is where there is
\* no factor.
ReplacedOnce(n, e, new) ==   \* mutant: the factor is not raised to the power
  LET unit == UnitPair(ParseUnits(new), One)
      f == ConversionFactor(UnitPair(n, One), unit)
  IN  IF new = n \/ f.end # "answered" THEN Scaled(One, UnitPair(n, e))
      ELSE Scaled(f.is.scale, Pow(unit, e))
Replaced(n, e, new) ==
  LET unit == UnitPair(ParseUnits(new), One)
      f == ConversionFactor(UnitPair(n, One), unit)
  IN  IF new = n \/ f.end # "answered" THEN Scaled(One, UnitPair(n, e))
      ELSE Scaled(Power(f.is.scale, e), Pow(unit, e))

RootOfName(n) == RootUnits(UnitPair(ParseUnits(n), One), FALSE)

BaseUnits(n, system) ==
  LET root == RootOfName(n).is
  IN  IF system = Missing THEN root
      ELSE MapThenFoldSet(ScaledMul, Dimensionless(root.scale),
                          LAMBDA r : Replaced(r, root.units[r],
                                              SystemReplacement(systems[system].rules, r)),
                          LAMBDA R : CHOOSE r \in R : TRUE, Names(root.units))

AskBaseUnits(n, system) ==
  /\ Call
  /\ IF ParseUnits(n) = Missing THEN Looked({}, {}, {}, {})
     ELSE LET root == RootOfName(n)
              remapped == IF root.end = "answered" /\ system \in DOMAIN systems
                          THEN Names(root.is.units) ELSE {}
              rules == systems[system].rules
              tried == UNION {{rules[i] : i \in RulesTried(rules, r)} : r \in remapped}
              replaced == {r \in remapped : SystemReplacement(rules, r) # r}
          IN  Looked({n} \cup tried,
                     {UnitPair(r, One) : r \in remapped} \cup
                       {UnitPair(ParseUnits(t), One) : t \in {x \in tried : ParseUnits(x) # Missing}},
                     {UnitPair(ParseUnits(n), One)},
                     {<<UnitPair(r, One), UnitPair(ParseUnits(SystemReplacement(rules, r)), One)>> :
                        r \in replaced})

-----------------------------------------------------------------------------
Asking == \E n \in Asked :
            \/ \E m \in Asked : Convert(n, m)
            \/ \E where \in Place : AskCompatible(n, where) \/ AskBaseUnits(n, where)

Next == UNCHANGED onRedefinition /\ (Loading \/ Grouping \/ Asking)

Spec == Init /\ [][Next]_vars

-----------------------------------------------------------------------------
(* Properties *)

\* The definitions as UnitAmounts has them: a derived dimension is one more of them, and so
\* is whatever can be read, which stands for the unit that it is read as.
Derived == {d \in DOMAIN dimensions : ~dimensions[d].isBase}
StandsFor(n) ==
  IF GetName(n) = n THEN Named(n)
  ELSE [scale |-> One, offset |-> Zero, reference |-> UnitPair(GetName(n), One), isBase |-> FALSE]
Amounts == INSTANCE UnitAmounts WITH
  Catalog <- [n \in Rooted \cup Derived |-> IF n \in Derived THEN dimensions[n] ELSE StandsFor(n)],
  Dimension <- DOMAIN dimensions \ Derived

\* Names all of whose chains of references end in root units, within MaxDepth names; and
\* names with a chain that is longer, because it leads round in a circle or is just long.
UnitOf(n) == Named(GetName(n))
Complete ==
  LET within[k \in 0..MaxDepth] ==
        IF k = 0 THEN {}
        ELSE LET less == within[k - 1]
             IN  {n \in Rooted : UnitOf(n).isBase \/ Names(UnitOf(n).reference) \subseteq less}
  IN  within[MaxDepth]
Endless ==
  LET beyond[k \in 0..MaxDepth] ==
        IF k = 0 THEN STRING
        ELSE LET less == beyond[k - 1]
             IN  {n \in Rooted :
                    ~UnitOf(n).isBase /\ Names(UnitOf(n).reference) \cap less # {}}
  IN  beyond[MaxDepth]

\* Whatever texts have loaded, what can be read is reduced to root units exactly when its
\* references lead to them, and only a name with references that do not end fills the stack
\* of the process.
WalksEnd ==
  pc = "idle" =>
    LET complete == Complete
        endless == Endless
        entries == RootEntries
    IN  \A n \in Rooted :
          LET end == Follow(entries, UnitPair(n, One)).end
          IN  /\ end = "answered" <=> n \in complete
              /\ end = "overflow" => n \in endless

\* What is reduced to root units is reduced to the amount that references, prefixes and
\* plurals say.
WalksAnswer ==
  pc = "idle" =>
    LET entries == RootEntries
    IN  \A n \in Rooted :
          LET root == Follow(entries, UnitPair(n, One))
          IN  root.end = "answered" => root.is = Amounts!RootOf[n]

\* After a text that was loaded to its end, what the caches hold is what a registry that
\* remembers nothing would answer, although every question adds units to the registry.
CachesStayFresh ==
  pc = "idle" /\ ~stale =>
    LET entries == RootEntries
        root(u) == Follow(entries, u)
    IN  /\ \A n \in DOMAIN parseCache : parseCache[n] = GetName(n)
        /\ \A u \in DOMAIN dimCache : Follow(DimEntries, u) = Answer(Scaled(One, dimCache[u]))
        /\ \A u \in DOMAIN rootCache :
             root(u).end = "answered" /\ rootCache[u] \in {root(u).is, Checked(root(u).is)}
        /\ \A p \in DOMAIN convCache :
             LET ratio == root(Div(p[1], p[2]))
             IN  /\ ratio.end = "answered"
                 /\ convCache[p] \in {ratio.is.scale, Checked(ratio.is).scale}

\* Every conversion ends: no reference leads round in a circle.
AllGrounded == DOMAIN byName \cap Endless = {}

\* Expanded finds the members of exactly the groups that are included, at any distance,
\* also when texts have made a circle of groups or used groups that are not there.
ExpandedIsInclusion ==
  pc = "idle" =>
    \A g \in DOMAIN groups :
      LET included == {h \in DOMAIN groups : Includes(groups, g, h)}
      IN  Expanded(groups, g) = UNION {groups[h].members : h \in included}

\* The group root stands for what texts defined: a unit has as many compatible units in root
\* as in all, but for the differences of units that are, or once were, offset units and for
\* prefixed units that were asked about; and in no group or system has it others than in
\* root and in all, but for names that AddUnits put there.
RootCoversRegistry ==
  pc = "idle" /\ AllGrounded =>
    \A n \in DOMAIN byName :
      LET all == CompatibleUnits(n, Missing)
          root == CompatibleUnits(n, Root)
      IN  /\ all \subseteq root \cup {DeltaName[m] : m \in DOMAIN byName \cap Identifier} \cup FullNames
          /\ \A where \in (DOMAIN groups \cup DOMAIN systems) \ {Missing} :
               CompatibleUnits(n, where) \subseteq root \cap (all \cup strays)

\* A unit is as much in the base units of a system as it is, while the caches are those of
\* the definitions: whatever rules the system has, whichever of them are read, whichever
\* are passed over in silence, and whatever was asked before.
BaseUnitsKeepAmount ==
  pc = "idle" /\ ~stale /\ AllGrounded =>
    \A n \in Complete : \A system \in DOMAIN systems :
      LET base == BaseUnits(n, system)
      IN  ScaledMul(Dimensionless(base.scale), Amounts!RootUnits(base.units)) = Amounts!RootOf[n]
=============================================================================
