---------------------------- MODULE UnitCatalog ----------------------------
(***************************************************************************)
(* The definition maps of a Registry (registry.go): what Load and Define   *)
(* put in them line by line, what a refused line leaves behind, and what   *)
(* looking a name up adds.  Everything here runs under r.mu, so a step is  *)
(* one map assignment of the code and only a state with pc = "idle" can be *)
(* seen by a caller.                                                       *)
(*                                                                         *)
(* A name is a sequence of tokens, so that prefix, unit and plural can be  *)
(* glued and taken apart: <<"kilo", "meter", "s">>.  A container is a      *)
(* function from names to exponents.  The registry is case-sensitive, its  *)
(* default.                                                                *)
(***************************************************************************)
EXTENDS Integers, Sequences, FiniteSets, SequencesExt

CONSTANTS
  File,            \* definition texts: sequences of lines (Define: one line)
  Lookup,          \* unit expressions: sequences of <<name, exponent>>
  Policy,          \* values of the OnRedefinition option
  Token,           \* what names are glued from
  Letter,          \* tokens one character long
  MaxLoads         \* bound: Load and Define calls

Name == Seq(Token)

ASSUME OptionAssumption ==
  /\ Policy \subseteq {"raise", "warn", "ignore"} /\ MaxLoads \in Nat
  /\ {"delta_", "Delta"} \subseteq Token

VARIABLES
  onRedefinition,   \* r.onRedefinition, set once
  units,        \* r.units: name, symbol or alias -> definition
  byName,       \* r.unitByName: canonical name -> definition
  prefixes,     \* r.prefixes: spelling -> prefix
  prefixList,   \* r.prefixList
  dims,         \* r.dimensions
  parseCache,   \* r.parseCache: expression -> container
  unitByExpr,   \* r.unitByExpr: product -> name
  pc, task,     \* where the call in progress is, and its local variables
  loads,        \* Load and Define calls so far
  stale,        \* the last of them failed and rebuilt no cache
  refused       \* names whose registration stopped half way

registry == <<units, byName, prefixes, prefixList, dims>>
caches == <<parseCache, unitByExpr>>
vars == <<onRedefinition, registry, caches, pc, task, loads, stale, refused>>

Blank == << >>     \* no name: the empty prefix, an absent symbol
NoUnits == << >>   \* the empty container, and the empty map

Put(f, k, v) == [x \in DOMAIN f \cup {k} |-> IF x = k THEN v ELSE f[x]]

AddKeepingZero(u, n, e) ==   \* mutant
  Put(u, n, e + (IF n \in DOMAIN u THEN u[n] ELSE 0))

\* UnitsContainer.Add: exponents add up, and a zero one disappears.
Add(u, n, e) ==
  LET sum == e + (IF n \in DOMAIN u THEN u[n] ELSE 0)
  IN  IF sum = 0 THEN [x \in DOMAIN u \ {n} |-> u[x]] ELSE Put(u, n, sum)

-----------------------------------------------------------------------------
(* Definitions *)

\* type: "base", "scale", "offset" or "log"; prefix: of a synthesized unit.
Multiplicative(u) == u.type \in {"base", "scale"}

UnitKeys(u) == <<u.name>> \o (IF u.symbol \in {Blank, u.name} THEN << >> ELSE <<u.symbol>>)
               \o u.aliases
PrefixKeys(p) == <<p.name>> \o (IF p.symbol \in {Blank, p.name} THEN << >> ELSE <<p.symbol>>)
                 \o p.aliases

DeltaName(n) == <<"delta_">> \o n
DeltaRenamed(u) ==   \* mutant: the converter of the offset unit is kept
  [u EXCEPT !.name = DeltaName(u.name), !.symbol = Blank, !.aliases = << >>]

Delta(u) ==
  [name |-> DeltaName(u.name),
   symbol |-> IF u.symbol = Blank THEN Blank ELSE <<"Delta">> \o u.symbol,
   aliases |-> [i \in 1..(2 * Len(u.aliases)) |->
                  IF i % 2 = 1 THEN <<"Delta">> \o u.aliases[(i + 1) \div 2]
                  ELSE DeltaName(u.aliases[i \div 2])],
   type |-> "scale", scale |-> u.scale, ref |-> u.ref, prefix |-> Blank]

\* Its symbol is for display only: no key.
Synthesized(p, u) ==
  [name |-> p \o u, symbol |-> Blank, aliases |-> << >>, type |-> "scale",
   scale |-> prefixes[p].scale, ref |-> [n \in {u} |-> 1], prefix |-> p]

EmptyPrefix == [name |-> Blank, symbol |-> Blank, aliases |-> << >>, scale |-> 1]
NoTask == [lines |-> << >>, def |-> EmptyPrefix, keys |-> << >>,
           op |-> "none", expr |-> << >>, todo |-> << >>, out |-> NoUnits,
           left |-> {}, index |-> NoUnits, ambiguous |-> {}]

Init ==
  /\ onRedefinition \in Policy
  /\ units = NoUnits /\ byName = NoUnits
  /\ prefixes = [p \in {Blank} |-> EmptyPrefix] /\ prefixList = <<EmptyPrefix>>
  /\ dims = {} /\ parseCache = NoUnits /\ unitByExpr = NoUnits
  /\ pc = "idle" /\ task = NoTask
  /\ loads = 0 /\ stale = FALSE /\ refused = {}

\* redef: a taken name is an error, unless the registry was told to ignore it.
RefuseTaken(k, map) == onRedefinition = "raise" /\ k \in DOMAIN map

-----------------------------------------------------------------------------
(* Load and Define: one line after the other *)

Load(file) ==
  /\ pc = "idle" /\ loads < MaxLoads
  /\ pc' = "line" /\ task' = [NoTask EXCEPT !.lines = file]
  /\ loads' = loads + 1
  /\ UNCHANGED <<registry, caches, stale, refused>>

Line == Head(task.lines)
AtLine(kind) == pc = "line" /\ task.lines # << >> /\ Line.kind = kind
Rest == Tail(task.lines)

\* The call returns an error: what was registered stays and no cache is rebuilt.
Abandon == pc' = "idle" /\ task' = NoTask /\ stale' = TRUE

\* addUnit, addPrefix: a line that passed its checks is registered key by key.
BeginUnit ==
  /\ AtLine("unit")
  /\ pc' = "unit"
  /\ task' = [task EXCEPT !.lines = Rest, !.def = Line.def, !.keys = UnitKeys(Line.def)]
  /\ UNCHANGED <<registry, caches, loads, stale, refused>>

BeginPrefix ==
  /\ AtLine("prefix")
  /\ pc' = "prefix"
  /\ task' = [task EXCEPT !.lines = Rest, !.def = Line.def, !.keys = PrefixKeys(Line.def)]
  /\ UNCHANGED <<registry, caches, loads, stale, refused>>

\* addAliases looks its unit up by exact name and appends to the one definition all
\* spellings of the unit share, before it registers the first alias.
Shared(map, u, v) == [k \in DOMAIN map |-> IF map[k] = u THEN v ELSE map[k]]

BeginAlias ==
  /\ AtLine("alias")
  /\ IF Line.name \in DOMAIN units
     THEN LET u == units[Line.name]
              v == [u EXCEPT !.aliases = @ \o Line.aliases]
          IN  /\ units' = Shared(units, u, v) /\ byName' = Shared(byName, u, v)
              /\ pc' = "alias"
              /\ task' = [task EXCEPT !.lines = Rest, !.def = v, !.keys = Line.aliases]
              /\ UNCHANGED stale
     ELSE Abandon /\ UNCHANGED <<units, byName>>
  /\ UNCHANGED <<prefixes, prefixList, dims, caches, loads, refused>>

AddDimension ==
  /\ AtLine("dimension")
  /\ IF RefuseTaken(Line.name, [d \in dims |-> d])
     THEN Abandon /\ UNCHANGED dims
     ELSE /\ dims' = dims \cup {Line.name}
          /\ task' = [task EXCEPT !.lines = Rest]
          /\ UNCHANGED <<pc, stale>>
  /\ UNCHANGED <<units, byName, prefixes, prefixList, caches, loads, refused>>

\* A line addUnit refuses before it registers anything.
BadLine ==
  /\ AtLine("bad")
  /\ Abandon
  /\ UNCHANGED <<registry, caches, loads, refused>>

Key == Head(task.keys)
NextKey == task' = [task EXCEPT !.keys = Tail(task.keys)]

\* registerUnit: r.units[k] = u for every key, then r.unitByName[u.name] = u.
UnitKeyUnchecked ==   \* mutant: r.redef is not asked
  /\ pc = "unit" /\ task.keys # << >>
  /\ units' = Put(units, Key, task.def)
  /\ NextKey
  /\ UNCHANGED <<pc, stale, refused, byName, prefixes, prefixList, dims, caches, loads>>

UnitKey ==
  /\ pc = "unit" /\ task.keys # << >>
  /\ IF RefuseTaken(Key, units)
     THEN /\ Abandon /\ UNCHANGED units
          /\ refused' = IF task.keys = UnitKeys(task.def) THEN refused
                        ELSE refused \cup {task.def.name}
     ELSE /\ units' = Put(units, Key, task.def)
          /\ NextKey /\ UNCHANGED <<pc, stale, refused>>
  /\ UNCHANGED <<byName, prefixes, prefixList, dims, caches, loads>>

\* ... then the dimensions of a base unit, and the delta unit of an offset one.
UnitDone ==
  /\ pc = "unit" /\ task.keys = << >>
  /\ byName' = Put(byName, task.def.name, task.def)
  /\ dims' = IF task.def.type = "base" THEN dims \cup DOMAIN task.def.ref ELSE dims
  /\ IF task.def.type = "offset"
     THEN /\ pc' = "delta"
          /\ task' = [task EXCEPT !.def = Delta(task.def), !.keys = UnitKeys(Delta(task.def))]
     ELSE pc' = "line" /\ UNCHANGED task
  /\ UNCHANGED <<units, prefixes, prefixList, caches, loads, stale, refused>>

\* maybeAddDelta drops the error of registerUnit.
DeltaKey ==
  /\ pc = "delta" /\ task.keys # << >>
  /\ IF RefuseTaken(Key, units)
     THEN /\ pc' = "line" /\ refused' = refused \cup {task.def.name}
          /\ UNCHANGED <<units, task>>
     ELSE /\ units' = Put(units, Key, task.def)
          /\ NextKey /\ UNCHANGED <<pc, refused>>
  /\ UNCHANGED <<byName, prefixes, prefixList, dims, caches, loads, stale>>

DeltaSkipped ==   \* mutant: the delta unit is not entered in r.unitByName
  /\ pc = "delta" /\ task.keys = << >>
  /\ pc' = "line"
  /\ UNCHANGED <<registry, caches, task, loads, stale, refused>>

DeltaDone ==
  /\ pc = "delta" /\ task.keys = << >>
  /\ byName' = Put(byName, task.def.name, task.def)
  /\ pc' = "line"
  /\ UNCHANGED <<units, prefixes, prefixList, dims, caches, task, loads, stale, refused>>

AliasKey ==
  /\ pc = "alias" /\ task.keys # << >>
  /\ IF RefuseTaken(Key, units)
     THEN Abandon /\ UNCHANGED units
     ELSE units' = Put(units, Key, task.def) /\ NextKey /\ UNCHANGED <<pc, stale>>
  /\ UNCHANGED <<byName, prefixes, prefixList, dims, caches, loads, refused>>

AliasDone ==
  /\ pc = "alias" /\ task.keys = << >>
  /\ pc' = "line"
  /\ UNCHANGED <<registry, caches, task, loads, stale, refused>>

PrefixKeyUnchecked ==   \* mutant: r.redef is not asked
  /\ pc = "prefix" /\ task.keys # << >>
  /\ prefixes' = Put(prefixes, Key, task.def) /\ NextKey
  /\ UNCHANGED <<pc, stale, units, byName, prefixList, dims, caches, loads, refused>>

PrefixKey ==
  /\ pc = "prefix" /\ task.keys # << >>
  /\ IF RefuseTaken(Key, prefixes)
     THEN Abandon /\ UNCHANGED prefixes
     ELSE prefixes' = Put(prefixes, Key, task.def) /\ NextKey /\ UNCHANGED <<pc, stale>>
  /\ UNCHANGED <<units, byName, prefixList, dims, caches, loads, refused>>

PrefixDone ==
  /\ pc = "prefix" /\ task.keys = << >>
  /\ prefixList' = Append(prefixList, task.def)
  /\ pc' = "line"
  /\ UNCHANGED <<units, byName, prefixes, dims, caches, task, loads, stale, refused>>

-----------------------------------------------------------------------------
(* buildCaches and catalogExprIndex *)

\* Named products: not a base unit, no scale, no offset, at least two factors.
Products == {n \in DOMAIN byName :
               /\ byName[n].type = "scale" /\ byName[n].scale = 1
               /\ Cardinality(DOMAIN byName[n].ref) >= 2}

IndexKeepLast(t, n) ==   \* mutant: ambiguity is not remembered
  LET key == byName[n].ref
  IN  IF key \in DOMAIN t.index
      THEN [t EXCEPT !.index = [k \in DOMAIN @ \ {key} |-> @[k]]]
      ELSE [t EXCEPT !.index = Put(@, key, n)]

\* One turn of the loop: a product met a second time is nobody's.
Indexed(t, n) ==
  LET key == byName[n].ref
  IN  IF key \in t.ambiguous THEN t
      ELSE IF key \in DOMAIN t.index
      THEN [t EXCEPT !.index = [k \in DOMAIN @ \ {key} |-> @[k]], !.ambiguous = @ \cup {key}]
      ELSE [t EXCEPT !.index = Put(@, key, n)]

KeepParses ==   \* mutant: parseCache survives
  /\ pc = "line" /\ task.lines = << >>
  /\ pc' = "index" /\ task' = [NoTask EXCEPT !.left = Products]
  /\ UNCHANGED <<registry, caches, loads, stale, refused>>

BuildCaches ==
  /\ pc = "line" /\ task.lines = << >>
  /\ pc' = "index" /\ task' = [NoTask EXCEPT !.left = Products]
  /\ parseCache' = NoUnits
  /\ UNCHANGED <<registry, unitByExpr, loads, stale, refused>>

\* The loop ranges over a Go map: any order.
IndexUnit ==
  /\ pc = "index"
  /\ \E n \in task.left : task' = [Indexed(task, n) EXCEPT !.left = @ \ {n}]
  /\ UNCHANGED <<registry, caches, pc, loads, stale, refused>>

IndexDone ==
  /\ pc = "index" /\ task.left = {}
  /\ pc' = "idle" /\ task' = NoTask /\ stale' = FALSE
  /\ unitByExpr' = task.index
  /\ UNCHANGED <<registry, parseCache, loads, refused>>

-----------------------------------------------------------------------------
(* Looking a name up: parseUnitName and getName *)

\* One reading of a name: which prefix, by which of its spellings, plural or not.
Spelling(r) == PrefixKeys(prefixList[r.prefix])[r.spelling]
Readings ==
  UNION {[prefix : {i}, spelling : DOMAIN PrefixKeys(prefixList[i]), plural : {0, 1}] :
           i \in DOMAIN prefixList}
Before(a, b) ==
  \/ a.prefix < b.prefix
  \/ a.prefix = b.prefix /\ a.spelling < b.spelling
  \/ a.prefix = b.prefix /\ a.spelling = b.spelling /\ a.plural < b.plural

Core(name, r) ==
  LET rest == SubSeq(name, Len(Spelling(r)) + 1, Len(name))
  IN  IF r.plural = 0 THEN rest ELSE Front(rest)

Candidates(name) ==
  {r \in Readings :
     /\ IsPrefix(Spelling(r), name)
     /\ r.plural = 1 => /\ Len(name) > Len(Spelling(r)) /\ Last(name) = "s"
                        /\ Core(name, r) \notin {<<c>> : c \in Letter}
     /\ Core(name, r) \in DOMAIN units}

IsPrefixed(r) == prefixList[r.prefix].name # Blank
FirstOf(S) == CHOOSE r \in S : \A q \in S : ~Before(q, r)

\* parseUnitName drops every reading without a prefix when there is one with.
Chosen(name) ==
  LET all == Candidates(name)
      prefixed == {r \in all : IsPrefixed(r)}
  IN  FirstOf(IF prefixed # {} THEN prefixed ELSE all)

Undefined == [error |-> "UndefinedUnitError"]
OffsetError == [error |-> "OffsetUnitCalculusError"]
Found(n, p, u) == [name |-> n, prefix |-> p, unit |-> u]
IsError(x) == "error" \in DOMAIN x

\* getName without its assignments.
Resolve(name) ==
  IF name = <<"dimensionless">> THEN Found(Blank, Blank, Blank)
  ELSE IF name \in DOMAIN units THEN Found(units[name].name, Blank, Blank)
  ELSE IF Candidates(name) = {} THEN Undefined
  ELSE LET r == Chosen(name)
           p == prefixList[r.prefix].name
           u == units[Core(name, r)].name
       IN  IF p = Blank THEN Found(u, Blank, Blank)
           ELSE IF u \in DOMAIN byName /\ ~Multiplicative(byName[u]) THEN OffsetError
           ELSE Found(p \o u, p, u)

\* ... and the assignments: a prefixed unit enters the catalog.
Intern(x) ==
  IF ~IsError(x) /\ x.prefix # Blank /\ x.name \notin DOMAIN units
  THEN /\ units' = Put(units, x.name, Synthesized(x.prefix, x.unit))
       /\ byName' = Put(byName, x.name, Synthesized(x.prefix, x.unit))
  ELSE UNCHANGED <<units, byName>>

DeltaAlways(n, e, size) == IF size > 1 \/ e # 1 THEN DeltaName(n) ELSE n   \* mutant

\* ParseUnits reads an offset unit in a product or a power as a difference.
DeltaIfCompound(n, e, size) ==
  IF (size > 1 \/ e # 1) /\ n \in DOMAIN byName /\ ~Multiplicative(byName[n])
  THEN DeltaName(n) ELSE n

BeginParse(op, e) ==
  /\ pc = "idle"
  /\ op = "ParseUnits" => e \notin DOMAIN parseCache
  /\ pc' = "parse" /\ task' = [NoTask EXCEPT !.op = op, !.expr = e, !.todo = e]
  /\ UNCHANGED <<registry, caches, loads, stale, refused>>

ParseName ==
  LET term == Head(task.todo)
      x == Resolve(term[1])
      n == IF task.op = "ParseUnits"
           THEN DeltaIfCompound(x.name, term[2], Len(task.expr)) ELSE x.name
  IN  /\ pc = "parse" /\ task.todo # << >>
      /\ Intern(x)
      /\ IF IsError(x) THEN pc' = "idle" /\ task' = NoTask
         ELSE /\ task' = [task EXCEPT !.todo = Tail(task.todo),
                            !.out = IF x.name = Blank THEN @ ELSE Add(@, n, term[2])]
              /\ UNCHANGED pc
      /\ UNCHANGED <<prefixes, prefixList, dims, caches, loads, stale, refused>>

ParseDone ==
  /\ pc = "parse" /\ task.todo = << >>
  /\ pc' = "idle" /\ task' = NoTask
  /\ parseCache' = IF task.op = "ParseUnits" THEN Put(parseCache, task.expr, task.out)
                   ELSE parseCache
  /\ UNCHANGED <<registry, unitByExpr, loads, stale, refused>>

\* dimRecurse and rootRecurse look up the names a definition refers to.
Walk(n) ==
  /\ pc = "idle"
  /\ Intern(Resolve(n))
  /\ UNCHANGED <<prefixes, prefixList, dims, caches, pc, task, loads, stale, refused>>

References == UNION {DOMAIN byName[n].ref : n \in {m \in DOMAIN byName : byName[m].type # "base"}}

-----------------------------------------------------------------------------
LoadStep == \/ BeginUnit \/ BeginPrefix \/ BeginAlias \/ AddDimension \/ BadLine
            \/ UnitKey \/ UnitDone \/ DeltaKey \/ DeltaDone
            \/ AliasKey \/ AliasDone \/ PrefixKey \/ PrefixDone
            \/ BuildCaches \/ IndexUnit \/ IndexDone

Next == /\ UNCHANGED onRedefinition
        /\ \/ \E file \in File : Load(file)
           \/ LoadStep
           \/ \E op \in {"ParseUnits", "Parse"}, e \in Lookup : BeginParse(op, e)
           \/ ParseName \/ ParseDone
           \/ \E n \in References : Walk(n)

Spec == Init /\ [][Next]_vars

(* Properties *)

IsMap(f, S, Test(_)) == DOMAIN f \subseteq S /\ \A x \in DOMAIN f : Test(f[x])
IsContainer(u) == IsMap(u, Name, LAMBDA e : e \in Int \ {0})
IsPrefixDef(p) ==
  /\ DOMAIN p = {"name", "symbol", "aliases", "scale"}
  /\ {p.name, p.symbol} \subseteq Name /\ p.aliases \in Seq(Name) /\ p.scale \in Nat
Fields == {"name", "symbol", "aliases", "scale", "type", "ref", "prefix"}
IsUnitDef(u) ==
  /\ DOMAIN u = Fields
  /\ {u.name, u.symbol, u.prefix} \subseteq Name /\ u.aliases \in Seq(Name)
  /\ u.scale \in Nat /\ u.type \in {"base", "scale", "offset", "log"} /\ IsContainer(u.ref)

\* What parseDefinitionFile yields.
ASSUME FileAssumption ==
  \A file \in File :
    /\ file \in Seq(ToSet(file))
    /\ \A line \in ToSet(file) :
         /\ line.kind = "unit" => IsUnitDef(line.def) /\ line.def.prefix = Blank
         /\ line.kind = "prefix" => IsPrefixDef(line.def)
         /\ line.kind = "alias" => line.name \in Name /\ line.aliases \in Seq(Name)
         /\ line.kind = "dimension" => line.name \in Name

\* What the expression parser yields.
ASSUME LookupAssumption == \A e \in Lookup : e \in Seq(Name \X Int)

\* The maps hold definitions of their kind, r.unitByName each under its own name,
\* and a registration in progress has a definition to register.
TypeOK ==
  /\ onRedefinition \in Policy
  /\ IsMap(units, Name, IsUnitDef) /\ IsMap(byName, Name, IsUnitDef)
  /\ \A n \in DOMAIN byName : byName[n].name = n
  /\ IsMap(prefixes, Name, IsPrefixDef)
  /\ \A i \in DOMAIN prefixList : IsPrefixDef(prefixList[i])
  /\ dims \subseteq Name /\ refused \subseteq Name
  /\ IsMap(parseCache, Lookup, IsContainer)
  /\ \A e \in DOMAIN unitByExpr : IsContainer(e) /\ unitByExpr[e] \in Name
  /\ pc \in {"idle", "line", "unit", "delta", "alias", "prefix", "parse", "index"}
  /\ pc \in {"unit", "delta", "alias"} => IsUnitDef(task.def)
  /\ pc = "prefix" => IsPrefixDef(task.def)
  /\ task.keys \in Seq(Name) /\ IsContainer(task.out)
  /\ loads \in 0..MaxLoads /\ stale \in BOOLEAN

InProgress == IF pc \in {"unit", "delta"} THEN {task.def.name} ELSE {}

\* Every spelling leads to a canonical name that r.unitByName knows, unless the
\* registration of that name is under way or was refused half way.
SpellingsLead ==
  /\ \A k \in DOMAIN units : units[k].name \in DOMAIN byName \cup refused \cup InProgress
  /\ DOMAIN byName \subseteq DOMAIN units

\* A registry that raises on redefinition never gives a spelling, a canonical name
\* or a prefix another meaning: not by a later line, not by a line refused half
\* way, not by a delta unit and not by looking names up.
Meaning(def) == [field \in DOMAIN def \ {"aliases"} |-> def[field]]
Grows(f, g) == \A x \in DOMAIN f : x \in DOMAIN g /\ Meaning(g[x]) = Meaning(f[x])
NothingRedefined ==
  [][onRedefinition = "raise" =>
       /\ Grows(units, units') /\ Grows(byName, byName')
       /\ Grows(prefixes, prefixes') /\ dims \subseteq dims']_vars

\* A synthesized unit keeps the scale of its prefix and the unit it multiplies.
SynthesizedCurrent ==
  onRedefinition = "raise" =>
    \A n \in DOMAIN byName :
      LET u == byName[n]
      IN  u.prefix # Blank =>
            /\ u.prefix \in DOMAIN prefixes /\ u.scale = prefixes[u.prefix].scale
            /\ DOMAIN u.ref \subseteq DOMAIN units

\* Every offset unit has its delta unit, unless the names of that unit were taken; and
\* it has the size and the reference of its unit, unless a later line may redefine it.
DeltasExist ==
  pc = "idle" =>
    \A n \in DOMAIN byName :
      byName[n].type = "offset" /\ DeltaName(n) \notin refused =>
        /\ DeltaName(n) \in DOMAIN byName
        /\ onRedefinition = "raise" =>
             /\ byName[DeltaName(n)].type = "scale"
             /\ byName[DeltaName(n)].scale = byName[n].scale
             /\ byName[DeltaName(n)].ref = byName[n].ref

\* What a lookup of expression e would store now.
FreshParse(e) ==
  FoldLeft(LAMBDA u, term :
             LET x == Resolve(term[1])
             IN  IF x.name = Blank THEN u
                 ELSE Add(u, DeltaIfCompound(x.name, term[2], Len(e)), term[2]),
           NoUnits, e)

\* A cached parse is what parsing again would give: the units interned since do
\* not change the reading of an expression that was read before them.
ParsesStayFresh ==
  pc = "idle" /\ ~stale =>
    \A e \in DOMAIN parseCache :
      /\ \A i \in DOMAIN e : ~IsError(Resolve(e[i][1]))
      /\ parseCache[e] = FreshParse(e)

\* A container handed to callers names units the registry can look up, but for the
\* difference of a logarithmic unit, which is never defined.  A registry that lets
\* lines redefine a logarithmic unit may still hold its difference until a load
\* succeeds and empties the cache.
Defined(n) ==
  n \in DOMAIN units \/ \E m \in DOMAIN byName : byName[m].type = "log" /\ n = DeltaName(m)
ParsedUnitsDefined ==
  onRedefinition = "raise" \/ (pc = "idle" /\ ~stale) =>
    \A e \in DOMAIN parseCache : \A n \in DOMAIN parseCache[e] : Defined(n)

\* unitByExpr names a product exactly when one catalog unit is defined as it,
\* whatever the order the map is ranged over.
Alone(n, S, def) == \A o \in S \ {n} : def[o].ref # def[n].ref
UniqueIndex(S, def) ==
  [key \in {def[n].ref : n \in {m \in S : Alone(m, S, def)}}
     |-> CHOOSE n \in S : def[n].ref = key]
UniqueProducts == pc = "idle" /\ ~stale => unitByExpr = UniqueIndex(Products, byName)
=============================================================================
