-------------------------- MODULE DefinitionLoading --------------------------
(***************************************************************************)
(* What a definition text does to a Registry (registry.go, extra.go): Load *)
(* parses the text, then applies one definition after the other, and a     *)
(* definition that is refused ends it with the ones before it in force.    *)
(* Groups can also be changed through their handles.  dimRecurse and       *)
(* rootRecurse follow the references that were loaded, which nothing keeps *)
(* from leading back to where they started.  A name that is not defined    *)
(* they read with a prefix or as a plural, and the prefixed unit that they *)
(* come by becomes one of the registry.                                    *)
(*                                                                         *)
(* Units go by one spelling and their aliases, and a spelling can be read  *)
(* with one prefix and as one plural: UnitCatalog takes names apart.  The  *)
(* numbers and containers are those of UnitsContainers.                    *)
(***************************************************************************)
EXTENDS DefinitionFiles, UnitGroups, UnitsContainers

CONSTANTS
  Line,          \* lines of texts
  Embedded,      \* [file -> text], the files of package defs
  Meaning,       \* [value -> scaled units], for the values that parseScaledUnits reads
  Identifier,    \* names that isPythonIdent accepts
  Bracketed,     \* names in brackets
  DeltaName,     \* [unit -> its difference]
  Split,         \* [spelling -> [prefix, core]], for those that begin with a prefix
  Plural,        \* [spelling -> core], for those that end in an s
  PrefixedName,  \* [<<prefix, unit>> -> name of the prefixed unit]
  Policy,        \* values of the OnRedefinition option
  Inclusion,     \* sequences of groups to include with AddGroups
  Stray,         \* names to put in groups with AddUnits
  MaxLines, MaxLoads, MaxCalls,   \* bounds: lines of texts, Load and Define calls, others
  MaxDepth       \* calls that the stack of the process holds

ASSUME LoadingAssumption ==
  /\ Policy \subseteq {"raise", "warn", "ignore"}
  /\ MaxLines \in Nat /\ MaxLoads \in Nat /\ MaxCalls \in Nat /\ MaxDepth \in Nat
  /\ \A v \in DOMAIN Meaning :
       /\ IsContainer(Meaning[v].units) /\ IsRational(Meaning[v].scale)
       /\ IsFiniteSet(Names(Meaning[v].units)) /\ Names(Meaning[v].units) \subseteq STRING

\* Units that a text can define, and the names of prefixed units.
Definable == Identifier \cup {DeltaName[n] : n \in Identifier}
FullNames == {PrefixedName[x] : x \in DOMAIN PrefixedName}

\* Names are text, and a line belongs to no group before a block puts it there.  No line
\* gives a prefixed unit an alias and, where aliases can take the place of units, none does.
IsLine(l) ==
  /\ "is" \in DOMAIN l /\ "group" \notin DOMAIN l
  /\ l.is = "group" => l.name \in STRING /\ l.using \in Seq(STRING)
  /\ l.is = "prefix" => l.name \in STRING /\ IsRational(l.scale)
  /\ l.is = "alias" =>
       /\ l.aliases \in Seq(STRING) /\ l.name \notin FullNames
       /\ Policy \subseteq {"raise"} \/ ToSet(l.aliases) \cap (Definable \cup FullNames) = {}
  /\ l.is = "context" => l.names \in Seq(STRING) \ {<< >>}

\* The provers have to be told that "root" and "" are text.
ASSUME TextAssumption ==
  /\ {Root, Missing} \subseteq STRING
  /\ Identifier \subseteq DOMAIN DeltaName
  /\ \A n \in Identifier : n \in STRING /\ DeltaName[n] \in STRING
  /\ \A l \in Line : IsLine(l)
  /\ "default" \in DOMAIN Embedded
  /\ \A file \in DOMAIN Embedded :
       /\ Embedded[file] \in Seq(ToSet(Embedded[file]))
       /\ \A l \in ToSet(Embedded[file]) : IsLine(l)
  /\ Inclusion \subseteq Seq(STRING) \ {<< >>}
  /\ Stray \subseteq STRING

\* The name of a prefixed unit is read as what it is made of, and so is its plural; it is
\* not given another prefix.
ASSUME ReadingAssumption ==
  /\ Missing \notin Definable \cup DOMAIN Split
  /\ \A n \in DOMAIN Split :
       /\ n \in STRING \ Bracketed /\ Split[n].core \notin FullNames
       /\ \A u \in Definable \ FullNames : <<Split[n].prefix, u>> \in DOMAIN PrefixedName
  /\ \A x \in DOMAIN PrefixedName :
       /\ PrefixedName[x] \in DOMAIN Split
       /\ Split[PrefixedName[x]] = [prefix |-> x[1], core |-> x[2]]
  /\ \A n \in DOMAIN Plural :
       /\ n \in STRING \ Bracketed
       /\ Plural[n] \in FullNames => n \in DOMAIN Split /\ Split[n] = Split[Plural[n]]

VARIABLES
  onRedefinition,   \* r.onRedefinition, set once
  names,        \* r.units: name or alias -> canonical name
  byName,       \* r.unitByName: canonical name -> definition
  prefixes,     \* r.prefixes: name -> scale
  dimensions,   \* r.dimensions: name -> definition
  groups,       \* r.groups: name -> members and using
  systems,      \* r.systems: name -> using and rules
  contexts,     \* r.contexts: name or alias -> resolved relations, redefinitions
  defaults,     \* r.defaultsGroup, r.defaultsSystem
  parseCache,   \* r.parseCache: spelling -> canonical name
  dimCache,     \* r.dimCache: container -> dimensions
  rootCache,    \* r.rootCache: container -> factor and root units
  convCache,    \* r.convCache: pair of containers -> factor
  pc,           \* "idle", "reading" or "applying" a text, or "crashed"
  text, parsed, \* the lines read so far, and what parseDefinitionFile holds
  pending,      \* definitions still to be applied
  stale,        \* the last Load failed after it parsed: no cache was rebuilt
  strays,       \* names that AddUnits put in a group
  lines, loads, calls   \* so far

unitMaps == <<names, byName>>
blocks == <<groups, systems, contexts, defaults>>
registry == <<unitMaps, prefixes, dimensions, blocks>>
walkCaches == <<rootCache, convCache>>
caches == <<parseCache, dimCache, walkCaches>>
session == <<text, parsed, strays, lines, loads, calls>>
vars == <<onRedefinition, registry, caches, pc, pending, stale, session>>

Put(f, k, v) == [x \in DOMAIN f \cup {k} |-> IF x = k THEN v ELSE f[x]]

\* NewEmptyRegistry, or NewRegistry on its way through the default file.
Init ==
  /\ onRedefinition \in Policy
  /\ names = Empty /\ byName = Empty /\ prefixes = Empty /\ dimensions = Empty
  /\ groups = [g \in {Root} |-> EmptyGroup]
  /\ systems = Empty /\ contexts = Empty
  /\ parseCache = Empty /\ dimCache = Empty /\ rootCache = Empty /\ convCache = Empty
  /\ defaults = [group |-> Missing, system |-> Missing]
  /\ \/ pc = "idle" /\ pending = << >>
     \/ pc = "applying" /\ pending = Parsed(Embedded["default"]).out
  /\ text = << >> /\ parsed = NoText
  /\ stale = FALSE /\ strays = {} /\ lines = 0 /\ loads = 0 /\ calls = 0

-----------------------------------------------------------------------------
(* Reading a name: getName *)

IsPrefixed(n) ==
  n \in DOMAIN Split /\ Split[n].prefix \in DOMAIN prefixes /\ Split[n].core \in DOMAIN names

\* A reading with a prefix comes before the plural, and offset units take no prefix.
GetName(n) ==
  IF n \in DOMAIN names THEN names[n]
  ELSE IF IsPrefixed(n)
  THEN LET u == names[Split[n].core]
       IN  IF byName[u].offset # Zero THEN Missing ELSE PrefixedName[<<Split[n].prefix, u>>]
  ELSE IF n \in DOMAIN Plural /\ Plural[n] \in DOMAIN names THEN names[Plural[n]]
  ELSE Missing

Readable == {n \in DOMAIN names \cup DOMAIN Split \cup DOMAIN Plural : GetName(n) # Missing}

\* What goes by a canonical name: a unit that is there or the prefixed one that will be.
Synthesized(g) == [scale |-> prefixes[Split[g].prefix], offset |-> Zero,
                   reference |-> UnitPair(Split[g].core, One), isBase |-> FALSE]
Named(g) == IF g \in DOMAIN byName THEN byName[g] ELSE Synthesized(g)

\* Where the name of a prefixed unit is an alias there is no unit behind it.
Nameless(g) == g \in DOMAIN names \ DOMAIN byName

\* The prefixed units among the readings of ns enter the registry.
Intern(ns) ==
  LET new == {GetName(n) : n \in ns} \ (DOMAIN names \cup {Missing})
  IN  /\ names' = [n \in DOMAIN names \cup new |-> IF n \in new THEN n ELSE names[n]]
      /\ byName' = [n \in DOMAIN byName \cup new |->
                      IF n \in new THEN Synthesized(n) ELSE byName[n]]

-----------------------------------------------------------------------------
(* Following references: dimRecurse and rootRecurse *)

\* What the names that are known lead to: a leaf, or a factor and more names.
Leaf(n) == [is |-> "leaf", name |-> n]
Inner(scale, reference) == [is |-> "inner", scale |-> scale, reference |-> reference]

DimEntries ==
  [n \in (Readable \ Bracketed) \cup (DOMAIN dimensions \cap Bracketed) |->
     IF n \notin Bracketed
     THEN Inner(One, IF Nameless(GetName(n)) THEN Empty ELSE Named(GetName(n)).reference)
     ELSE IF dimensions[n].isBase THEN Leaf(n) ELSE Inner(One, dimensions[n].reference)]

Rooted == {n \in Readable : ~Nameless(GetName(n))}
RootEntriesThroughBase ==   \* mutant: rootRecurse does not stop at base units
  [n \in Rooted |-> LET u == Named(GetName(n)) IN Inner(u.scale, u.reference)]
RootEntries ==
  [n \in Rooted |-> LET u == Named(GetName(n))
                    IN  IF u.isBase THEN Leaf(GetName(n)) ELSE Inner(u.scale, u.reference)]

ItemsFlat(u, exp, depth) ==   \* mutant: the power of an inner name is lost
  LET seq == SetToSeq(Names(u))
  IN  [i \in DOMAIN seq |-> [name |-> seq[i], exp |-> u[seq[i]], depth |-> depth]]

\* The names of a container, each with its power times exp, at a depth of the recursion.
Items(u, exp, depth) ==
  LET seq == SetToSeq(Names(u))
  IN  [i \in DOMAIN seq |-> [name |-> seq[i], exp |-> Times(exp, u[seq[i]]), depth |-> depth]]

Overflow == [end |-> "overflow"]
Undefined == [end |-> "undefined"]
Answer(s) == [end |-> "answered", is |-> s]

\* The recursion as the stack of the names still to visit, with the factor and the powers
\* of leaves so far.
Leaves == Definable \cup Bracketed
Item == [name : STRING, exp : Rational, depth : Nat]
Walks == [todo : Seq(Item), scale : Rational, powers : [Leaves -> Rational]]
Start(u) == [todo |-> Items(u, One, 1), scale |-> One, powers |-> [n \in Leaves |-> Zero]]

\* The walk after its first name, which leads to e.
Onward(w, e) ==
  LET it == Head(w.todo)
  IN  IF e.is = "leaf"
      THEN [todo |-> Tail(w.todo), scale |-> w.scale,
            powers |-> [w.powers EXCEPT ![e.name] = Plus(@, it.exp)]]
      ELSE [todo |-> Items(e.reference, it.exp, it.depth + 1) \o Tail(w.todo),
            scale |-> Times(w.scale, Power(e.scale, it.exp)), powers |-> w.powers]

\* A recursion that would go on for ever fills the stack of the process.
Follow(entries, u) ==
  LET visit[w \in Walks] ==
        IF w.todo = << >> THEN Answer(Scaled(w.scale, NewUnitsContainer(w.powers)))
        ELSE IF Head(w.todo).depth > MaxDepth THEN Overflow
        ELSE IF Head(w.todo).name \notin DOMAIN entries THEN Undefined
        ELSE visit[Onward(w, entries[Head(w.todo).name])]
  IN  visit[Start(u)]

\* The names that the walk comes by, up to the one that is unknown.
Met(entries, u) ==
  LET visit[w \in Walks] ==
        IF w.todo = << >> \/ Head(w.todo).depth > MaxDepth THEN {}
        ELSE {Head(w.todo).name} \cup
             IF Head(w.todo).name \notin DOMAIN entries THEN {}
             ELSE visit[Onward(w, entries[Head(w.todo).name])]
  IN  visit[Start(u)]

\* computeDimensionality; what it comes by it interns.
Dimensionality(u) == IF u \in DOMAIN dimCache THEN Answer(Scaled(One, dimCache[u]))
                     ELSE Follow(DimEntries, u)
Measured(us) == UNION {Met(DimEntries, u) : u \in us \ DOMAIN dimCache}

\* dimCache after the answers to some of the containers.
Cached(us) == [u \in DOMAIN dimCache \cup (us \ {Empty}) |-> Dimensionality(u).is.units]

-----------------------------------------------------------------------------
(* Reading a text *)

StartLoad ==
  /\ pc = "idle" /\ loads < MaxLoads
  /\ pc' = "reading" /\ text' = << >> /\ parsed' = NoText /\ loads' = loads + 1
  /\ UNCHANGED <<registry, caches, pending, stale, strays, lines, calls>>

Read(l) ==
  /\ pc = "reading" /\ lines < MaxLines
  /\ text' = Append(text, l) /\ parsed' = ReadLine(parsed, l) /\ lines' = lines + 1
  /\ UNCHANGED <<registry, caches, pc, pending, stale, strays, loads, calls>>

\* A text that does not parse changes nothing.
EndOfText ==
  /\ pc = "reading"
  /\ LET p == Flush(parsed)
     IN  IF p.refused THEN pc' = "idle" /\ UNCHANGED pending
         ELSE pc' = "applying" /\ pending' = p.out
  /\ text' = << >> /\ parsed' = NoText
  /\ UNCHANGED <<registry, caches, stale, strays, lines, loads, calls>>

\* Define takes a single line, without a block.
Define(l) ==
  /\ pc = "idle" /\ loads < MaxLoads /\ lines < MaxLines /\ IsDefinition(l)
  /\ pc' = "applying" /\ pending' = <<l>> /\ lines' = lines + 1 /\ loads' = loads + 1
  /\ UNCHANGED <<registry, caches, stale, text, parsed, strays, calls>>

-----------------------------------------------------------------------------
(* applyDef *)

Def == Head(pending)
Applying(kind) == pc = "applying" /\ pending # << >> /\ Def.is = kind
Applied == pending' = Tail(pending) /\ UNCHANGED <<pc, stale>>
AbandonKeepingRest ==   \* mutant: the loop over the definitions is not left for good
  pc' = "idle" /\ stale' = TRUE /\ UNCHANGED pending
Abandon == pc' = "idle" /\ pending' = << >> /\ stale' = TRUE
Crash == pc' = "crashed" /\ pending' = << >> /\ UNCHANGED stale

RefuseTaken(n, map) == onRedefinition = "raise" /\ n \in DOMAIN map

ApplyImport ==
  /\ Applying("import")
  /\ IF Def.file \in DOMAIN Embedded
     THEN /\ pending' = Parsed(Embedded[Def.file]).out \o Tail(pending)
          /\ UNCHANGED <<pc, stale>>
     ELSE Abandon
  /\ UNCHANGED <<registry, caches, session>>

ApplyDefaults ==
  /\ Applying("defaults") /\ Applied
  /\ LET set(new, old) == IF new = Missing THEN old ELSE new
     IN  defaults' = [group |-> set(Def.group, defaults.group),
                      system |-> set(Def.system, defaults.system)]
  /\ UNCHANGED <<unitMaps, prefixes, dimensions, groups, systems, contexts, caches, session>>

ApplyPrefix ==
  /\ Applying("prefix")
  /\ IF RefuseTaken(Def.name, prefixes)
     THEN Abandon /\ UNCHANGED prefixes
     ELSE Applied /\ prefixes' = Put(prefixes, Def.name, Def.scale)
  /\ UNCHANGED <<unitMaps, dimensions, blocks, caches, session>>

\* addDimension
AddDimensionUnchecked(isBase, reference) ==   \* mutant: what is taken is not refused
  IF Def.name \notin Bracketed THEN Abandon /\ UNCHANGED dimensions
  ELSE Applied /\ dimensions' = Put(dimensions, Def.name,
                                    [isBase |-> isBase, reference |-> reference])
AddDimension(isBase, reference) ==
  IF Def.name \notin Bracketed \/ RefuseTaken(Def.name, dimensions)
  THEN Abandon /\ UNCHANGED dimensions
  ELSE Applied /\ dimensions' = Put(dimensions, Def.name,
                                    [isBase |-> isBase, reference |-> reference])

ApplyDimension ==
  /\ Applying("dimension")
  /\ AddDimension(TRUE, Empty)
  /\ UNCHANGED <<unitMaps, prefixes, blocks, caches, session>>

ApplyDerived ==
  /\ Applying("derived")
  /\ IF Def.value \notin DOMAIN Meaning \/ Meaning[Def.value].scale # One
     THEN Abandon /\ UNCHANGED dimensions
     ELSE AddDimension(FALSE, Meaning[Def.value].units)
  /\ UNCHANGED <<unitMaps, prefixes, blocks, caches, session>>

\* addAliases keeps the aliases before one that is taken.
Aliased ==
  {i \in DOMAIN Def.aliases :
     \A j \in 1..i : ~RefuseTaken(Def.aliases[j], names)
                    /\ (onRedefinition = "raise" => Def.aliases[j] \notin ToSet(SubSeq(Def.aliases, 1, j - 1)))}

ApplyAlias ==
  /\ Applying("alias")
  /\ IF Def.name \notin DOMAIN names THEN Abandon /\ UNCHANGED names
     ELSE /\ LET new == {Def.aliases[i] : i \in Aliased}
             IN  names' = [n \in DOMAIN names \cup new |->
                             names[IF n \in new THEN Def.name ELSE n]]
          /\ IF Aliased = DOMAIN Def.aliases THEN Applied ELSE Abandon
  /\ UNCHANGED <<byName, prefixes, dimensions, blocks, caches, session>>

\* addUnit: what the unit means, and what speaks against it.
IsDimensional(u) == Names(u) \cap Bracketed # {}
UnitDef(l) ==
  LET m == Meaning[l.value]
  IN  [scale |-> m.scale, offset |-> l.offset, reference |-> m.units,
       isBase |-> IsDimensional(m.units)]
Refused(l) ==
  \/ l.value \notin DOMAIN Meaning \/ l.name \notin Identifier
  \/ LET m == Meaning[l.value]
     IN  IsDimensional(m.units) /\ (~(Names(m.units) \subseteq Bracketed) \/ m.scale # One)
  \/ RefuseTaken(l.name, names)

\* maybeAddDelta, with the same registration; its refusal is dropped.
Deltas(l) == IF l.offset = Zero \/ RefuseTaken(DeltaName[l.name], names) THEN {}
             ELSE {DeltaName[l.name]}

\* A unit of a group is a member of the group and of root.
Join(l) ==
  LET into(gs, g) == WithMember(WithGroup(gs, g), g, l.name)
  IN  IF "group" \in DOMAIN l THEN into(into(groups, Root), l.group) ELSE into(groups, Root)

ApplyUnit ==
  /\ Applying("unit")
  /\ IF Refused(Def)
     THEN Abandon /\ UNCHANGED <<unitMaps, dimensions, groups>>
     ELSE LET u == UnitDef(Def)
              delta == [u EXCEPT !.offset = Zero, !.isBase = FALSE]
              new == {Def.name} \cup Deltas(Def)
          IN  /\ names' = [n \in DOMAIN names \cup new |-> IF n \in new THEN n ELSE names[n]]
              /\ byName' = [n \in DOMAIN byName \cup new |->
                              IF n = Def.name THEN u ELSE IF n \in new THEN delta ELSE byName[n]]
              /\ dimensions' =
                   [d \in DOMAIN dimensions \cup (Names(u.reference) \cap Bracketed) |->
                      IF d \in DOMAIN dimensions THEN dimensions[d]
                      ELSE [isBase |-> TRUE, reference |-> Empty]]
              /\ groups' = Join(Def)
              /\ Applied
  /\ UNCHANGED <<prefixes, systems, contexts, defaults, caches, session>>

\* addGroup: its members are then added one by one.
ApplyGroup ==
  /\ Applying("group")
  /\ groups' = [WithGroup(groups, Def.name) EXCEPT ![Def.name].using = @ \o Def.using]
  /\ pending' = [i \in DOMAIN Def.members |-> Put(Def.members[i], "group", Def.name)]
                \o Tail(pending)
  /\ UNCHANGED <<pc, stale, unitMaps, prefixes, dimensions, systems, contexts, defaults,
                 caches, session>>

ApplySystem ==
  /\ Applying("system") /\ Applied
  /\ systems' = Put(systems, Def.name, [using |-> Def.using, rules |-> Def.rules])
  /\ UNCHANGED <<unitMaps, prefixes, dimensions, groups, contexts, defaults, caches, session>>

\* addContext: relation by relation both ends are parsed, then reduced to dimensions, and
\* what was found before one that is unknown stays.
Ends(rels) ==
  [i \in 1..2 * Len(rels) |-> LET r == rels[(i + 1) \div 2] IN IF i % 2 = 1 THEN r.src ELSE r.dst]

Resolved(r) ==
  LET to(v) == Dimensionality(Meaning[v].units).is.units
      there == [src |-> r.src, dst |-> r.dst, from |-> to(r.src), to |-> to(r.dst)]
      back == [src |-> r.dst, dst |-> r.src, from |-> there.to, to |-> there.from]
  IN  IF r.bidirect THEN {there, back} ELSE {there}

ApplyContext ==
  /\ Applying("context")
  /\ LET ends == Ends(Def.rels)
         parses(i) == LET r == Def.rels[(i + 1) \div 2] IN {r.src, r.dst} \subseteq DOMAIN Meaning
         end(i) == IF parses(i) THEN Dimensionality(Meaning[ends[i]].units).end ELSE "malformed"
         wrong == {i \in DOMAIN ends : end(i) # "answered"}
         first == CHOOSE i \in wrong : \A j \in wrong : i <= j
         done == {i \in DOMAIN ends : \A j \in wrong : i < j}
         tried == {i \in DOMAIN ends : parses(i) /\ \A j \in wrong : i <= j}
     IN  /\ dimCache' = Cached({Meaning[ends[i]].units : i \in done})
         /\ Intern(Measured({Meaning[ends[i]].units : i \in tried}))
         /\ IF wrong # {}
            THEN /\ IF end(first) = "overflow" THEN Crash ELSE Abandon
                 /\ UNCHANGED contexts
            ELSE /\ Applied
                 /\ LET new == [name |-> Head(Def.names), redefs |-> Def.redefs,
                                transforms |-> UNION {Resolved(Def.rels[i]) :
                                                        i \in DOMAIN Def.rels}]
                    IN  contexts' = [c \in DOMAIN contexts \cup ToSet(Def.names) |->
                                       IF c \in ToSet(Def.names) THEN new ELSE contexts[c]]
  /\ UNCHANGED <<prefixes, dimensions, groups, systems, defaults, parseCache, walkCaches,
                 session>>

\* buildCaches
LoadDoneKeepsFactors ==   \* mutant: convCache survives
  /\ pc = "applying" /\ pending = << >>
  /\ pc' = "idle" /\ stale' = FALSE
  /\ parseCache' = Empty /\ dimCache' = Empty /\ rootCache' = Empty
  /\ UNCHANGED <<registry, convCache, pending, session>>

LoadDone ==
  /\ pc = "applying" /\ pending = << >>
  /\ pc' = "idle" /\ stale' = FALSE
  /\ parseCache' = Empty /\ dimCache' = Empty /\ rootCache' = Empty /\ convCache' = Empty
  /\ UNCHANGED <<registry, pending, session>>

-----------------------------------------------------------------------------
(* Calls on groups; RegistryQueries has the others *)

Call == pc = "idle" /\ calls < MaxCalls /\ calls' = calls + 1

NewGroup(g) ==
  /\ Call
  /\ groups' = WithGroup(groups, g)
  /\ UNCHANGED <<unitMaps, prefixes, dimensions, systems, contexts, defaults, caches, pc,
                 pending, stale, text, parsed, strays, lines, loads>>

\* Group.AddUnits takes any name.
AddUnits(g, n) ==
  /\ Call
  /\ groups' = WithMember(groups, g, n) /\ strays' = strays \cup {n}
  /\ UNCHANGED <<unitMaps, prefixes, dimensions, systems, contexts, defaults, caches, pc,
                 pending, stale, text, parsed, lines, loads>>

AddGroups(g, ns) ==
  /\ Call
  /\ groups' = AddedGroups(groups, g, ns)
  /\ UNCHANGED <<unitMaps, prefixes, dimensions, systems, contexts, defaults, caches, pc,
                 pending, stale, text, parsed, strays, lines, loads>>

-----------------------------------------------------------------------------
Apply == \/ ApplyImport \/ ApplyDefaults \/ ApplyPrefix \/ ApplyDimension \/ ApplyDerived
         \/ ApplyAlias \/ ApplyUnit \/ ApplyGroup \/ ApplySystem \/ ApplyContext \/ LoadDone

Loading == \/ StartLoad \/ EndOfText \/ Apply
           \/ \E l \in Line : Read(l) \/ Define(l)

Grouping == \/ \E ns \in Inclusion : NewGroup(Head(ns))
            \/ \E g \in DOMAIN groups :
                 (\E n \in Stray : AddUnits(g, n)) \/ (\E ns \in Inclusion : AddGroups(g, ns))

-----------------------------------------------------------------------------
(* Properties *)

\* A spelling leads to a definition; definitions, dimensions, groups, systems and contexts
\* have the parts their kind has; what is cached is a name, a product of dimensions or one
\* of units; members are names and only a text being read or applied has something left.
TypeOK ==
  /\ onRedefinition \in Policy
  /\ \A n \in DOMAIN names : names[n] \in DOMAIN byName
  /\ DOMAIN byName \subseteq DOMAIN names
  /\ \A n \in DOMAIN byName :
       /\ DOMAIN byName[n] = {"scale", "offset", "reference", "isBase"}
       /\ IsContainer(byName[n].reference)
       /\ byName[n].isBase => Names(byName[n].reference) \subseteq DOMAIN dimensions
  /\ DOMAIN dimensions \subseteq Bracketed
  /\ \A d \in DOMAIN dimensions : dimensions[d].isBase => dimensions[d].reference = Empty
  /\ Root \in DOMAIN groups
  /\ \A g \in DOMAIN groups : groups[g].members \subseteq DOMAIN byName \cup strays
  /\ \A x \in DOMAIN systems : DOMAIN systems[x] = {"using", "rules"}
  /\ \A c \in DOMAIN contexts : contexts[c].name \in DOMAIN contexts
  /\ \A n \in DOMAIN parseCache : parseCache[n] \in DOMAIN names
  /\ \A u \in DOMAIN dimCache :
       IsContainer(dimCache[u]) /\ Names(dimCache[u]) \subseteq DOMAIN dimensions
  /\ \A u \in DOMAIN rootCache :
       IsContainer(rootCache[u].units) /\ Names(rootCache[u].units) \subseteq DOMAIN byName
  /\ pc \in {"idle", "reading", "applying", "crashed"}
  /\ pc # "reading" => text = << >> /\ parsed = NoText
  /\ pc # "applying" => pending = << >>
  /\ lines \in 0..MaxLines /\ loads \in 0..MaxLoads /\ calls \in 0..MaxCalls

\* What the parser makes of a text line by line is what its sections say: every line
\* belongs to the last header before it that no @end has closed, means what that kind
\* of block makes of it, and a line that its block does not take refuses the text.
ParsedAsSections ==
  pc = "reading" =>
    LET p == Flush(parsed)
    IN  /\ p.refused <=> ~Sensible(text)
        /\ ~p.refused => p.out = Meant(text)

\* A call of AddGroups makes no cycle of groups, also when it stops half way and also
\* when texts have made cycles before: nothing it adds is on one.
AddGroupsAcyclic ==
  [][calls' > calls =>
       \A g \in DOMAIN groups :
         \A i \in Len(groups[g].using) + 1 .. Len(groups'[g].using) :
           ~Includes(groups', groups'[g].using[i], g)]_vars

\* What a registry that raises on redefinition has learned it keeps: a dimension that a cache
\* or the relation of a context holds, and to which names lead that are defined, follows
\* from the definitions after every step, the one that ends a text half way included.
Held == DOMAIN dimCache \cup
        UNION {{Meaning[r.src].units, Meaning[r.dst].units} :
                 r \in UNION {contexts[c].transforms : c \in DOMAIN contexts}}
DefinitionEntries ==
  [n \in DOMAIN DimEntries \cap (DOMAIN names \cup Bracketed) |-> DimEntries[n]]
DimensionsStay ==
  [][onRedefinition = "raise" =>
       LET defined == DefinitionEntries
           entries == DimEntries'
       IN  \A u \in Held : LET found == Follow(defined, u)
                          IN  found.end = "answered" => Follow(entries, u) = found]_vars
=============================================================================
