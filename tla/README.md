# Verification of pint-go

TLA+ specifications of `pint-go`, a Go port of the Pint units library, with the
TLC runs that check them and the TLAPS proofs about them. Line numbers are those
of `src/` at the modelled commit.

## The system

A `Registry` holds a catalog of definitions read from text, the memoised results
of conversions, and a stack of enabled contexts. Callers hand it unit
expressions and get back containers (exponent maps), dimensions, factors or
compiled conversions. One `sync.RWMutex`, `r.mu`, is meant to make it safe to
share.

| Component | State it keeps | Operations | Interacts with |
|---|---|---|---|
| Conversion and caches (`convert.go`) | `parseCache`, `dimCache`, `rootCache`, `convCache`, local registers of each call | `ParseUnits`, `Convert`, `Converter`, `Compatible`, `Dimensionality` | reads the catalog, interns prefixed units in it, asks contexts for a path |
| Unit catalog (`registry.go`) | `units`, `unitByName`, `prefixes`, `prefixList`, `dimensions`, `unitByExpr` | `Load`, `Define`, `getName`, `lookupUnit` | written by definitions and by name lookup; `buildCaches` empties the caches |
| Contexts (`convert.go`, `types.go`) | `contexts`, the stack `active`, the snapshot in each `ConverterOp` | `EnableContext`, `DisableContext`, `bindActive`, `contextPath`, `applyTransform` | transforms are parsed and measured by the registry |
| Converters (`converters.go`) | none | `ToReference`, `FromReference`, `Scale` | used by `convertIn`, sampled by `Converter` |
| Groups, systems (`extra.go`) | `groups`, `systems` | `NewGroup`, `AddUnits`, `AddGroups`, `Expanded`, `CompatibleUnits`, `BaseUnits` | filled by definitions, answer through the walks along references |
| Containers (`unitscontainer.go`) | none (immutable values) | `Mul`, `Div`, `Pow`, `Rename`, `Key` | the keys of every cache |
| Quantities, units (`quantity.go`, `unit.go`, `extra.go`) | magnitude and container | `To`, `Add`, `Mul`, `Pow`, `ToCompact`, `PiTheorem`, ... | convert through the registry with `r.active` |
| Expression parser (`expr.go`, `preprocess.go`) | lexer, Go call stack | `parseScaledUnits` | its results are looked up name by name in the catalog |
| Definition parser (`defparser.go`) | block being read | `parseDefinitionFile` | `applyDef` puts its definitions in the registry |
| Completion (`complete.go`) | none | `Complete` | reads the catalog |
| Errors, definition files, test inventory, examples | none | | |

### What is hard here

* **Interleaving.** A conversion is not one critical section. `parseUnits` runs
  under `r.mu`; `dimensionality`, `rootUnits` and `conversionFactor` look in a
  cache under the lock, drop it, walk the catalog *without* it and take it again
  to store. The walk writes: `getName` interns prefixed units and
  `computeDimensionality` fills `dimCache`.
* **Partial failure.** A definition that is refused half way keeps what it had
  registered, and `Load` and `Define` then leave the caches alone.
* **Stale state.** Four caches, the synthesized prefixed units and the snapshot
  of contexts in a `ConverterOp` all copy something that can change later.
* **History.** Parsing changes the catalog, so an answer may depend on what was
  asked before.
* **Numeric edges.** `Converter` replaces a conversion by the line through its
  values at 0 and 1; sums of temperatures take another branch for each pair of
  kinds of units; `ToCompact` compares magnitudes on a logarithmic scale.
* **Recursion over data.** Definitions refer to each other without a check for
  cycles, groups with one that texts do not pass through, and the parsers keep
  state from line to line and from call to call.

`PROJECT.json` lists these as hazards, each at its line, with the properties
that watch it.

## Modules

### ConversionCaches

Goroutines calling `Convert`, `Converter` and `Dimensionality` on one registry,
and `Load`/`Define` between calls.

*State.* `lock` is `r.mu` when a goroutine is inside a critical section of
several steps; critical sections of a single map operation are one atomic action
guarded by `lock = Free`. `units` and `byName` are the interned prefixed units
present in `r.units` and in `r.unitByName`. `parseCache`, `dimCache`,
`rootCache` and `convCache` are the maps of the same names. `pc` and `frame` are
each goroutine's place in the code and its local variables. `loads`, `stale`,
`warmed` and `crashed` are history: loads so far, a failed load not yet followed
by a successful one, the calls that have completed on this catalog, the runtime
having thrown.

*Data.* The definitions are one element of `Catalog`. What the pure parts of the
code return on it is given by tables: `ParseOf`, `DimOf`, `FactorOf`, `RefOf` and
so on. `DimOf[c][u][S]` is the dimension a walk comes to when it passes over the
names `S`, which is how a half-interned unit shows in a result.

*Actions.* One per step between two points where another goroutine can
intervene. `ParseHit`, `ParseMiss`, `ParseDone` are `parseUnitsLocked`. `Look`,
`InternUnit`, `InternName`, `ReadName` are `getName` and the lookup of its
result, shared by the parser, `dimRecurse` and `rootRecurse`. `DimEmpty`,
`DimCheck`, `DimRead`, `DimWalked`, `DimWrite`, `DimStore` are `dimensionality`
and `computeDimensionality`, which look in `dimCache` twice and store twice.
`Dispatch`, `Validate`, `Compare` are the branches of `Converter` and
`convertIn`. `FactorCheck`, `RootEmpty`, `RootCheck`, `RootWalked`, `RootStore`,
`FactorStore` are `conversionFactor` and `rootUnits`. `LoadBegin`, `LoadApply`,
`LoadSucceed`, `LoadFail` are `Load` and `Define`, which measure a `@context`
header with `computeDimensionality` under the lock. `MapFault` is the Go runtime
stopping on a concurrent map access.

*Two contracts.* `Spec` is the documented one (`docs/go.md`): any number of
conversions at once, no `Load` among them. `WarmSpec` is the contract under
which the code is right: the first call of each kind on a catalog runs alone,
and nothing is called between a failed `Load` and one that succeeds.

*Properties.*

| Property | Says | Contract |
|---|---|---|
| `TypeOK` | registers and caches hold values of their kind | `Spec` |
| `LockOwned` | `r.mu` is held exactly by the goroutine between its Lock and Unlock | `Spec` |
| `FactorsCoherent` | `parseCache`, `rootCache`, `convCache` hold only what the catalog in force gives, even while calls race | `Spec` |
| `DimsCoherent` | so does `dimCache` | `WarmSpec` only |
| `AnswersCorrect` | every answer is that of an uncached sequential conversion | `WarmSpec` only |
| `NoDataRace` | no unordered conflicting accesses to a map | `WarmSpec` only |
| `ImplementsService` | the registry implements `ConversionService` | `WarmSpec` |
| `CallsReturn` | every call comes back | `FairWarmSpec` |
| `CompatibleIsConvertible` | an accepted `Converter` is between units of one dimension | violated |

### ConversionService

The promise: a registry with a catalog and no cache, where a call is asked,
answered from the catalog, and left, and the catalog changes only when no call
is in flight. `ConversionCaches` implements it under `WarmSpec` by mapping
`catalog` to `defs` and a goroutine's request and answer to `asked` and `reply`.

### MCConversionCaches

A catalog for TLC in which `liter` is defined by the prefixed unit `decimeter`
(as `default_en.txt` does), which the first walk interns; `degC` is an offset
unit, `dBm` a logarithmic one. In the second catalog `liter` has another size, so
that a value left from the first is visible, and a `@context` header measures it.

### UnitCatalog

One registry and one caller at a time: the definition maps, `Load` and `Define`,
and the lookups that write to the maps. Interleaving is not the subject here
(`ConversionCaches` has it); partial failure and history are.

*State.* `units`, `byName`, `prefixes`, `prefixList`, `dims`, `parseCache` and
`unitByExpr` are the registry's fields of (nearly) these names. `onRedefinition`
is the option of `NewRegistry`, chosen once. `pc` and `task` are the call in
progress: the lines left, the definition in hand and the keys it has still to
register. `stale` says that the last load failed, `refused` holds the canonical
names of registrations that stopped half way; both are history.

*Data.* A name is a sequence of tokens, `<<"kilo", "meter", "s">>`, so that a
prefix, a unit and a plural can be told apart where several readings exist. A
file is a sequence of parsed lines.

*Actions.* `Load` takes a file. `BeginUnit`, `BeginPrefix`, `BeginAlias`,
`AddDimension`, `BadLine` are the cases of `applyDef`; `UnitKey`, `DeltaKey`,
`AliasKey`, `PrefixKey` register one key each and stop at a taken one, as the
loops of `registerUnit`, `addAliases` and `registerPrefix` do; `UnitDone`,
`DeltaDone`, `AliasDone`, `PrefixDone` end those loops. `BuildCaches` is
`buildCaches`; `IndexUnit` and `IndexDone` are the loop of `catalogExprIndex`, which
ranges over a map in any order.
`BeginParse`, `ParseName`, `ParseDone` are `ParseUnits` and `Parse`; `Walk` is a
lookup by `dimRecurse` or `rootRecurse`. `Resolve` is `parseUnitName` and
`getName`, `Intern` the writes `getName` makes.

| Property | Says | Status |
|---|---|---|
| `TypeOK` | the maps hold definitions of their kind, `byName` each under its own name | checked, proved |
| `SpellingsLead` | a spelling leads to a canonical name that is defined, in progress, or on record as refused | checked, proved |
| `NothingRedefined` | a registry that raises on redefinition gives no name another meaning, in any step | checked, proved |
| `SynthesizedCurrent` | an interned prefixed unit agrees with its prefix, and the unit it multiplies is there | checked, proved |
| `DeltasExist` | an offset unit has its difference, unless the names were taken; in a registry that raises on redefinition it keeps the size and the reference | checked, proved |
| `ParsesStayFresh` | a cached parse is what parsing again would give | checked |
| `ParsedUnitsDefined` | a parsed container names defined units, but for the difference of a logarithmic one | checked, proved |
| `UniqueProducts` | the index of products does not depend on the order of the map | checked, proved |

Four properties leave out an outcome that the code has. `SpellingsLead` accepts a spelling of a unit whose
registration stopped half way (`registry.go:326`), as long as that is on record. `SynthesizedCurrent`
is of registries that raise: one that ignores redefinition keeps prefixed units with the old
value of their prefix. `ParsesStayFresh` does not speak of the time after a load that failed, when no cache was
rebuilt. `ParsedUnitsDefined` excuses the difference of a logarithmic unit, which is never defined.

`DeltasExist` and `ParsedUnitsDefined` have a guard for a registry that lets later lines
redefine. A later line may define `delta_celsius` as something else, which is what its
author asked for. It may also make an ordinary unit of a logarithmic one, whose difference a
cached parse can name until a load succeeds and empties the cache. The proofs met both; without
the guards the properties say more than the code promises, and `catalog` has lines for each.

### MCUnitCatalog

Nine files: metric prefixes and units; an offset and a logarithmic unit; a line
refused half way; a unit whose name a lookup may have interned; a delta unit's
symbol taken in advance, its name redefined afterwards, and the logarithmic unit redefined
as an ordinary one; a prefix that redefines one, after an alias; an alias,
a dimension and a malformed line; two and three names for one product. Eight
expressions, with plurals, prefixes, powers and quotients that cancel.

### ContextScopes

*State.* `contexts` is `r.contexts`, `active` is `r.active`, `ops` the
`ConverterOp` a goroutine holds, `pc` and `frame` its place in the code.
`frame.intent` is history: the contexts that were asked for, as they stood.

*Data.* A unit is its dimension, since the factor between units of one dimension
is `ConversionCaches`' business. `Eval` is what an equation comes to on bound
parameter values.

*Actions.* `EnableContext`, `DisableContext`; `Load`, which replaces contexts.
`BeginConverter` leads to `BindActive` (a copy of `r.active`) or `BindScope` (one
context after the other), then `Compile`, and for a pair of dimensions to two
rounds of `Search`, `Hop`, `Arrive`, at 1 and at 0, whose values `Finished` turns
into a line. `BeginRun` is `ConverterOp.Convert`, `BeginLive` is `Quantity.To`.
`ContextPath` is the breadth-first search as a recursive function of its turns, and a turn
one of the transforms of its scope. `Direct`, which the properties compare with, is a
conversion with nothing in between: `Walked`, the hops of the path one after the other.

*Contract.* `docs/go.md` and the comment on `EnableContext` forbid moving the
stack of a shared registry. So `Change` is disabled while a call reads the live
stack; it stays enabled during calls that brought a scope or hold a
`ConverterOp`, which must not notice.

| Property | Says | Status |
|---|---|---|
| `TypeOK` | every bound context has a value for each of its parameters | checked, proved |
| `CompiledAnswers` | a `ConverterOp` answers by the contexts asked for when it was compiled, whatever has happened to the stack and the catalog since | checked, proved |
| `LiveAnswers` | a quantity converts through the enabled contexts, the same for the path and every hop | checked, proved |
| `AcceptedConverts` | a pair that `Converter` accepts is never refused later | checked, proved if equations keep their dimension |
| `HopsLand` | after each hop the quantity has the dimension the path says | checked, proved |
| `PathsAreShortest` | the search finds a path exactly when one exists, and a shortest one | checked, proved |
| `OwnParameters` | each context hops with its own parameter values | violated |
| `ConvertMatchesTo` | a compiled conversion and `To` agree | violated |

### MCContextScopes

Four contexts over three dimensions: an inverse with a parameter, a scale that
`Load` may replace by a shift, a pair of transforms whose parameter must carry a
dimension, and a square. The scopes include one that orders two contexts, one with a
parameter of the wrong dimension, one with an unknown parameter, and the empty one. What an
equation comes to has a dimension that does not depend on the magnitude it is given, and a
quotient by zero is infinite, as in the code. TLC evaluates that as `EquationsAssumption`,
the hypothesis of `AcceptedAlwaysConverts` for scopes of one and two contexts, with more values
of the parameters than the scopes of the run give.

### Rationals, UnitsContainers, UnitAmounts

Operators without state. `Rationals` has fractions in lowest terms for float64, with
one value, `Inexact`, for whatever is no fraction. `UnitsContainers` has
the exponent maps and `ScaledUnits`. `UnitAmounts` takes the catalog as a constant:
the three converters, the dimensions and root units of a container as recursive
functions of the references, and the factor between two containers.

### ExpressionParser

`parseScaledUnits` over tokens. *State.* `stack` is the Go call stack: a frame of
`parseExpr` (its `minBP`, the operator it has read, its left operand), of a unary minus
or of a parenthesis. `text` and `err` are the lexer's, `at` says which call or
return comes next, `val` is the value returned. The text is not chosen in advance:
`Lex` draws a token when the code asks for one. *Actions.* One for each call and return:
`First`, `PlusSign`, `MinusSign`, `ReadOperand`, `OpenParen`, `NoOperand` are
`parseUnary` and `parsePrimary`; `FirstOperand`, `Infix`, `RightOperand`, `Leave` the loop of
`parseExpr`; `NegReturn`, `ParenReturn`, `Finish` what happens to its result.

The reference is a grammar with a rule for each level of precedence, `Derived`. `Value`, which
it makes of a text, has the values of every span of it; neither knows anything of binding powers.

| Property | Says | Status |
|---|---|---|
| `ParserMatchesGrammar` | an accepted text has exactly one value in the grammar, the one computed; a text refused at its end has none | checked, proved |
| `StackExplains` | the open parentheses are the pending calls, and no accepted text had an error | checked, proved |

### Quantities, DimensionalAnalysis

Operators again: `Convert` is `convertIn`, `Converter` and `OpConvert` the compiled line,
`AddSub` the branches of `addSub`, `MulDiv` and `PowQ` the products with
`autoOffsetToBase`, `ToCompact` the search for a prefix; `PiTheorem` and `Nullspace` the
row reduction, step by step on exact fractions. A result is the set that holds it, and the empty set
is an error.

### Calculator and Measures

`Calculator` composes the parser with the quantities: a text is read, by `Parse` or by
`ParseUnits` and `Quantity`, and operations follow. *State.* `q` is the quantity at
hand, `autoOffsetToBase` the option; `did`, `seen` and `done` are history. Actions:
`To`, `ConvertCompiled`, `Root`, `Compact`, `AddOrSub`, `MulOrDiv`, `Raise`,
`Negate`, `Multiple`, `Equal`, `Analyse`, one for each method of the API. A refusal or a question
changes nothing, so that it ends the session of the model: what could follow it follows
the same quantity elsewhere.

`Measures` is what arithmetic on quantities promises, without units: a quantity stands for
an amount in root units, which is a *vector* (an amount), a *point* on a scale with an
offset, or a *level*. Points have a difference and no sum, amounts move points, levels
multiply, and only those kinds or different dimensions excuse a refusal. `Calculator`
implements it by `measure <- seen.measure`.

| Property | Says | Status |
|---|---|---|
| `TypeOK` | containers have no zero exponents, magnitudes are numbers | checked |
| `CompactReadable` | `ToCompact` finds a magnitude from 1 to 1000 whenever a prefix it may use gives one, for negative ones too | checked |
| `PiGroupsComplete` | the groups are dimensionless and generate all dimensionless products, unless nothing has a dimension | checked |
| `ImplementsMeasures` | every operation does to the amounts what `Measures` says, or may be refused, by `convertIn` and by a compiled line alike | checked |

### MCCalculator

Lengths with two prefixes; kelvin, a scale with an offset and one with an offset and another
size, and their differences; the logarithm of a number and one of a power. Offsets and sizes
are small numbers, so that amounts are exact.

### DefinitionFiles, UnitGroups

Operators. `ReadLine` and `Flush` are a step of `parseDefinitionFile` and `finishBlock`. A
line comes as what it looks like (`name = value`, `name: old`, a header, a word); what
it means depends on the block. `Meant` and `Sensible` say the same of a whole text at
once: a `Section` is a header with the lines up to the next header or `@end`, `Starts` are the headers
and the lines outside of sections, and a line is `Placed` if its section takes it. `UnitGroups` has
`getOrCreateGroup`, `Expanded`, `WouldCycle` and `AddGroups` (`Include` is one turn of its loop); `Includes` is what inclusion means, by
closed sets.

### DefinitionLoading and RegistryQueries

*State.* The maps of the registry, with `groups`, `systems`, `contexts`, `defaults` and the four
caches; `pc`, `text`, `parsed`, `pending` are the `Load` in progress, `stale` says that the last one
failed after it parsed, so that no cache was rebuilt.

*Names.* A unit goes by one spelling and its aliases. `GetName` is `getName`: a name that is not
there is read with a prefix, or else as a plural, and an offset unit takes no prefix. `Split` and
`Plural` say how a spelling can be taken apart, in one way each; `UnitCatalog` takes names apart
itself and has several readings. `Intern` puts the prefixed units among the readings in the
registry, as `getName` does on the way, in whichever map and call it is asked from. A prefixed unit has the
name `PrefixedName`; `ReadingAssumption` says that this name is read as that prefix and unit, that the
plural of such a name is read in the same way, and that it takes no second prefix (one that does is in `UnitCatalog`).
No line of a text makes the name of a prefixed unit, or where redefinition is allowed the name of any
unit, an alias: the two maps then disagree for good (see below), and `UnitCatalog` has aliases that are taken.

*Actions.* `StartLoad`, `Read`, `EndOfText` read a text line by line; `ApplyImport`, `ApplyDefaults`,
`ApplyPrefix`, `ApplyDimension`, `ApplyDerived`, `ApplyAlias`, `ApplyUnit`, `ApplyGroup`, `ApplySystem`,
`ApplyContext` are the cases of `applyDef`, `LoadDone` is `buildCaches`; `Define`, `NewGroup`,
`AddUnits`, `AddGroups` are calls between loads. `Follow` is `dimRecurse` and `rootRecurse`: `DimEntries` and
`RootEntries` say what each name that can be read leads to, and a walk along them visits names until none is
left; `Met` is the names it comes by, which are interned also when it fails. A circle of
definitions fills the stack of the process (`MaxDepth`), which ends in `pc = "crashed"`.

`RegistryQueries` adds what callers ask: `Convert`, `AskCompatible` and `AskBaseUnits` are `Converter` between
single units, `CompatibleUnits` and `BaseUnits`. Each works through `ParseUnits`, `Dimensionality`,
`RootUnits` and `ConversionFactor`, which look in `parseCache`, `dimCache`, `rootCache` and
`convCache` first, in a registry of any past, failed loads included. `Looked` is what a call leaves behind:
what it was answered is remembered, and the prefixed units that it came by are interned. `rootCache` does not
tell callers that check for offsets from those that do not, as in the code. Rules of a system that cannot be
read and conversions that fail are passed over (`Fits`, `Replaced`). A call that meets several
errors reports the first; which units are interned before it is taken call by call, not name by name.

The properties compare with `UnitAmounts`, instantiated with the definitions as they are.

| Property | Says | Status |
|---|---|---|
| `TypeOK` | the maps and the caches fit together | checked, proved |
| `ParsedAsSections` | the line by line parse is what the sections of the text say | checked, proved |
| `WalksEnd` | what can be read is reduced to root units exactly when all chains of its references end in them, within the stack; only a name with a longer chain, such as a circle, fills the stack | checked, proved |
| `WalksAnswer` | what a name is reduced to is the amount that its references say | checked |
| `ExpandedIsInclusion` | `Expanded` finds the members of the included groups, circles of groups notwithstanding | checked, proved |
| `AddGroupsAcyclic` | `AddGroups` adds nothing that lies on a circle, also when it stops half way | checked, proved |
| `CachesStayFresh` | after a text loaded to its end, the four caches hold what a registry that remembers nothing would answer, although questions add units | checked, proved |
| `DimensionsStay` | where redefinition is refused, a dimension in a cache or a context to which defined names lead follows from the definitions after every step, failed texts included | checked, proved |
| `RootCoversRegistry` | the group `root` has all the compatible units but differences and the prefixed units that were asked about; no group or system has others than `root` | checked, proved |
| `BaseUnitsKeepAmount` | after a text loaded to its end, an amount in the base units of a system is the same amount, whichever rules are passed over and whatever was asked before | checked |

What the guards leave out is what the code does. After a text that failed, the caches answer from before it
until the next load that succeeds. `DimensionsStay` is what is left then, and only of names that are
defined: `yd = 3 km`, read as kilo and m and cached, has another dimension once a text defines `km`
otherwise, and if that text then fails the cache keeps the old one.

### MCDefinitions

A default file with lengths, an area, a prefix, a group, a system and a context, and lines for two
runs. `definitions` makes texts of twenty-one: lines that redefine what the file has, an offset unit without its
offset too, define a unit by itself in one or two steps, refer to it by a plural, are malformed, or mean
something else in every block; headers with and without names. `queries` has six, that define what was
read with a prefix (`km`) or refer to it, close circles, and change a dimension or an offset; and asks about
a prefixed unit, a unit, one with an offset and its reference, in all units and in a system.

## Runs

| Run | Configuration | Expects | Properties | Shows |
|---|---|---|---|---|
| `cold` | `ConversionCaches_cold.cfg` | pass | `TypeOK`, `LockOwned`, `FactorsCoherent` | Two goroutines under the documented contract, on cold caches and with one Load that may succeed or fail: whatever the interleaving, and while they race on the maps, the lock is owned by whoever is in its critical section and the parse, root and conversion caches hold only what the catalog says. |
| `warm` | `ConversionCaches_warm.cfg` | pass | `NoDataRace`, `DimsCoherent`, `AnswersCorrect`, `ImplementsService`, `CallsReturn` | When the first call of each kind on a catalog runs alone, concurrent calls neither race nor corrupt the dimension cache, across two Loads, failed and retried ones included, the registry is indistinguishable from one with no cache, and under fair scheduling every call and Load comes back. |
| `affine` | `ConversionCaches_affine.cfg` | pass | `FactorsCoherent`, `ImplementsService` | Two goroutines mixing offset, delta and logarithmic operands, refused and unknown ones: convertIn and the two sampling rounds of Converter share convCache and agree with the uncached answer. |
| `race` | `ConversionCaches_race.cfg` | violation | `NoDataRace` | Two goroutines that convert at once right after NewRegistry reach unlocked conflicting accesses to the registry's maps. |
| `compat` | `ConversionCaches_compat.cfg` | violation | `CompatibleIsConvertible` | Converter, and so Compatible, accepts a logarithmic source with a destination of another dimension, which Convert then refuses. |
| `catalog` | `UnitCatalog_catalog.cfg` | pass | `TypeOK`, `SpellingsLead`, `SynthesizedCurrent`, `DeltasExist`, `ParsesStayFresh`, `ParsedUnitsDefined`, `UniqueProducts`, `NothingRedefined` | Three loads out of nine definition files, lines refused half way included, between lookups that intern prefixed units, in a registry that raises on redefinition and in one that lets later lines take names over. |
| `scopes` | `ContextScopes_scopes.cfg` | pass | `TypeOK`, `CompiledAnswers`, `LiveAnswers`, `AcceptedConverts`, `HopsLand`, `PathsAreShortest` | The stack of enabled contexts moves between calls, and during those that brought a scope or hold a ConverterOp; contexts are replaced by Load; conversions search, hop and sample over three dimensions. |
| `scopes_params` | `ContextScopes_params.cfg` | violation | `OwnParameters` | Two contexts with a parameter of the same name: the second decides the value the first one uses. |
| `scopes_square` | `ContextScopes_square.cfg` | violation | `ConvertMatchesTo` | A transform that is finite at 0 and 1 and not a line: Convert and To disagree. |
| `calculator` | `Calculator_calculator.cfg` | pass | `TypeOK`, `ParserMatchesGrammar`, `StackExplains`, `CompactReadable`, `PiGroupsComplete`, `ImplementsMeasures` | Every text of at most five tokens, those with errors included, is parsed and turned into a quantity, on which up to two operations follow: conversions, sums, products, powers, ToCompact and PiTheorem on lengths, two temperature scales with their differences, and logarithmic units, with autoOffsetToBase on and off. |
| `definitions` | `Definitions_definitions.cfg` | pass | `TypeOK`, `ParsedAsSections`, `WalksEnd`, `WalksAnswer`, `ExpandedIsInclusion`, `AddGroupsAcyclic` | Up to two texts of up to three lines together, blocks that no @end closes, circular definitions and refused lines included, on an empty registry and on one with a default file, with a change of the groups in between: what the parser makes of them, what the names of the registry are then reduced to, those read with a prefix or as a plural included, and which groups include which. |
| `queries` | `Definitions_queries.cfg` | pass | `CachesStayFresh`, `RootCoversRegistry`, `BaseUnitsKeepAmount`, `DimensionsStay` | Two questions before, between and after the lines of a text that define, redefine or fail to define what was asked about: conversions, compatible units and base units of names that are read with a prefix or as a plural, answered from four caches and adding units to the registry. |

### What the violations mean

* `race` is a defect against `docs/go.md`: "After `NewRegistry`, many goroutines
  may convert at once." `AnswersCorrect` fails under `Spec` for the same reason,
  by a walk that meets a unit interned in `r.units` and not yet in
  `r.unitByName` and stores the wrong dimension for good; `warm` shows that both
  hold once the first call of each kind runs alone.
* `compat`: `Compatible("dBm", "s")` is true and `Convert` refuses.
* `scopes_params`: contexts share one name space of parameters.
* `scopes_square`: a transform that is finite at 0 and 1 is taken for a line.

`PROJECT.json` quotes, under `findings`, the line each disagrees with.

### Bounds

* Two goroutines: each conflict in this code is between a reader and a writer or
  between two writers of one map, and a third caller adds no new kind of overlap.
  The invariants of `ConversionCaches` and its refinement are proved for any number.
* `MaxLoads` 1 in `cold` (a load, failed or not, with cold calls around it), 2 in
  `warm` (a failed load and its retry), 0 where catalogs are not the question, 3 in
  `catalog` (a file, one that clashes with it, and a third after the failure).
* Requests: three on the metric part, where one interns while it parses under the
  lock and two by a walk without it, one of them to be refused; seven on the affine part, one for each branch of `Dispatch` and
  `Validate`.
* `MaxActive` 2 and one goroutine in `scopes`: two contexts are enough for an order
  and a clash of names, and callers share nothing but the stack, whose moves
  `Change` supplies at every step of the caller. The search is compared with
  reachability at every search of every run, so over all scopes and pairs of
  dimensions.

* `calculator`: texts of five tokens (`MaxTokens`) hold two operators in every order, with
  signs and parentheses; quantities are read from texts of three (`MaxRead`), and two
  operations follow (`MaxOperations`), since the second meets what the first leaves: a
  difference, a root unit, a power. `MaxNumerator` 1200, `MaxDenominator` 8 and `MaxDegree` 2 keep
  numbers and containers small, with room for a magnitude beyond 1000. `MaxPower` 12 bounds
  levels.
* `definitions`: three lines (`MaxLines`) make a header, a line of its block and one more, in one text or
  two (`MaxLoads`), and one call in between (`MaxCalls`). `MaxDepth` 8 stands for the stack of the
  process; no chain of definitions without a circle is longer here. Nothing is asked (`Asked`, `Place`
  empty): 2,164,269 distinct states.
* `queries`: two questions (`MaxCalls`), since the second meets what the first left in the caches and in the
  registry, before or after a text of two lines (`MaxLines`, `MaxLoads` 1) of which the second may fail; the
  default file is a load of its own. `MaxDepth` 6 is the longest chain there is: 68,209 distinct states.
* Deadlock is not checked where the bounds end a behaviour: calls, loads and sessions are
  bounded, and a process that has crashed stops.

### Fairness

`FairWarmSpec` adds, for each goroutine, strong fairness of its steps as long as
the runtime has not thrown. The Go scheduler runs every runnable goroutine, and
`sync.RWMutex` queues waiters, so a goroutine that finds the lock free again and
again gets it; weak fairness would not say so, since `lock = Free` comes and goes.
Nothing is assumed about calls being made: `CallsReturn` says that one that has
begun ends. `WalkOf` is finite, so that a cyclic definition, which would recurse for
ever, is outside this model.

## Proofs

All theorems are checked by `tlapm`; the constants are arbitrary but for the named
assumptions.

### ConversionCachesProofs

Assumptions: `TableAssumption` (the tables are functions of their kinds),
`DistinctAssumption` (the markers are not values).

* `TypeCorrect` (`Spec => []TypeOK`). `TypeInv` adds to `TypeOK` what the registers
  hold at each place in the code; `StepRegisters`, `LoadStepRegisters` and
  `BeginRegisters` show that every step leaves registers that fit the place it goes
  to, and `StepShared` that every write to a shared map is of its kind.
* `LockCorrect` (`Spec => []LockOwned`). A goroutine is in a section of several steps
  exactly if it is the owner: one case for each way in and out.
* `FactorsStayCoherent` (`Spec => []FactorsCoherent`). The hard one: a value computed
  without the lock is stored under it later. The inductive invariant `FactorInv` says
  that what a goroutine carries between check and store is what the catalog in force
  gives. It needs `LoadsAlone`: while a load runs no goroutine carries anything, which
  is the documented contract and the reason why a value cannot straddle a change.

### ConversionServiceProofs

The same registry under `WarmSpec`. Assumptions: those above and `CatalogAssumption`.

* The argument. A call that has been answered leaves in the caches everything that it asks
  for (`Known`), and stores only add to the caches until the next load. So a warm call takes
  the hit at every check, never walks, and only reads. A cold call and a load run
  alone, so that nobody else touches what they write.
* The invariant `WarmInv`, on top of the three of `ConversionCachesProofs`. `Exclusive`: a
  goroutine in a cold call or a load is the only one out. `Interned`: the half-interned units of
  a walk are its own, and outside a walk `units` and `byName` agree. `StaleInv`: what a
  failed load leaves is known to be stale. `KnownInv`: a call in `warmed` is `Known`.
  `CallsInv`: what each goroutine holds at its place in the code is right for the catalog.
  None of the parts is inductive without the others: that dimensions are right needs that no
  walk passed over a half-interned unit, which needs that nobody else was walking, which
  needs that warm calls find all they look for.
* From it `WarmCallsNeverRace` (`NoDataRace`), `DimsStayCoherent` (`DimsCoherent`),
  `AnswersStayCorrect` (`AnswersCorrect`), and `RegistryImplementsService`: the initial states
  map to initial states, the step that finishes a call to the service's answer, a begin and a
  return to the asking and the leaving, a load that succeeds or fails to a change of catalog
  or to none, and every other step to a stutter.

### UnitCatalogProofs

Assumptions: `OptionAssumption`, `FileAssumption` (what `parseDefinitionFile` yields).

`RegistrationInvariant` is `Spec => []IInv`. Neither property is inductive: in the
middle of `registerUnit` a spelling leads to a name that `r.unitByName` does not have
yet. `TaskInv` ties the keys left to the keys of the definition in hand (either none has
been registered or the first of them, the canonical name, has), and `FreshInv` says that
a name being registered for the first time has no definition yet. `SpellingsAlwaysLead`
and `NothingEverRedefined` follow; the second is an action property, proved step by step
from `IInv`.

The second half adds `LookupAssumption` (expressions are lists of names with powers).
`ContentsInvariant` is `Spec => []ContentsInv`, which adds to `IInv` what the maps
hold, a part for each map with what the call in progress has in hand for it:

* `UnitsInv`, `PrefixInv`, `RecordInv`, `ParseInv`: definitions and containers of their kind, up to
  the definition being registered and the term being parsed. They give `RegistryWellFormed`
  (`TypeOK`).
* `DeltaInv` gives `DeltasAlwaysExist` (`DeltasExist`). Between the last key of an offset unit and
  the first of its difference the property is false, so the invariant names that difference as the
  one about to be registered. It rests on `DeltaNameInjective`: no two units share a difference.
* `SynthesizedCurrent` is inductive with the others, by `NamesStay`: under "raise" a definition
  that is there stays. It gives `SynthesizedStaysCurrent`.
* `DefinedInv` gives `ParsedUnitsAlwaysDefined` (`ParsedUnitsDefined`): the container being built
  names defined units too, and what was defined stays so.
* `IndexInv` gives `IndexedProductsUnique` (`UniqueProducts`). It is the loop invariant of
  `catalogExprIndex`: the index is `UniqueIndex` of the products passed so far, and `ambiguous`
  has those met more than once. After the load, a lookup interns units that are no products.

### CalculatorProofs

`StackAlwaysExplains` is `Spec => []StackExplains`, for texts of any length; it needs no
assumption. `StackExplains` says nothing of the places where a value is being returned, so
that it is not inductive. `IInv` says there too that the pending calls are the parentheses that the
tokens *read* leave open (`Open`: the token ahead does not count yet), that the loop of
`parseExpr` has its own frame on top of the stack, and that the frames are a sequence of
calls. Two lemmas carry it: `LexReads`, that reading a token counts the one that was ahead,
an unreadable one included; and `NoTokenAfterError`, that no token is read after an error,
since the lexer then shows the end of the text. There is one lemma for each action of the parser;
the operations of `Calculator` leave the parser alone.

`ParserComputesGrammar` is `Spec => []ParserMatchesGrammar`: the binding powers of the code come to
the rules of the grammar, for texts of any length with any numbers and names. It needs no assumption
either, and no law of arithmetic: nothing is used of `Apply` and `Accepts`, only where they are asked.

* *The grammar.* `Value` is recursive over spans, and `ValueDerived` shows that the recursion has a
  solution, by induction over a weight: the length of the span, and how loose the rule is
  (`Looseness`) where a rule goes on to a tighter one for the same span.
* *Pending calls.* A call takes values that may be returned to it, told by the place of the word ahead,
  to those that it returns in turn (`Through`). For the loop of `parseExpr` that is a set closed under
  its turns (`Exits`, `Reach`): from the values of a unary, those that a loop with
  a given least binding power leaves with are those of the rule that this power stands for
  (`ExitsRule`: 0 a sum, 11 a term, 21 and 30 a power). This is the heart of it, by induction over what is left of the
  text; `Levels` is the same fact about the grammar, that a looser rule is a chain of tighter ones.
* *The invariant.* The text is drawn as it is read, so that `GInv` speaks of every text `T` that begins with
  what has been read: the pending calls, from the innermost to the outermost, make of what is
  about to be returned the values that the grammar gives `T` (`Explains`). One lemma for each action
  says that its step is one step of the grammar. When the text has ended, it is its own
  continuation (`TextEnds`), and no other call is pending: the value at hand is the only one. Where an
  operator does not accept its operands or an operand is missing, the values are none (`NothingReturned`).

The library's induction theorem on numbers takes an operator as a parameter; `NumberInduction` is
induction for an explicit set of numbers, proved from the well-founded order of the numbers.

### PathSearchProofs

The search of `contextPath`, for any finite set of dimensions and any scope: no induction over the
behaviour but one over the turns of a loop. The loops are recursive functions, and that their
recursion has a solution is itself proved (`LoopTurns`, `SearchTurns` and, for the hops, `WalkTurns`), by
induction over a set of numbers.

The loop over the transforms has the invariant `Extended`: the queue has grown by the path and one
dimension more for each neighbour not seen before. The search has `SearchInv`: the paths queued are
walks over transforms that end in a dimension seen (`Queued`), are ordered by length with two
lengths at most (`Ordered`), and are shortest (`Shortest`); a dimension whose path has left the
queue has its neighbours seen (`Explored`); every dimension within fewer hops has been seen
(`Swept`); and the dimensions seen count the turns and the queue (`Counted`). By `Counted` the
search is over after `Cardinality(Dim)` turns, which is where the model ends it, so that the bound
in `ContextPath` cuts nothing off. The conclusion is `PathIsShortest`.

### ContextScopesProofs

Assumptions: `ScopeAssumption` (finitely many dimensions, errors are not numbers) and
`CatalogAssumption` (transforms lead between dimensions, scopes are lists). `Eval` is arbitrary: an
equation may come to anything, but for the last theorem.

`ScopesInvariant` is `Spec => []ScopesInv`. What the properties say of answers, the invariant says of
the conversion on its way: after i hops a goroutine holds what the first i hops of `Direct` make of
its magnitude, and the rest of their path (`HopRight`). `BindRight` says it of a scope half bound,
`SearchRight` of the first of two samples, which the second needs to make a line, `OpRight` of the
`ConverterOp` that is kept, `ReturnRight` of the answer. A `ConverterOp` that is run over hops, not
by its line, is one whose sample at 0 was refused; the invariant carries that too. For
a call through the live stack `Direct` is of `active`, and the proof uses the contract that nobody
moves the stack meanwhile; for the others `Change` is one of the cases and leaves their own lists
alone. From it `BoundContextsTyped` (`TypeOK`), `CompiledConversionsAnswer` (`CompiledAnswers`),
`LiveConversionsAnswer` (`LiveAnswers`), `HopsArriveWhereThePathSays` (`HopsLand`) and, with
`PathIsShortest`, `SearchesFindShortest` (`PathsAreShortest`).

`AcceptedAlwaysConverts` is `AcceptedConverts`, under the hypothesis `EquationsKeepDimension`: with the
parameters of a scope, an equation gives every magnitude of one dimension the same dimension, and refuses
all of them or none. Without it the property is false, since `Converter` looks at 0 and 1 only. In the code
sums need equal units (`expr.go:289`) and products add exponents, so only an equation with `value` in the
exponent of a unit would break it. `DirectAlike`, by induction over the hops, says that two magnitudes then
go the same way along a path and are refused together; `AcceptedInv`, inductive beside `ScopesInv`, that
the endpoints of a `ConverterOp`, and of a call that runs one, were not refused at 1.

### DefinitionLoadingProofs

`TextsReadAsSections` is `Spec => []ParsedAsSections`, for texts of any length and any lines. The
invariant, `ReadRight`, says what the parser holds when a text ends in the middle of a section. The
definitions so far are those of `Finished`, which leaves out the open section; the header and the body
are the open section and its lines; every line is known to be where it may be except the lines that
are `Waiting` for the end of their section; and a refusal has a reason. `ParsedAsSections` alone is
not inductive: it looks at the parser after `Flush`, which forgets what the next line needs.

A line more leaves the sections of the lines before it as they are (`SectionStays`), adds itself to
one section (`LinesGrow`) and is an `@end`, a header, a line of the open section or one outside of
sections: one lemma for each (`EndReadRight`, `HeaderReadRight`, `InsideReadRight`,
`OutsideReadRight`), and `FlushDecides` for the end of a section. `InOrder`, the numbers of a set in
order, is a recursive function, so `CountingTurns` first proves that its recursion has a solution.
`Block`, what a kind of block makes of its lines, may be any function of the header and the lines.

The three properties of groups rest on one invariant, `GroupsInv` (`GroupsStayWhole`). Its
assumption is `TextAssumption`: the names of groups are text, and a line of a text is in no group yet.
Groups are finitely many and keep their parts; `Applicable` and `ParsedTyped` say of what is left to
apply, and of what the parser holds, that its blocks and members have the parts groups are made of,
through `@import` and the lines that a block hands on; `UnitsOfRoot` that root uses every group
(`UsedByRoot`) and has every unit but differences and the names of prefixed units, which questions add to
the registry and to no group, and that members are units or strays. The properties alone say
nothing of texts still to be applied.

* *The walk.* `Reached` is a recursion over the groups seen and the names still to visit, and neither
  shrinks in every turn. `Least` is the set that a walk leads to, in closed sets; each turn
  leaves it as it is (`LeastTurns`), so that it solves the recursion, and any solution is it
  (`VisitEnds`: induction over what is not seen and, within it, over what is left to
  visit). `ReachedIncluded` follows: a walk comes by what the group includes.
* `ExpandedAlwaysFinds` (`ExpandedIsInclusion`) is that, for the groups of a registry.
* `CallsCloseNoCircle` (`AddGroupsAcyclic`, an action property). `Enlarged` says what a call may make of
  groups, and is the invariant of the loop over its names (`IncludeEnlarges`). A name adds one
  inclusion that closes no circle and lies on none of those added before: by the check if
  the group was there (`UseClosesNothing`), since it is empty if not (`NewClosesNothing`);
  and inclusions added before stay on no circle (`AcyclicGrows`). No step assumes that there was no circle
  before the call.
* `RootAlwaysCovers` (`RootCoversRegistry`): what a group includes, root includes (`RootFindsAll`).

### ReferenceWalkProofs

Assumptions: `LoadingAssumption`, `TextAssumption` and `ReadingAssumption` of `DefinitionLoading` and
`AskingAssumption`, which say that names are text, that scaled units have finitely many names, that a context
goes by at least one, and how the name of a prefixed unit is read; `MaxDepth` is any number, so that the theorems hold for a stack of any size.

* *Numbers.* `Fraction` and `Power` stay within `Rational`: that the recursions of Euclid and of `Raised`
  have solutions is proved first (`EuclidTurns`, `RaisedTyped`), and then that the greatest common divisor
  divides nothing to zero (`GcdBetween`).
* *Walks.* `Follow` is a recursion over infinitely many walks, and TLA+ gives such a recursion a value only if
  it has a solution. `FollowStops` shows that it has one and what it is: the answer is that of a walk at which a
  walk stops (`Comes`, those in every set that no turn leads out of). `WalkSettles` shows that every walk
  stops: by induction over the names the stack still holds and, within one depth, over the items left to
  visit. The same induction says how it stops (`Settled`): all items are done exactly if their names are
  in `WithinTurns`, and a full stack means that one is in `BeyondTurns`.
* `WalksEndWhereTheyCan` (`WalksEnd`) is that, with `Complete` and `Endless` for the two recursions.
* `AnswersStay`: entries that are added to those a walk needed change none of its answer; and
  `DimensionsFound`: the dimensions that a walk finds are dimensions of the registry.
* `LoadedTypeCorrect` (`TypeOK`). `TypeOK` says nothing of texts that are still to be applied nor of the numbers in
  definitions; the inductive invariant `LoadingInv` is `GroupsInv` with `RegistryOK` (scales are
  numbers, references are products with finitely many names), `CacheOK`, `ContextsOK` and `SessionOK`.
* *Questions.* `LookedTyped` says what any call leaves behind, and `ConvertAsks`, `CompatibleAsks`,
  `BaseUnitsAsk` that each call is of that kind. `ReadingsStay` is the heart of it: once the
  prefixed units that were met are interned, every name is read as before and stands for the same unit, so
  that no walk is changed by a question. It needs `ReadingAssumption`: the plural of a full name that has
  just come into the registry was read with the prefix before.
* `CachesAlwaysFresh` (`CachesStayFresh`). `FreshInv` extends the property to the time in which the next text is
  read. An answer that is remembered is that of a walk over the definitions as they are (`ReadingsRemembered`,
  `RootsRemembered`, `FactorsRemembered`); a load that ends well empties the caches, one that fails sets `stale`.
* `DimensionsAlwaysStay` (`DimensionsStay`, an action property). A registry that raises on redefinition only
  `Learns`, a failed text included: names, units and dimensions that are there stay, which is one case for each
  kind of definition (`RegistryKept`). What defined names lead to is then still there
  (`LearnsExtends`), and `AnswersStay` applies to all that is cached and to all that contexts keep.

### Model-checked only

* `CallsReturn` is liveness under fairness, out of the prover's reach.
* `ParsesStayFresh` is false for an arbitrary catalog. Let a unit be spelled `kkilometer`, with `k` and
  `kilo` for prefixes. `kkilometers`, parsed before `kilometer` is interned, is that unit; afterwards it
  is also `k` before `kilometer`, and `parseUnitName` prefers prefixes. No unit of the run's catalog, and
  none of the embedded one, is spelled as a prefix before the full name of a prefixed unit.
* `CompactReadable`, `PiGroupsComplete`, `ImplementsMeasures` and `TypeOK` of
  `Calculator` speak of values computed by recursion over prefixes and rows.
* `WalksAnswer` and `BaseUnitsKeepAmount` say that two orders of multiplying come to the same amount: that of
  the walk, and that of the recursive function over the catalog in `UnitAmounts`. That takes the laws of
  fractions in lowest terms, which are nonlinear arithmetic, and folds over sets. That the walk
  ends, and for which names, is proved.

## Not modelled

* Text: runes, number literals, comments, the syntax of a definition line and its modifiers, the
  rewriting of Unicode and word operators (`preprocess.go`), keys and formatting. What they
  come to is a token, a line of a kind, or a constant.
* `Complete` and its ranking. It matches beginnings of names character by character, with
  folded case, which is the text that the models leave out. On the registry it does what
  `ParseUnits` of the text before the cursor does, and that is modelled.
* Case-insensitive lookup, which returns the first match in the order of a Go map.
* Logarithmic units and symbols in `DefinitionLoading`: `UnitCatalog` has them.
* Floating point: numbers are fractions, and rounding, tolerances and overflow are not in question.
* Groups under goroutines: `AddUnits` writes without `r.mu`. `ConversionCaches` has the
  goroutines and no groups.
* The name `dimensionless`, which `getName` reads as no unit; spellings with several prefixes or plurals in
  `DefinitionLoading`; the goroutines of `ConversionCaches` together with definitions.
* `RWMutex` readers: `ConversionCaches` takes read and write locks for one lock, which
  allows fewer overlaps of sections that are atomic anyway.
* Offset units inside a context conversion; defaults of context parameters in texts.
* `pinttest`, `tools`, `examples`: they only call the package.

### Seen on the way

What the modules say of the code and no document contradicts:

* `-2**2` is 4: the sign binds tighter than the power (`parseUnary` reads an operand, not a power).
* A reading with a prefix wins over a plural, also where the two are different units: with `minute` spelled `min`
  and `inch` spelled `in`, "mins" is milliinch. The comment at `registry.go:589` speaks of equivalent readings.
* `PiTheorem` returns no group at all when every quantity is dimensionless.
* `ParseDefinition` refuses a derived dimension with a unit in it, and `Load` accepts it.
* `AddUnits` with an alias makes `CompatibleUnits` list a name that is not canonical.
* What the plural of a unit parses to can depend on which prefixed units were looked up before, if
  the unit is spelled as a prefix before the full name of one of them.
* A unit that is redefined without its offset, where redefinition is allowed, leaves its difference
  behind: `CompatibleUnits` lists it, and no group has it.
* A text can make a circle of groups that `AddGroups` would refuse; `Expanded` copes.
* The name of a prefixed unit may be an alias of another unit, with no entry of its own in `r.unitByName`: `dimRecurse`
  then skips it (`convert.go:613`), and `rootRecurse` calls it undefined (`convert.go:669`).
* `rootCache` leaves `checkNonmult` out of its key. For a base unit with an offset, which no embedded file
  defines, whether a factor is a number or NaN depends on who asked first. `CachesStayFresh` accepts both.
* `CompatibleUnits` in all units lists prefixed units once they were asked about; no group ever has them.
* `BaseUnits` of a system whose rule is an offset unit leaves the offset out.

## Plan

Done: `ConversionCaches` and `ConversionService`; `UnitCatalog`; `ContextScopes`;
`Calculator` with `Measures`; `RegistryQueries` on `DefinitionLoading`; the proofs above.

Next:

1. **Proofs.** `TypeOK` of `Calculator`; laws of the containers and the converters.
2. **Groups under goroutines**: `AddUnits` and `Expanded` next to `Load`.
3. **Case-insensitive lookup** in `UnitCatalog`, over names with a folded form.
4. **Completion**, over names as short sequences of letters.
