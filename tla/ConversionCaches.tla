-------------------------- MODULE ConversionCaches --------------------------
(***************************************************************************)
(* Many goroutines converting on one Registry (convert.go).  A call is not *)
(* one critical section: ParseUnits runs under r.mu, but dimensionality,   *)
(* computeDimensionality, rootUnits and conversionFactor look in a cache   *)
(* under the lock, drop it, walk the catalog without it, and take it again *)
(* to store.  The walk itself interns prefixed units (getName) into        *)
(* r.units and then r.unitByName, one map after the other.                 *)
(*                                                                         *)
(* The catalog is data: one element of Catalog stands for the definitions  *)
(* loaded at a time, and the tables below say what the pure functions of   *)
(* the code return on it.  The control is complete: every cache, every     *)
(* lock acquisition, every unlocked access and the order they happen in.   *)
(* No context is enabled here (contextPath is nil): ContextScopes has them.*)
(***************************************************************************)
EXTENDS Naturals, Sequences

CONSTANTS
  Goroutine,      \* callers
  Catalog,        \* possible contents of the definition maps
  Expr,           \* unit expressions, the strings callers pass
  Container,      \* UnitsContainers
  Name,           \* prefixed units that a walk may have to intern
  Dim,            \* dimension containers
  Factor,         \* conversion factors
  Request,        \* the calls a goroutine may make
  MaxLoads,       \* bound: Load/Define calls that are not retries
  Empty,          \* the empty UnitsContainer
  Dimensionless,  \* its dimension
  Absent,         \* no entry in a map
  Free,           \* r.mu not held
  Undefined,      \* UndefinedUnitError
  Mismatch,       \* DimensionalityError
  Identity,       \* src and dst are the same container: factor 1
  Compiled        \* a ConverterOp that was not sampled (logarithmic)

CONSTANTS
  ParseOf,        \* [Catalog -> [Expr -> Container or Undefined]]
  InternsOf,      \* [Catalog -> [Expr -> Seq(Name)]] looked up while parsing
  WalkOf,         \* [Catalog -> [Container -> Seq(Name)]] looked up in a walk
  DimOf,          \* [Catalog -> [Container -> [SUBSET Name -> Dim]]]: the
                  \* dimension a walk that skips those names comes to
  FactorOf,       \* [Catalog -> [Container -> Factor]] scale to root units
  Ratio,          \* [Container -> [Container -> Container]] UnitsContainer.Div
  OffsetOf,       \* [Catalog -> SUBSET Container] not onlyMultiplicative
  LogOf,          \* [Catalog -> SUBSET Container] hasLogarithmic
  InvalidOf,      \* [Catalog -> SUBSET Container] validateOffset fails
  DeltaMixOf,     \* [Catalog -> SUBSET (Container \X Container)] offset
                  \* against delta_ units
  RefOf,          \* [Catalog -> [Container -> Container]] offset unit replaced
                  \* by its reference (addOffsetRef)
  HeaderOf        \* [Catalog -> Container] a dimension in a @context header

Ops == {"convert", "converter", "dimensionality"}
Result == Factor \cup Dim \cup {Undefined, Mismatch, Identity, Compiled, Absent}

ASSUME TableAssumption ==
  /\ Request \subseteq [op : Ops, from : Expr, to : Expr]
  /\ MaxLoads \in Nat
  /\ Empty \in Container /\ Dimensionless \in Dim
  /\ ParseOf \in [Catalog -> [Expr -> Container \cup {Undefined}]]
  /\ InternsOf \in [Catalog -> [Expr -> Seq(Name)]]
  /\ WalkOf \in [Catalog -> [Container -> Seq(Name)]]
  /\ DimOf \in [Catalog -> [Container -> [SUBSET Name -> Dim]]]
  /\ FactorOf \in [Catalog -> [Container -> Factor]]
  /\ Ratio \in [Container -> [Container -> Container]]
  /\ OffsetOf \in [Catalog -> SUBSET Container]
  /\ LogOf \in [Catalog -> SUBSET Container]
  /\ InvalidOf \in [Catalog -> SUBSET Container]
  /\ DeltaMixOf \in [Catalog -> SUBSET (Container \X Container)]
  /\ RefOf \in [Catalog -> [Container -> Container]]
  /\ HeaderOf \in [Catalog -> Container]

ASSUME DistinctAssumption ==
  /\ Free \notin Goroutine
  /\ Absent \notin Container \cup Dim \cup Factor
  /\ Undefined \notin Container \cup {Absent}
  /\ Absent \notin {Mismatch, Identity, Compiled} \cup Request

\* What the code relies on in a catalog: an empty container has factor 1 and no
\* dimension, and an offset unit has the dimension of its reference.
ASSUME CatalogAssumption ==
  \A c \in Catalog :
    /\ DimOf[c][Empty][{}] = Dimensionless
    /\ WalkOf[c][Empty] = << >>
    /\ \A u \in Container : DimOf[c][RefOf[c][u]][{}] = DimOf[c][u][{}]

VARIABLES
  lock,        \* r.mu: the goroutine inside a multi-step critical section
  defs,        \* the catalog now in the definition maps
  units,       \* interned names present in r.units
  byName,      \* interned names present in r.unitByName
  parseCache, dimCache, rootCache, convCache,
  pc,          \* next step of each goroutine
  frame,       \* its local variables
  loads,       \* Load/Define calls so far, not counting retries
  stale,       \* a Load or Define failed half way and rebuilt no cache
  warmed,      \* calls that have run to the end on this catalog
  crashed      \* the Go runtime stopped on a concurrent map access

vars == <<lock, defs, units, byName, parseCache, dimCache, rootCache,
          convCache, pc, frame, loads, stale, warmed, crashed>>
maps == <<units, byName>>
caches == <<parseCache, dimCache, rootCache, convCache>>
history == <<loads, stale, warmed, crashed>>

PC == {"idle", "parse", "look", "put1", "put2", "read", "mult", "check",
       "compare", "dcheck", "dread", "dwrite", "dstore", "fcheck", "rcheck",
       "rstore", "fstore", "return", "load", "loadend"}

\* side: which of src, dst is being parsed or measured; kind: which function is
\* walking; phase: which caller dimensionality answers; rounds: convertIn calls
\* completed (Converter samples at 0 and at 1).
NoRequest == [op |-> "none", from |-> "none", to |-> "none"]
LoadRequest == [op |-> "load", from |-> "none", to |-> "none"]
NewFrame(q) ==
  [req |-> q, side |-> "src", src |-> Empty, dst |-> Empty, a |-> Empty,
   b |-> Empty, arg |-> Empty, kind |-> "parse", todo |-> << >>, skipped |-> {},
   phase |-> "factor", rounds |-> 0, sd |-> Absent, dd |-> Absent,
   val |-> Absent, ans |-> Absent]

EmptyParseCache == [e \in Expr |-> Absent]
EmptyCache == [u \in Container |-> Absent]
EmptyConvCache == [p \in Container \X Container |-> Absent]

Init ==
  /\ lock = Free /\ defs \in Catalog /\ units = {} /\ byName = {}
  /\ parseCache = EmptyParseCache /\ dimCache = EmptyCache
  /\ rootCache = EmptyCache /\ convCache = EmptyConvCache
  /\ pc = [g \in Goroutine |-> "idle"]
  /\ frame = [g \in Goroutine |-> NewFrame(NoRequest)]
  /\ loads = 0 /\ stale = FALSE /\ warmed = {} /\ crashed = FALSE

Goto(g, l, f) == /\ pc' = [pc EXCEPT ![g] = l]
                 /\ frame' = [frame EXCEPT ![g] = f]

Idle(g) == pc[g] = "idle"
Loading == \E g \in Goroutine : frame[g].req = LoadRequest /\ ~Idle(g)
MultEither(f) == f.src \notin OffsetOf[defs] \/ f.dst \notin OffsetOf[defs]   \* mutant
Mult(f) == f.src \notin OffsetOf[defs] /\ f.dst \notin OffsetOf[defs]
Logarithmic(f) == f.src \in LogOf[defs] \/ f.dst \in LogOf[defs]

\* r.mu.Lock and r.mu.Unlock around a critical section of several steps.
LockForgotten(g) == lock = Free /\ UNCHANGED lock   \* mutant
Lock(g) == lock = Free /\ lock' = g
UnlockForgotten == UNCHANGED lock   \* mutant
Unlock == lock' = Free

-----------------------------------------------------------------------------
(* Calls begin and end *)

\* A goroutine calls Converter, Convert or Dimensionality.  Load is not
\* concurrent with it: that is the caller's duty (registry.go:14).
Begin(g, q) ==
  /\ Idle(g) /\ ~Loading
  /\ Goto(g, "parse", NewFrame(q))
  /\ UNCHANGED <<lock, defs, maps, caches, history>>

Return(g) ==
  /\ pc[g] = "return"
  /\ Goto(g, "idle", NewFrame(NoRequest))
  /\ warmed' = warmed \cup {frame[g].req}
  /\ UNCHANGED <<lock, defs, maps, caches, loads, stale, crashed>>

Answer(g, f, x) == Goto(g, "return", [f EXCEPT !.ans = x])

-----------------------------------------------------------------------------
(* parseUnits: under r.mu, from the cache check to the store *)

OperandFrom(f) == f.req.from   \* mutant
Operand(f) == IF f.side = "src" THEN f.req.from ELSE f.req.to

\* What Converter or Dimensionality does with a parsed operand.
Parsed(g, f, u) ==
  IF f.req.op = "dimensionality"
  THEN Goto(g, "dcheck", [f EXCEPT !.arg = u, !.phase = "answer"])
  ELSE IF f.side = "src"
  THEN Goto(g, "parse", [f EXCEPT !.src = u, !.a = u, !.side = "dst"])
  ELSE LET f1 == [f EXCEPT !.dst = u, !.b = u]
       IN  IF f.src = u THEN Answer(g, f1, Identity) ELSE Goto(g, "mult", f1)

ParseHit(g) ==
  /\ pc[g] = "parse" /\ lock = Free
  /\ parseCache[Operand(frame[g])] # Absent
  /\ Parsed(g, frame[g], parseCache[Operand(frame[g])])
  /\ UNCHANGED <<lock, defs, maps, caches, history>>

ParseMiss(g) ==
  /\ pc[g] = "parse"
  /\ parseCache[Operand(frame[g])] = Absent
  /\ Lock(g)
  /\ Goto(g, "look", [frame[g] EXCEPT !.kind = "parse", !.skipped = {},
                        !.todo = InternsOf[defs][Operand(frame[g])]])
  /\ UNCHANGED <<defs, maps, caches, history>>

ParseDone(g) ==
  LET f == frame[g]
      u == ParseOf[defs][Operand(f)]
  IN  /\ pc[g] = "look" /\ f.kind = "parse" /\ f.todo = << >>
      /\ Unlock
      /\ IF u = Undefined
         THEN Answer(g, f, Undefined) /\ UNCHANGED parseCache
         ELSE /\ parseCache' = [parseCache EXCEPT ![Operand(f)] = u]
              /\ Parsed(g, f, u)
      /\ UNCHANGED <<defs, maps, dimCache, rootCache, convCache, history>>

-----------------------------------------------------------------------------
(* getName and the lookup of its result, the same for the three walkers.   *)
(* parse and load hold r.mu here; dim and root do not.                     *)

Key(g) == Head(frame[g].todo)
Forward(f) == [f EXCEPT !.todo = Tail(f.todo)]

Look(g) ==
  /\ pc[g] = "look" /\ frame[g].todo # << >>
  /\ Goto(g, IF Key(g) \in units THEN "read" ELSE "put1", frame[g])
  /\ UNCHANGED <<lock, defs, maps, caches, history>>

InternOnlyUnit(g) ==   \* mutant: r.unitByName is forgotten
  /\ pc[g] = "put1"
  /\ units' = units \cup {Key(g)}
  /\ Goto(g, "read", frame[g])
  /\ UNCHANGED <<lock, defs, byName, caches, history>>

\* r.units[full] = nu, unless another walk got there first.
InternUnit(g) ==
  /\ pc[g] = "put1"
  /\ units' = units \cup {Key(g)}
  /\ Goto(g, IF Key(g) \in units THEN "read" ELSE "put2", frame[g])
  /\ UNCHANGED <<lock, defs, byName, caches, history>>

\* r.unitByName[full] = nu
InternName(g) ==
  /\ pc[g] = "put2"
  /\ byName' = byName \cup {Key(g)}
  /\ Goto(g, "read", frame[g])
  /\ UNCHANGED <<lock, defs, units, caches, history>>

\* r.unitByName[name].  A nil there is passed over by parseUnits and dimRecurse,
\* and is an UndefinedUnitError in rootRecurse.
ReadName(g) ==
  LET f == frame[g]
  IN  /\ pc[g] = "read"
      /\ IF Key(g) \in byName THEN Goto(g, "look", Forward(f))
         ELSE IF f.kind = "root" THEN Answer(g, f, Undefined)
         ELSE Goto(g, "look", [Forward(f) EXCEPT !.skipped = @ \cup {Key(g)}])
      /\ UNCHANGED <<lock, defs, maps, caches, history>>

-----------------------------------------------------------------------------
(* dimensionality and computeDimensionality *)

\* Where dimensionality's result d goes.
Measured(g, f, d) ==
  IF f.phase = "answer" THEN Answer(g, f, d)
  ELSE IF f.side = "src"
  THEN Goto(g, "dcheck", [f EXCEPT !.sd = d, !.side = "dst",
                            !.arg = IF f.phase = "factor" THEN f.b ELSE f.dst])
  ELSE Goto(g, "compare", [f EXCEPT !.dd = d])

MeasureBoth(f, phase, u) == [f EXCEPT !.phase = phase, !.side = "src", !.arg = u]

DimEmpty(g) ==
  /\ pc[g] = "dcheck" /\ frame[g].arg = Empty
  /\ Measured(g, frame[g], Dimensionless)
  /\ UNCHANGED <<lock, defs, maps, caches, history>>

DimNeverCached(g) ==   \* mutant: dimCache is filled and never consulted
  /\ pc[g] = "dcheck" /\ frame[g].arg # Empty /\ lock = Free
  /\ Goto(g, "dread", [frame[g] EXCEPT !.kind = "dim"])
  /\ UNCHANGED <<lock, defs, maps, caches, history>>

DimCheck(g) ==
  LET f == frame[g]
      d == dimCache[f.arg]
  IN  /\ pc[g] = "dcheck" /\ f.arg # Empty /\ lock = Free
      /\ IF d # Absent THEN Measured(g, f, d)
         ELSE Goto(g, "dread", [f EXCEPT !.kind = "dim"])
      /\ UNCHANGED <<lock, defs, maps, caches, history>>

\* The second look in dimCache, inside computeDimensionality and without r.mu.
DimRead(g) ==
  LET f == frame[g]
      d == dimCache[f.arg]
  IN  /\ pc[g] = "dread"
      /\ IF d = Absent
         THEN Goto(g, "look", [f EXCEPT !.todo = WalkOf[defs][f.arg], !.skipped = {}])
         ELSE Goto(g, IF f.kind = "load" THEN "loadend" ELSE "dstore",
                   [f EXCEPT !.val = d])
      /\ UNCHANGED <<lock, defs, maps, caches, history>>

DimWalked(g) ==
  LET f == frame[g]
  IN  /\ pc[g] = "look" /\ f.kind \in {"dim", "load"} /\ f.todo = << >>
      /\ Goto(g, "dwrite", [f EXCEPT !.val = DimOf[defs][f.arg][f.skipped]])
      /\ UNCHANGED <<lock, defs, maps, caches, history>>

\* computeDimensionality stores its result without r.mu ...
DimWrite(g) ==
  LET f == frame[g]
  IN  /\ pc[g] = "dwrite"
      /\ dimCache' = [dimCache EXCEPT ![f.arg] = f.val]
      /\ Goto(g, IF f.kind = "load" THEN "loadend" ELSE "dstore", f)
      /\ UNCHANGED <<lock, defs, maps, parseCache, rootCache, convCache, history>>

\* ... and dimensionality stores it again with r.mu.
DimStore(g) ==
  LET f == frame[g]
  IN  /\ pc[g] = "dstore" /\ lock = Free
      /\ dimCache' = [dimCache EXCEPT ![f.arg] = f.val]
      /\ Measured(g, f, f.val)
      /\ UNCHANGED <<lock, defs, maps, parseCache, rootCache, convCache, history>>

-----------------------------------------------------------------------------
(* Converter: multiplicative units by one factor, the others by convertIn  *)

\* onlyMultiplicative and hasLogarithmic, under RLock.  Converter samples an
\* offset conversion but returns a logarithmic one as it is; Convert then runs
\* convertIn on it.
Dispatch(g) ==
  LET f == frame[g]
  IN  /\ pc[g] = "mult" /\ lock = Free
      /\ IF Mult(f) THEN Goto(g, "fcheck", f)
         ELSE IF Logarithmic(f) /\ f.req.op = "converter"
         THEN Answer(g, f, Compiled)
         ELSE Goto(g, "check", f)
      /\ UNCHANGED <<lock, defs, maps, caches, history>>

\* validateOffset of both operands, reading r.unitByName without r.mu.
Validate(g) ==
  LET f == frame[g]
  IN  /\ pc[g] = "check"
      /\ IF {f.src, f.dst} \cap InvalidOf[defs] # {} THEN Answer(g, f, Mismatch)
         ELSE Goto(g, "dcheck", MeasureBoth(f, "affine", f.src))
      /\ UNCHANGED <<lock, defs, maps, caches, history>>

\* convertIn trades each offset unit for its reference before asking for a factor.
References(f) == [f EXCEPT !.a = RefOf[defs][f.src], !.b = RefOf[defs][f.dst]]

\* The comparison of the two dimensions, in each of the functions that asks for
\* them: conversionFactor ("factor"), Converter before contextPath ("path") and
\* convertIn ("affine").
Compare(g) ==
  LET f == frame[g]
  IN  /\ pc[g] = "compare"
      /\ CASE f.phase = "factor" /\ f.sd = f.dd -> Goto(g, "rcheck", f)
           [] f.phase = "factor" /\ f.sd # f.dd /\ Mult(f)
                -> Goto(g, "dcheck", MeasureBoth(f, "path", f.src))
           [] f.phase = "affine" /\ f.sd = f.dd /\ <<f.src, f.dst>> \notin DeltaMixOf[defs]
                -> Goto(g, "fcheck", References(f))
           [] OTHER -> Answer(g, f, Mismatch)
      /\ UNCHANGED <<lock, defs, maps, caches, history>>

\* Where conversionFactor's result x goes: the operation of a multiplicative
\* Converter, or one round of convertIn.
LastRound(f) == Mult(f) \/ Logarithmic(f) \/ f.rounds = 1
Factored(g, f, x) ==
  IF LastRound(f) THEN Answer(g, f, x) ELSE Goto(g, "check", [f EXCEPT !.rounds = 1])

WholeKey(f) == <<f.src, f.dst>>   \* mutant
FactorKey(f) == <<f.a, f.b>>

FactorCheck(g) ==
  LET f == frame[g]
      x == convCache[FactorKey(f)]
  IN  /\ pc[g] = "fcheck" /\ lock = Free
      /\ IF x # Absent THEN Factored(g, f, x)
         ELSE Goto(g, "dcheck", MeasureBoth(f, "factor", f.a))
      /\ UNCHANGED <<lock, defs, maps, caches, history>>

\* rootUnits(src.Div(dst)); an empty ratio returns 1 at once.
RootEmpty(g) ==
  LET f == frame[g]
  IN  /\ pc[g] = "rcheck" /\ Ratio[f.a][f.b] = Empty
      /\ Goto(g, "fstore", [f EXCEPT !.val = FactorOf[defs][Empty]])
      /\ UNCHANGED <<lock, defs, maps, caches, history>>

RootCheck(g) ==
  LET f == frame[g]
      r == Ratio[f.a][f.b]
  IN  /\ pc[g] = "rcheck" /\ r # Empty /\ lock = Free
      /\ IF rootCache[r] # Absent
         THEN Goto(g, "fstore", [f EXCEPT !.val = rootCache[r]])
         ELSE Goto(g, "look", [f EXCEPT !.kind = "root", !.arg = r,
                                 !.todo = WalkOf[defs][r], !.skipped = {}])
      /\ UNCHANGED <<lock, defs, maps, caches, history>>

RootWalked(g) ==
  LET f == frame[g]
  IN  /\ pc[g] = "look" /\ f.kind = "root" /\ f.todo = << >>
      /\ Goto(g, "rstore", [f EXCEPT !.val = FactorOf[defs][f.arg]])
      /\ UNCHANGED <<lock, defs, maps, caches, history>>

RootStore(g) ==
  LET f == frame[g]
  IN  /\ pc[g] = "rstore" /\ lock = Free
      /\ rootCache' = [rootCache EXCEPT ![f.arg] = f.val]
      /\ Goto(g, "fstore", f)
      /\ UNCHANGED <<lock, defs, maps, parseCache, dimCache, convCache, history>>

FactorStoreUnits(g) ==   \* mutant: the units of the rootResult, not its factor
  LET f == frame[g]
  IN  /\ pc[g] = "fstore" /\ lock = Free
      /\ convCache' = [convCache EXCEPT ![FactorKey(f)] = f.arg]
      /\ Factored(g, f, f.val)
      /\ UNCHANGED <<lock, defs, maps, parseCache, dimCache, rootCache, history>>

FactorStore(g) ==
  LET f == frame[g]
  IN  /\ pc[g] = "fstore" /\ lock = Free
      /\ convCache' = [convCache EXCEPT ![FactorKey(f)] = f.val]
      /\ Factored(g, f, f.val)
      /\ UNCHANGED <<lock, defs, maps, parseCache, dimCache, rootCache, history>>

-----------------------------------------------------------------------------
(* Load and Define.  Definitions are applied one by one under r.mu; a       *)
(* @context header is measured there by computeDimensionality, which takes  *)
(* no lock.  The caches are rebuilt only when every definition was applied. *)

LoadBegin(g) ==
  /\ \A h \in Goroutine : Idle(h)
  /\ stale \/ loads < MaxLoads
  /\ loads' = IF stale THEN loads ELSE loads + 1
  /\ Goto(g, "load", NewFrame(LoadRequest))
  /\ UNCHANGED <<lock, defs, maps, caches, stale, warmed, crashed>>

LoadApply(g, c) ==
  /\ pc[g] = "load"
  /\ Lock(g) /\ defs' = c
  /\ stale' = TRUE /\ warmed' = {}
  /\ Goto(g, IF HeaderOf[c] = Empty THEN "loadend" ELSE "dread",
          [frame[g] EXCEPT !.kind = "load", !.arg = HeaderOf[c]])
  /\ UNCHANGED <<maps, caches, loads, crashed>>

KeepRootCache == /\ parseCache' = EmptyParseCache /\ dimCache' = EmptyCache   \* mutant
                 /\ convCache' = EmptyConvCache /\ UNCHANGED rootCache
KeepConvCache == /\ parseCache' = EmptyParseCache /\ dimCache' = EmptyCache   \* mutant
                 /\ rootCache' = EmptyCache /\ UNCHANGED convCache
BuildCaches == /\ parseCache' = EmptyParseCache /\ dimCache' = EmptyCache
               /\ rootCache' = EmptyCache /\ convCache' = EmptyConvCache

LoadSucceed(g) ==
  /\ pc[g] = "loadend"
  /\ Unlock /\ stale' = FALSE
  /\ BuildCaches
  /\ Goto(g, "idle", NewFrame(NoRequest))
  /\ UNCHANGED <<defs, maps, loads, warmed, crashed>>

\* A later definition is refused: what was applied stays, buildCaches is skipped.
LoadFail(g) ==
  /\ pc[g] = "loadend"
  /\ Unlock
  /\ Goto(g, "idle", NewFrame(NoRequest))
  /\ UNCHANGED <<defs, maps, caches, history>>

-----------------------------------------------------------------------------
(* Races.  Access(g) is what the next step of g does to a Go map; r.mu      *)
(* orders two accesses only when both are made under it.                    *)

Acc(m, write, locked) == [map |-> m, write |-> write, locked |-> locked]
HoldsLock(g) == frame[g].kind \in {"parse", "load"}

Access(g) ==
  CASE pc[g] = "look" /\ frame[g].todo # << >> -> {Acc("units", FALSE, HoldsLock(g))}
    [] pc[g] = "put1" -> {Acc("units", TRUE, HoldsLock(g))}
    [] pc[g] = "put2" -> {Acc("byName", TRUE, HoldsLock(g))}
    [] pc[g] = "read" -> {Acc("byName", FALSE, HoldsLock(g))}
    [] pc[g] = "mult" /\ lock = Free -> {Acc("byName", FALSE, TRUE)}
    [] pc[g] = "check" -> {Acc("byName", FALSE, FALSE)}
    [] pc[g] = "dcheck" /\ lock = Free -> {Acc("dimCache", FALSE, TRUE)}
    [] pc[g] = "dread" -> {Acc("dimCache", FALSE, HoldsLock(g))}
    [] pc[g] = "dwrite" -> {Acc("dimCache", TRUE, HoldsLock(g))}
    [] pc[g] = "dstore" /\ lock = Free -> {Acc("dimCache", TRUE, TRUE)}
    [] OTHER -> {}

Race(g, h) ==
  \E x \in Access(g), y \in Access(h) :
    x.map = y.map /\ (x.write \/ y.write) /\ ~(x.locked /\ y.locked)

\* The Go runtime may notice the conflict and throw, which no caller recovers.
MapFault ==
  /\ \E g, h \in Goroutine : g # h /\ Race(g, h)
  /\ crashed' = TRUE
  /\ UNCHANGED <<lock, defs, maps, caches, pc, frame, loads, stale, warmed>>

-----------------------------------------------------------------------------
Step(g) ==
  \/ ParseHit(g) \/ ParseMiss(g) \/ ParseDone(g)
  \/ Look(g) \/ InternUnit(g) \/ InternName(g) \/ ReadName(g)
  \/ DimEmpty(g) \/ DimCheck(g) \/ DimRead(g) \/ DimWalked(g)
  \/ DimWrite(g) \/ DimStore(g)
  \/ Dispatch(g) \/ Validate(g) \/ Compare(g)
  \/ FactorCheck(g) \/ RootEmpty(g) \/ RootCheck(g) \/ RootWalked(g)
  \/ RootStore(g) \/ FactorStore(g) \/ Return(g)

LoadStep(g) == \/ \E c \in Catalog : LoadApply(g, c)
               \/ LoadSucceed(g) \/ LoadFail(g)

\* The documented contract: any number of calls at once, no Load among them.
Next == /\ ~crashed
        /\ \/ \E g \in Goroutine :
                \/ \E q \in Request : Begin(g, q)
                \/ Step(g) \/ LoadBegin(g) \/ LoadStep(g)
           \/ MapFault

\* A goroutine that is scheduled takes its steps, and sync.RWMutex starves no
\* waiter, so a step that keeps becoming possible is taken.
Fairness == \A g \in Goroutine : SF_vars(~crashed /\ (Step(g) \/ LoadStep(g)))

Spec == Init /\ [][Next]_vars

\* A stronger contract: the first call of each kind on a catalog runs alone, and
\* after a failed Load nothing runs before a Load that succeeds.
Alone(g) == \A h \in Goroutine \ {g} : Idle(h)
NoColdCall == \A h \in Goroutine : ~Idle(h) => frame[h].req \in warmed
MayBegin(g, q) == ~stale /\ IF q \in warmed THEN NoColdCall ELSE Alone(g)

WarmNext == /\ ~crashed
            /\ \/ \E g \in Goroutine :
                    \/ \E q \in Request : MayBegin(g, q) /\ Begin(g, q)
                    \/ Step(g) \/ LoadBegin(g) \/ LoadStep(g)
               \/ MapFault

WarmSpec == Init /\ [][WarmNext]_vars
FairWarmSpec == WarmSpec /\ Fairness

-----------------------------------------------------------------------------
(* What a call should answer on a catalog, whoever else is running *)

SameDim(c, u, v) == DimOf[c][u][{}] = DimOf[c][v][{}]

ConvertAnswer(c, op, u, v) ==
  IF u = v THEN Identity
  ELSE IF u \notin OffsetOf[c] /\ v \notin OffsetOf[c]
  THEN IF SameDim(c, u, v) THEN FactorOf[c][Ratio[u][v]] ELSE Mismatch
  ELSE IF op = "converter" /\ {u, v} \cap LogOf[c] # {} THEN Compiled
  ELSE IF \/ {u, v} \cap InvalidOf[c] # {} \/ ~SameDim(c, u, v)
          \/ <<u, v>> \in DeltaMixOf[c]
  THEN Mismatch
  ELSE FactorOf[c][Ratio[RefOf[c][u]][RefOf[c][v]]]

Expected(c, q) ==
  LET u == ParseOf[c][q.from]
      v == ParseOf[c][q.to]
  IN  IF u = Undefined THEN Undefined
      ELSE IF q.op = "dimensionality" THEN DimOf[c][u][{}]
      ELSE IF v = Undefined THEN Undefined
      ELSE ConvertAnswer(c, q.op, u, v)

Frame ==
  [req : Request \cup {NoRequest, LoadRequest}, side : {"src", "dst"},
   src : Container, dst : Container, a : Container, b : Container,
   arg : Container, kind : {"parse", "dim", "root", "load"}, todo : Seq(Name),
   skipped : SUBSET Name, phase : {"answer", "factor", "path", "affine"},
   rounds : {0, 1}, sd : Dim \cup {Absent}, dd : Dim \cup {Absent},
   val : Dim \cup Factor \cup {Absent}, ans : Result]

\* Every register holds a value of its kind, and a walk never reads past its end.
TypeOK ==
  /\ lock \in Goroutine \cup {Free} /\ defs \in Catalog
  /\ units \subseteq Name /\ byName \subseteq Name
  /\ parseCache \in [Expr -> Container \cup {Absent}]
  /\ dimCache \in [Container -> Dim \cup {Absent}]
  /\ rootCache \in [Container -> Factor \cup {Absent}]
  /\ convCache \in [Container \X Container -> Factor \cup {Absent}]
  /\ pc \in [Goroutine -> PC] /\ frame \in [Goroutine -> Frame]
  /\ \A g \in Goroutine : pc[g] \in {"put1", "put2", "read"} => frame[g].todo # << >>
  /\ loads \in 0..MaxLoads /\ stale \in BOOLEAN /\ crashed \in BOOLEAN
  /\ warmed \subseteq Request

\* r.mu protects what it is held for: a parse or a Load in progress owns it, and
\* no one else is between its Lock and its Unlock.
LockOwned ==
  \A g \in Goroutine :
    lock = g <=> \/ pc[g] \in {"look", "put1", "put2", "read"} /\ HoldsLock(g)
                 \/ pc[g] \in {"dread", "dwrite"} /\ HoldsLock(g)
                 \/ pc[g] = "loadend"

\* However calls interleave, and even while they race on the maps, parseCache,
\* rootCache and convCache only ever hold what the catalog in force says.
FactorsCoherent ==
  ~stale =>
    /\ \A e \in Expr : parseCache[e] \in {Absent, ParseOf[defs][e]}
    /\ \A u \in Container : rootCache[u] \in {Absent, FactorOf[defs][u]}
    /\ \A u, v \in Container :
         convCache[<<u, v>>] \in {Absent, FactorOf[defs][Ratio[u][v]]}

\* The same for dimCache: no entry misses the contribution of a name.
DimsCoherent ==
  ~stale => \A u \in Container : dimCache[u] \in {Absent, DimOf[defs][u][{}]}

\* Every answer is the one the catalog in force gives.
AnswersCorrect ==
  ~stale => \A g \in Goroutine :
              pc[g] = "return" => frame[g].ans = Expected(defs, frame[g].req)

\* No two goroutines are about to touch the same map, one of them writing,
\* without r.mu between them.
NoDataRace == \A g, h \in Goroutine : g # h => ~Race(g, h)

\* The abstract registry behind the caches: a call counts as asked from Begin to
\* Return, and as answered when it is about to return.
InFlight(g) == ~Idle(g) /\ frame[g].req \in Request
Service == INSTANCE ConversionService WITH
  Nothing <- Absent, Answer <- Expected, catalog <- defs,
  asked <- [g \in Goroutine |-> IF InFlight(g) THEN frame[g].req ELSE Absent],
  reply <- [g \in Goroutine |-> IF InFlight(g) /\ pc[g] = "return"
                                THEN frame[g].ans ELSE Absent]

\* Callers that keep the stronger contract cannot tell the cached, concurrent
\* registry from one that computes every answer from the catalog.
ImplementsService == Service!Spec

\* Every call comes back, unless the process died under it.
CallsReturn == \A g \in Goroutine : ~Idle(g) ~> (Idle(g) \/ crashed)

\* A Converter that was returned without an error has passed the dimension
\* check, so Compatible is right to answer true.
CompatibleIsConvertible ==
  \A g \in Goroutine :
    pc[g] = "return" /\ frame[g].req.op = "converter" /\ ~stale
      /\ frame[g].ans \notin {Undefined, Mismatch}
    => SameDim(defs, ParseOf[defs][frame[g].req.from], ParseOf[defs][frame[g].req.to])
=============================================================================
