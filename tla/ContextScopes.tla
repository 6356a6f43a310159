--------------------------- MODULE ContextScopes ---------------------------
(***************************************************************************)
(* Conversion contexts (convert.go): the stack r.active that EnableContext *)
(* and DisableContext move, the Scope a service binds for one Converter,   *)
(* the search for a path of transforms between two dimensions and its      *)
(* application hop by hop.  A Quantity converts through the live stack, a  *)
(* ConverterOp through the list it was compiled with.                      *)
(*                                                                         *)
(* Units are their dimensions here: the factor between two units of one    *)
(* dimension is the business of ConversionCaches.  Eval(eq, vals, q) is    *)
(* what parsing the equation with its quantities substituted comes to.     *)
(***************************************************************************)
EXTENDS Integers, Sequences, FiniteSets, SequencesExt

CONSTANTS
  Goroutine,
  Dim,            \* dimensions
  Dimensionless,
  Catalog,        \* possible contents of r.contexts: [names and aliases -> Context]
  Scope,          \* scopes callers pass: sequences of [name, params]
  Value,          \* magnitudes callers convert
  Eval(_, _, _),
  MaxActive,      \* bound: depth of r.active
  Infinite,       \* Inf or NaN
  Mismatch, Unknown, NonFinite, NoTransform,   \* errors
  None

Error == {Mismatch, Unknown, NonFinite, NoTransform}

ASSUME ScopeAssumption ==
  /\ MaxActive \in Nat /\ Value \subseteq Int /\ Dimensionless \in Dim
  /\ IsFiniteSet(Dim)
  /\ Infinite \notin Int \cup Error /\ Error \cap Int = {}

\* Transforms lead from one dimension to another, and a scope is a list.
ASSUME CatalogAssumption ==
  /\ \A c \in Catalog : \A n \in DOMAIN c :
       /\ c[n].transforms \in Seq(ToSet(c[n].transforms))
       /\ \A tr \in ToSet(c[n].transforms) : {tr.src, tr.dst} \subseteq Dim
  /\ \A scope \in Scope : scope \in Seq(ToSet(scope))

VARIABLES
  contexts,   \* r.contexts
  active,     \* r.active: sequence of contexts with their parameter values
  ops,        \* the ConverterOp each goroutine holds
  pc, frame   \* each goroutine's place in the code and local variables

vars == <<contexts, active, ops, pc, frame>>

\* intent: the scope that the caller asked for, as it stood when it was bound.
NewFrame(kind, from, to) ==
  [kind |-> kind, from |-> from, to |-> to, want |-> << >>, scope |-> << >>,
   intent |-> << >>, round |-> "run", q |-> [mag |-> 0, dim |-> from],
   path |-> << >>, v |-> 0, y1 |-> 0, ans |-> None]
Rest == NewFrame("none", Dimensionless, Dimensionless)

Init ==
  /\ contexts \in Catalog /\ active = << >>
  /\ ops = [g \in Goroutine |-> None]
  /\ pc = [g \in Goroutine |-> "idle"] /\ frame = [g \in Goroutine |-> Rest]

Goto(g, l, f) == pc' = [pc EXCEPT ![g] = l] /\ frame' = [frame EXCEPT ![g] = f]
Answer(g, f, x) == Goto(g, "return", [f EXCEPT !.ans = x])

-----------------------------------------------------------------------------
(* Binding: bindContextParams overlays params on the header defaults *)

BindFails(name, params) ==
  name \notin DOMAIN contexts \/ ~(DOMAIN params \subseteq DOMAIN contexts[name].defaults)

DropDefaults(ctx, params) == params   \* mutant
BindParams(ctx, params) ==
  [p \in DOMAIN ctx.defaults |->
     IF p \in DOMAIN params THEN params[p]
     ELSE [mag |-> ctx.defaults[p], dim |-> Dimensionless]]

Bound(name, params) ==
  [ctx |-> contexts[name], values |-> BindParams(contexts[name], params)]

EnableContext(name, params) ==
  /\ Len(active) < MaxActive
  /\ ~BindFails(name, params)
  /\ active' = Append(active, Bound(name, params))
  /\ UNCHANGED <<contexts, ops, pc, frame>>

DisableContext ==
  /\ active # << >>
  /\ active' = Front(active)
  /\ UNCHANGED <<contexts, ops, pc, frame>>

\* Load replaces a context of the same name; r.active and the ConverterOps keep the
\* one they were bound to.
Load(c) ==
  /\ \A g \in Goroutine : pc[g] = "idle"
  /\ contexts' = c
  /\ UNCHANGED <<active, ops, pc, frame>>

-----------------------------------------------------------------------------
(* contextPath and applyTransform *)

Transforms(scope) == FlattenSeq([i \in DOMAIN scope |-> scope[i].ctx.transforms])

ExtendBothWays(path, search, tr) ==   \* mutant: transforms are walked backwards too
  LET next == IF tr.src = Last(path) THEN tr.dst ELSE tr.src
  IN  IF Last(path) \in {tr.src, tr.dst} /\ next \notin search.seen
      THEN [queue |-> Append(search.queue, Append(path, next)),
            seen |-> search.seen \cup {next}]
      ELSE search

\* One turn of the breadth-first search: take a path from the queue, extend it by
\* every transform to a dimension not yet seen.
Extend(path, search, tr) ==
  IF tr.src = Last(path) /\ tr.dst \notin search.seen
  THEN [queue |-> Append(search.queue, Append(path, tr.dst)),
        seen |-> search.seen \cup {tr.dst}]
  ELSE search

Turn(search, scope, dst) ==
  IF search.queue = << >> \/ Last(Head(search.queue)) = dst THEN search
  ELSE LET path == Head(search.queue)
           loop[i \in 0..Len(Transforms(scope))] ==
             IF i = 0 THEN [search EXCEPT !.queue = Tail(@)]
             ELSE Extend(path, loop[i - 1], Transforms(scope)[i])
       IN  loop[Len(Transforms(scope))]

\* Every dimension enters the queue at most once.
ContextPath(scope, src, dst) ==
  LET search[n \in 0..Cardinality(Dim)] ==
        IF n = 0 THEN [queue |-> <<<<src>>>>, seen |-> {src}]
        ELSE Turn(search[n - 1], scope, dst)
      end == search[Cardinality(Dim)].queue
  IN  IF scope = << >> \/ end = << >> THEN << >> ELSE Head(end)

\* applyTransform: the values of all contexts in one name space, a later context
\* over an earlier one, and the last transform between the two dimensions.
Latest(S) == CHOOSE i \in S : \A j \in S : j <= i
Values(scope) ==
  [p \in UNION {DOMAIN scope[i].values : i \in DOMAIN scope} |->
     scope[Latest({i \in DOMAIN scope : p \in DOMAIN scope[i].values})].values[p]]
Matching(scope, src, dst) ==
  {i \in DOMAIN Transforms(scope) :
     Transforms(scope)[i].src = src /\ Transforms(scope)[i].dst = dst}

ApplyHopUnchecked(q, src, dst, scope) ==   \* mutant: the result may have any dimension
  IF Matching(scope, src, dst) = {} THEN [mag |-> NoTransform, dim |-> q.dim]
  ELSE Eval(Transforms(scope)[Latest(Matching(scope, src, dst))].eq, Values(scope), q)

ApplyHop(q, src, dst, scope) ==
  IF Matching(scope, src, dst) = {} THEN [mag |-> NoTransform, dim |-> q.dim]
  ELSE LET nq == Eval(Transforms(scope)[Latest(Matching(scope, src, dst))].eq,
                      Values(scope), q)
       IN  IF nq.dim # dst THEN [mag |-> Mismatch, dim |-> nq.dim] ELSE nq

-----------------------------------------------------------------------------
(* The calls *)

\* Converter(from, to, scope) and, for want = None, Converter(from, to).
BeginConverter(g, from, to, want) ==
  /\ pc[g] = "idle"
  /\ Goto(g, "bind", [NewFrame("compile", from, to) EXCEPT !.want = want])
  /\ ops' = [ops EXCEPT ![g] = None]
  /\ UNCHANGED <<contexts, active>>

\* ConverterOp.Convert
BeginRun(g, v) ==
  /\ pc[g] = "idle" /\ ops[g] # None
  /\ LET op == ops[g]
         f == [NewFrame("run", op.from, op.to) EXCEPT
                 !.scope = op.scope, !.intent = op.intent, !.q.mag = v, !.v = v]
     IN  IF op.simple THEN Answer(g, f, op.scale * v + op.offset)
         ELSE Goto(g, "search", f)
  /\ UNCHANGED <<contexts, active, ops>>

\* Quantity.To: convert passes nil, which stands for the live stack.
BeginLive(g, from, to, v) ==
  /\ pc[g] = "idle"
  /\ Goto(g, "search", [NewFrame("live", from, to) EXCEPT !.q.mag = v, !.v = v])
  /\ UNCHANGED <<contexts, active, ops>>

\* bindActive without a scope: a copy of r.active.
BindActive(g) ==
  /\ pc[g] = "bind" /\ frame[g].want = None
  /\ Goto(g, "compile", [frame[g] EXCEPT !.scope = active, !.intent = active])
  /\ UNCHANGED <<contexts, active, ops>>

\* scopeToActive: one context of the scope after the other.
BindAppended(g) ==   \* mutant: the scope is added to r.active
  /\ pc[g] = "bind" /\ frame[g].want # None
  /\ Goto(g, "compile",
          LET bound == [i \in DOMAIN frame[g].want |->
                          Bound(frame[g].want[i].name, frame[g].want[i].params)]
          IN  [frame[g] EXCEPT !.scope = active \o bound, !.intent = bound])
  /\ UNCHANGED <<contexts, active, ops>>

BindScope(g) ==
  LET f == frame[g]
      use == f.want[Len(f.scope) + 1]
  IN  /\ pc[g] = "bind" /\ f.want # None
      /\ IF Len(f.scope) = Len(f.want)
         THEN Goto(g, "compile",
                   [f EXCEPT !.intent = [i \in DOMAIN f.want |->
                                           Bound(f.want[i].name, f.want[i].params)]])
         ELSE IF BindFails(use.name, use.params) THEN Answer(g, f, Unknown)
         ELSE Goto(g, "bind", [f EXCEPT !.scope = Append(@, Bound(use.name, use.params))])
      /\ UNCHANGED <<contexts, active, ops>>

Operation(f, simple, scale, offset) ==
  [from |-> f.from, to |-> f.to, scope |-> f.scope, intent |-> f.intent,
   simple |-> simple, scale |-> scale, offset |-> offset]

StartRound(f, round, v) ==
  [f EXCEPT !.round = round, !.q = [mag |-> v, dim |-> f.from]]

\* Units of one dimension are a factor; others need a path, and are sampled.
Compile(g) ==
  LET f == frame[g]
  IN  /\ pc[g] = "compile"
      /\ IF f.from = f.to
         THEN /\ ops' = [ops EXCEPT ![g] = Operation(f, TRUE, 1, 0)]
              /\ Answer(g, f, None)
         ELSE /\ IF ContextPath(f.scope, f.from, f.to) = << >> THEN Answer(g, f, Mismatch)
                 ELSE Goto(g, "search", StartRound(f, "one", 1))
              /\ UNCHANGED ops
      /\ UNCHANGED <<contexts, active>>

NeverLive(f) == f.scope   \* mutant
\* nil means r.active at the time of reading.
ScopeOf(f) == IF f.kind = "live" THEN active ELSE f.scope

FinishedUnchecked(g, f, x) ==   \* mutant: a failed sample is not an error
  CASE f.kind \in {"run", "live"} -> Answer(g, f, x) /\ UNCHANGED ops
    [] OTHER -> /\ ops' = [ops EXCEPT ![g] = Operation(f, FALSE, 0, 0)]
                /\ Answer(g, f, None)

\* Where the result x of convertIn goes.  finishContextOp: a value that is not
\* finite at 1 is an error, at 0 it means that the conversion is not a line.
Finished(g, f, x) ==
  CASE f.kind \in {"run", "live"} -> Answer(g, f, x) /\ UNCHANGED ops
    [] f.kind = "compile" /\ f.round = "one" ->
         /\ IF x \in Error THEN Answer(g, f, x)
            ELSE IF x = Infinite THEN Answer(g, f, NonFinite)
            ELSE Goto(g, "search", [StartRound(f, "zero", 0) EXCEPT !.y1 = x])
         /\ UNCHANGED ops
    [] OTHER ->
         /\ ops' = [ops EXCEPT ![g] =
                      IF x \in Error \cup {Infinite} THEN Operation(f, FALSE, 0, 0)
                      ELSE Operation(f, TRUE, f.y1 - x, x)]
         /\ Answer(g, f, None)

\* convertIn: the path is chosen ...
Search(g) ==
  LET f == frame[g]
      path == ContextPath(ScopeOf(f), f.from, f.to)
  IN  /\ pc[g] = "search"
      /\ IF f.from = f.to THEN Finished(g, f, f.q.mag)
         ELSE IF path = << >> THEN Finished(g, f, Mismatch)
         ELSE Goto(g, "hop", [f EXCEPT !.path = path]) /\ UNCHANGED ops
      /\ UNCHANGED <<contexts, active>>

\* ... and walked, each hop reading the contexts again.
Hop(g) ==
  LET f == frame[g]
      q == ApplyHop(f.q, f.path[1], f.path[2], ScopeOf(f))
  IN  /\ pc[g] = "hop" /\ Len(f.path) > 1
      /\ IF q.mag \in Error THEN Finished(g, f, q.mag)
         ELSE Goto(g, "hop", [f EXCEPT !.q = q, !.path = Tail(@)]) /\ UNCHANGED ops
      /\ UNCHANGED <<contexts, active>>

Arrive(g) ==
  /\ pc[g] = "hop" /\ Len(frame[g].path) = 1
  /\ Finished(g, frame[g], frame[g].q.mag)
  /\ UNCHANGED <<contexts, active>>

Return(g) ==
  /\ pc[g] = "return"
  /\ Goto(g, "idle", Rest)
  /\ UNCHANGED <<contexts, active, ops>>

-----------------------------------------------------------------------------
Step(g) == \/ BindActive(g) \/ BindScope(g) \/ Compile(g)
           \/ Search(g) \/ Hop(g) \/ Arrive(g) \/ Return(g)
Begin(g) ==
  \E from, to \in Dim \ {Dimensionless} :
    \/ \E want \in Scope \cup {None} : BeginConverter(g, from, to, want)
    \/ \E v \in Value : BeginLive(g, from, to, v)
Change == \/ \E use \in UNION {ToSet(s) : s \in Scope} : EnableContext(use.name, use.params)
          \/ DisableContext

\* The stack belongs to one caller: it moves while others convert only if they
\* brought a scope or hold a ConverterOp, which are not to notice.
ReadsStack(g) == \/ frame[g].kind = "live"
                 \/ pc[g] = "bind" /\ frame[g].want = None

Next == \/ \E g \in Goroutine : Begin(g) \/ Step(g) \/ \E v \in Value : BeginRun(g, v)
        \/ (\A g \in Goroutine : ~ReadsStack(g)) /\ Change
        \/ \E c \in Catalog : Load(c)
Spec == Init /\ [][Next]_vars

-----------------------------------------------------------------------------
(* Properties *)

\* The whole of convertIn at once, on a fixed list of contexts: what a quantity has
\* become after each hop of a path.
Walked(scope, path, start) ==
  LET walk[i \in 0..(Len(path) - 1)] ==
        IF i = 0 THEN start
        ELSE LET q == walk[i - 1]
             IN  IF q.mag \in Error THEN q ELSE ApplyHop(q, path[i], path[i + 1], scope)
  IN  walk
Direct(scope, from, to, v) ==
  LET path == ContextPath(scope, from, to)
  IN  IF from = to THEN v
      ELSE IF path = << >> THEN Mismatch
      ELSE Walked(scope, path, [mag |-> v, dim |-> from])[Len(path) - 1].mag

IsBound(b) == DOMAIN b = {"ctx", "values"} /\ DOMAIN b.values = DOMAIN b.ctx.defaults
IsScope(s) == \A i \in DOMAIN s : IsBound(s[i])

\* Bound contexts have a value for each of their parameters, and a walk has a path.
TypeOK ==
  /\ contexts \in Catalog
  /\ IsScope(active) /\ Len(active) <= MaxActive
  /\ \A g \in Goroutine :
       /\ pc[g] \in {"idle", "bind", "compile", "search", "hop", "return"}
       /\ IsScope(frame[g].scope) /\ IsScope(frame[g].intent)
       /\ pc[g] = "hop" => frame[g].path # << >>
       /\ ops[g] # None => IsScope(ops[g].scope) /\ ops[g].from \in Dim /\ ops[g].to \in Dim

\* The line through the values at 0 and 1, where it is taken for the conversion.
Sampled(scope, from, to, v) ==
  LET y0 == Direct(scope, from, to, 0)
      y1 == Direct(scope, from, to, 1)
  IN  IF from = to THEN v
      ELSE IF y0 \in Error \cup {Infinite} THEN Direct(scope, from, to, v)
      ELSE (y1 - y0) * v + y0

\* A compiled conversion answers as the contexts it was asked to use, whatever has
\* been enabled, disabled, loaded or compiled by others since.
CompiledAnswers ==
  \A g \in Goroutine :
    pc[g] = "return" /\ frame[g].kind = "run" =>
      frame[g].ans = Sampled(frame[g].intent, frame[g].from, frame[g].to, frame[g].v)

\* A Quantity converts through the enabled contexts, the same from its path to its
\* last hop.
LiveAnswers ==
  \A g \in Goroutine :
    pc[g] = "return" /\ frame[g].kind = "live" =>
      frame[g].ans = Direct(active, frame[g].from, frame[g].to, frame[g].v)

\* Once Converter has accepted a pair, no value is refused later.
AcceptedConverts ==
  \A g \in Goroutine :
    pc[g] = "return" /\ frame[g].kind = "run" => frame[g].ans \notin Error

\* The contexts that can be loaded, and what they are when they are bound.
Contexts == UNION {{c[n] : n \in DOMAIN c} : c \in Catalog}
Params == {use.params : use \in UNION {ToSet(s) : s \in Scope}}
Binding(x, params) == [ctx |-> x, values |-> BindParams(x, params)]
Bindings == {Binding(b[1], b[2]) : b \in Contexts \X Params}

\* AcceptedConverts has a precondition on the catalog.  What an equation of a scope makes
\* of a magnitude in M has the same dimension for each of them, and none of the magnitudes
\* is refused or all are: only units raised to the power "value" would not be so.
KeepsDimension(scope, M) ==
  \A tr \in ToSet(Transforms(scope)) : \A d \in Dim : \A m, n \in M :
    LET made(v) == Eval(tr.eq, Values(scope), [mag |-> v, dim |-> d])
    IN  /\ made(m) \in [mag : Int \cup {Infinite} \cup Error, dim : {made(n).dim}]
        /\ made(m).mag \in Error => made(n).mag \in Error
EquationsKeepDimension == \A scope \in Seq(Bindings) : KeepsDimension(scope, Int \cup {Infinite})

\* A hop arrives in the dimension the path says: a result is never given a
\* dimension that its equation did not yield.
HopsLand ==
  \A g \in Goroutine : pc[g] = "hop" => frame[g].q.dim = frame[g].path[1]

\* contextPath finds a path whenever transforms lead from one dimension to the
\* other, and none is shorter.
Edge(scope, a, b) == Matching(scope, a, b) # {}
WithinHops(scope, src, n) ==
  LET near[k \in 0..n] ==
        IF k = 0 THEN {src}
        ELSE LET close == near[k - 1]
             IN  close \cup {b \in Dim : \E a \in close : Edge(scope, a, b)}
  IN  near[n]
PathsAreShortest ==
  \A g \in Goroutine :
    pc[g] = "search" /\ frame[g].from # frame[g].to =>
      LET scope == ScopeOf(frame[g])
          src == frame[g].from
          dst == frame[g].to
          path == ContextPath(scope, src, dst)
      IN  IF dst \notin WithinHops(scope, src, Cardinality(Dim))
          THEN path = << >>
          ELSE /\ path # << >> /\ path[1] = src /\ Last(path) = dst
               /\ \A i \in 1..(Len(path) - 1) : Edge(scope, path[i], path[i + 1])
               /\ dst \notin WithinHops(scope, src, Len(path) - 2)

\* "Params overlay Context.Defaults. Missing keys keep those defaults": each
\* context of a compiled conversion hops with its own parameter values.
OwnParameters ==
  \A g \in Goroutine :
    ops[g] # None =>
      \A i \in DOMAIN ops[g].scope : \A p \in DOMAIN ops[g].scope[i].values :
        Values(ops[g].scope)[p] = ops[g].scope[i].values[p]

\* A compiled conversion and Quantity.To agree on the same contexts.
ConvertMatchesTo ==
  \A g \in Goroutine :
    pc[g] = "return" /\ frame[g].kind = "run" =>
      frame[g].ans = Direct(frame[g].scope, frame[g].from, frame[g].to, frame[g].v)
=============================================================================
