------------------------- MODULE ContextScopesProofs -------------------------
(***************************************************************************)
(* Conversions through contexts are right for any goroutines, contexts,    *)
(* scopes and values, whatever the equations come to.                      *)
(*                                                                         *)
(* ScopesInv says of a conversion under way that it has made of its        *)
(* magnitude what the first hops of Direct make of it.  It needs two       *)
(* things: a conversion keeps the contexts it began with (a compiled one   *)
(* by its copy, a live one because its caller alone moves the stack), and  *)
(* the path of a hop is what remains of the path of Direct.                *)
(***************************************************************************)
EXTENDS PathSearchProofs

-----------------------------------------------------------------------------
(* The invariant *)

\* The magnitude a frame began its walk with.
Began(f) == IF f.kind = "compile" THEN IF f.round = "one" THEN 1 ELSE 0 ELSE f.v
Start(f) == [mag |-> Began(f), dim |-> f.from]
Refused == Error \cup {Infinite}

\* A ConverterOp has the contexts it was asked for, and is the line through what
\* these make of 0 and 1, or else they make nothing finite of 0.
OpRight(op) ==
  /\ op.scope \in Seq(Bindings) /\ op.intent = op.scope
  /\ op.from \in Dim /\ op.to \in Dim
  /\ LET y(v) == Direct(op.scope, op.from, op.to, v)
     IN  IF op.from = op.to THEN op.simple /\ op.scale = 1 /\ op.offset = 0
         ELSE IF op.simple
              THEN op.offset = y(0) /\ op.scale = y(1) - y(0) /\ y(0) \notin Refused
              ELSE y(0) \in Refused

FrameFields == {"kind", "from", "to", "want", "scope", "intent", "round", "q",
                "path", "v", "y1", "ans"}
FrameTyped(f) ==
  /\ DOMAIN f = FrameFields /\ f.from \in Dim /\ f.to \in Dim
  /\ f.scope \in Seq(Bindings) /\ f.intent \in Seq(Bindings)

\* The scope so far is the beginning of what was wanted.
BindRight(f) ==
  /\ f.kind = "compile"
  /\ f.want \in Scope \cup {None}
  /\ f.want # None =>
       /\ Len(f.scope) <= Len(f.want)
       /\ \A i \in 1..Len(f.scope) : f.scope[i] = Bound(f.want[i].name, f.want[i].params)

\* A conversion is about to find its path ...
SearchRight(f) ==
  /\ f.kind \in {"compile", "run", "live"}
  /\ Began(f) \in Int
  /\ f.kind # "live" => f.from # f.to /\ f.intent = f.scope
  /\ f.kind = "run" => Direct(f.scope, f.from, f.to, 0) \in Refused
  /\ f.kind = "compile" =>
       /\ f.round \in {"one", "zero"}
       /\ f.round = "zero" => f.y1 = Direct(f.scope, f.from, f.to, 1)

\* ... or is i hops along it, and is what these hops made of the magnitude.
HopRight(f) ==
  LET path == ContextPath(ScopeOf(f), f.from, f.to)
      walk == Walked(ScopeOf(f), path, Start(f))
  IN  /\ f.from # f.to /\ Len(path) >= 2
      /\ \E i \in 0..(Len(path) - 1) :
           /\ f.path \in Seq(Dim) /\ Len(f.path) = Len(path) - i
           /\ \A j \in 1..(Len(path) - i) : f.path[j] = path[i + j]
           /\ f.q = walk[i] /\ f.q.mag \notin Error /\ f.q.dim = path[i + 1]

ReturnRight(f) ==
  /\ f.kind = "run" => f.ans = Sampled(f.intent, f.from, f.to, f.v)
  /\ f.kind = "live" => f.ans = Direct(active, f.from, f.to, f.v)

\* A goroutine at l with the frame f.
ThreadRight(l, f) ==
  /\ FrameTyped(f)
  /\ l \in {"idle", "bind", "compile", "search", "hop", "return"}
  /\ l = "bind" => BindRight(f)
  /\ l = "compile" => f.kind = "compile" /\ f.intent = f.scope
  /\ l \in {"search", "hop"} => SearchRight(f)
  /\ l = "search" => f.q = Start(f)
  /\ l = "hop" => HopRight(f)
  /\ l = "return" => ReturnRight(f)

ScopesInv ==
  /\ contexts \in Catalog /\ active \in Seq(Bindings) /\ Len(active) <= MaxActive
  /\ DOMAIN ops = Goroutine /\ DOMAIN pc = Goroutine /\ DOMAIN frame = Goroutine
  /\ \A g \in Goroutine :
       /\ ops[g] # None => OpRight(ops[g])
       /\ ThreadRight(pc[g], frame[g])

-----------------------------------------------------------------------------
(* Contexts, bound *)

\* A context that is loaded and parameters of a scope make a binding.
LEMMA BoundTyped ==
  ASSUME contexts \in Catalog, NEW name \in DOMAIN contexts, NEW params \in Params
  PROVE  Bound(name, params) \in Bindings
<1>1. contexts[name] \in Contexts
  BY DEF Contexts
<1>2. <<contexts[name], params>> \in Contexts \X Params
  BY <1>1
<1>3. Bound(name, params) = Binding(<<contexts[name], params>>[1], <<contexts[name], params>>[2])
  BY DEF Bound, Binding
<1> QED  BY <1>2, <1>3 DEF Bindings

\* A binding has a value for each parameter of its context.
LEMMA BindingsBound ==
  ASSUME NEW b \in Bindings
  PROVE  IsBound(b) /\ b.ctx \in Contexts
<1>1. PICK c \in Contexts \X Params : b = Binding(c[1], c[2])
  BY DEF Bindings
<1>2. DOMAIN BindParams(c[1], c[2]) = DOMAIN c[1].defaults
  BY DEF BindParams
<1>3. b = [ctx |-> c[1], values |-> BindParams(c[1], c[2])] /\ c[1] \in Contexts
  BY <1>1 DEF Binding
<1> QED  BY <1>2, <1>3 DEF IsBound

\* The transforms of bindings are a list and lead between dimensions.
LEMMA BindingsMapped ==
  ASSUME NEW scope \in Seq(Bindings)
  PROVE  Mapped(scope)
<1> DEFINE Trs == UNION {ToSet(x.transforms) : x \in Contexts}
           lists == [i \in DOMAIN scope |-> scope[i].ctx.transforms]
<1>1. Len(scope) \in Nat /\ DOMAIN scope = 1..Len(scope) /\ \A i \in 1..Len(scope) : scope[i].ctx \in Contexts
  BY BindingsBound
<1>2. ASSUME NEW x \in Contexts
      PROVE  /\ x.transforms \in Seq(Trs)
             /\ \A tr \in ToSet(x.transforms) : tr.src \in Dim /\ tr.dst \in Dim
  <2>1. PICK c \in Catalog : \E n \in DOMAIN c : x = c[n]
    BY DEF Contexts
  <2>2. /\ x.transforms \in Seq(ToSet(x.transforms))
        /\ \A tr \in ToSet(x.transforms) : {tr.src, tr.dst} \subseteq Dim
    BY <2>1, CatalogAssumption
  <2>3. ToSet(x.transforms) \subseteq Trs
    OBVIOUS
  <2>4. x.transforms \in Seq(Trs)
    <3> HIDE DEF Trs
    <3> QED  BY <2>2, <2>3
  <2> QED  BY <2>2, <2>4
<1>3. \A tr \in Trs : tr.src \in Dim /\ tr.dst \in Dim
  BY <1>2
<1> HIDE DEF Trs
<1>4. lists \in Seq(Seq(Trs)) /\ Len(lists) = Len(scope)
  BY <1>1, <1>2
<1> HIDE DEF lists
<1>5. FlattenSeq(lists) \in Seq(Trs)
  BY <1>1, <1>4, FlattenTyped
<1>6. Transforms(scope) \in Seq(Trs)
  BY <1>5 DEF Transforms, lists
<1> QED  BY <1>3, <1>6 DEF Mapped

\* contextPath finds nothing, or a walk from the one dimension to the other.
LEMMA PathsLead ==
  ASSUME NEW scope \in Seq(Bindings), NEW src \in Dim, NEW dst, src # dst,
         ContextPath(scope, src, dst) # << >>
  PROVE  /\ IsTrail(scope, src, ContextPath(scope, src, dst))
         /\ Last(ContextPath(scope, src, dst)) = dst
         /\ Len(ContextPath(scope, src, dst)) >= 2
BY BindingsMapped, PathIsShortest

-----------------------------------------------------------------------------
(* Walks *)

\* The quantity after each hop, walk being the whole of it.
Walks(scope, path, start, m, walk) ==
  /\ walk[0] = start
  /\ \A i \in 1..m :
       walk[i] = IF walk[i - 1].mag \in Error THEN walk[i - 1]
                 ELSE ApplyHop(walk[i - 1], path[i], path[i + 1], scope)

\* The recursion of Walked has a solution.
LEMMA WalkTurns ==
  ASSUME NEW scope, NEW path, NEW start, Len(path) - 1 \in Nat
  PROVE  Walks(scope, path, start, Len(path) - 1, Walked(scope, path, start))
<1> DEFINE n == Len(path) - 1
           Hopped(q, i) == IF q.mag \in Error THEN q ELSE ApplyHop(q, path[i], path[i + 1], scope)
           IsWalk(f, m) == f = [i \in 0..m |-> IF i = 0 THEN start ELSE Hopped(f[i - 1], i)]
           Good == {m \in Nat : \E f : IsWalk(f, m)}
<1> HIDE DEF Hopped
<1>1. 0 \in Good
  <2>1. IsWalk([i \in 0..0 |-> start], 0)
    OBVIOUS
  <2> QED  BY <2>1
<1>2. ASSUME NEW m \in Nat, m \in Good PROVE m + 1 \in Good
  <2>1. PICK f : IsWalk(f, m)
    BY <1>2
  <2> DEFINE g == [i \in 0..(m + 1) |-> IF i = m + 1 THEN Hopped(f[m], m + 1) ELSE f[i]]
  <2>2. \A i \in 0..m : g[i] = f[i] /\ f[i] = IF i = 0 THEN start ELSE Hopped(f[i - 1], i)
    <3>1. \A i \in 0..m : f[i] = IF i = 0 THEN start ELSE Hopped(f[i - 1], i)
      <4> HIDE DEF g
      <4> QED  BY <2>1
    <3>2. ASSUME NEW i \in 0..m PROVE g[i] = f[i]
      <4>1. i \in 0..(m + 1) /\ i # m + 1
        OBVIOUS
      <4> QED  BY <4>1
    <3> QED  BY <3>1, <3>2
  <2>3. \A i \in 0..(m + 1) : g[i] = IF i = 0 THEN start ELSE Hopped(g[i - 1], i)
    <3> SUFFICES ASSUME NEW i \in 0..(m + 1)
                 PROVE  g[i] = IF i = 0 THEN start ELSE Hopped(g[i - 1], i)
      OBVIOUS
    <3>1. CASE i = m + 1
      BY <2>2, <3>1
    <3>2. CASE i # m + 1
      <4>1. i \in 0..m /\ (i # 0 => i - 1 \in 0..m)
        BY <3>2
      <4> HIDE DEF g
      <4> QED  BY <2>2, <4>1
    <3> QED  BY <3>1, <3>2
  <2>4. IsWalk(g, m + 1)
    BY <2>3
  <2> HIDE DEF g, IsWalk
  <2>5. \E h : IsWalk(h, m + 1)
    BY <2>4
  <2> QED  BY <2>5
<1>3. n \in Good
  <2>1. n \in Nat
    OBVIOUS
  <2> HIDE DEF Good, n
  <2> QED  BY <1>1, <1>2, <2>1, SetInduction
<1>4. PICK f : IsWalk(f, n)
  BY <1>3
<1>5. IsWalk(Walked(scope, path, start), n)
  <2>1. Walked(scope, path, start) = CHOOSE h : IsWalk(h, n)
    BY Zenon DEF Walked, Hopped
  <2> HIDE DEF IsWalk, n
  <2> QED  BY <1>4, <2>1
<1>6. PICK walk : walk = Walked(scope, path, start)
  OBVIOUS
<1>7. 0 \in 0..n /\ \A i \in 1..n : i \in 0..n /\ i # 0
  OBVIOUS
<1>8. walk[0] = start /\ \A i \in 1..n : walk[i] = Hopped(walk[i - 1], i)
  BY <1>5, <1>6, <1>7
<1> QED  BY <1>6, <1>8 DEF Walks, Hopped

\* A walk that fails stays where it failed.
LEMMA WalkStays ==
  ASSUME NEW scope, NEW path, NEW start, NEW m \in Nat, NEW walk,
         Walks(scope, path, start, m, walk), NEW i \in 0..m, walk[i].mag \in Error
  PROVE  walk[m] = walk[i]
<1> DEFINE Good == {k \in Nat : i + k <= m => walk[i + k] = walk[i]}
<1>1. 0 \in Good
  <2>1. i + 0 = i
    OBVIOUS
  <2> QED  BY <2>1
<1>2. ASSUME NEW k \in Nat, k \in Good PROVE k + 1 \in Good
  <2>1. ASSUME i + (k + 1) <= m PROVE walk[i + (k + 1)] = walk[i]
    <3>1. i + (k + 1) \in 1..m /\ (i + (k + 1)) - 1 = i + k
      BY <2>1
    <3>2. walk[i + k] = walk[i]
      BY <1>2, <2>1
    <3> QED  BY <3>1, <3>2 DEF Walks
  <2> QED  BY <2>1
<1>3. m - i \in Good
  <2>1. m - i \in Nat
    OBVIOUS
  <2> HIDE DEF Good
  <2>2. \A k \in Nat : k \in Good
    BY <1>1, <1>2, SetInduction
  <2> QED  BY <2>1, <2>2
<1>4. i + (m - i) = m
  OBVIOUS
<1> QED  BY <1>3, <1>4

\* A hop that does not fail arrives in its dimension.
LEMMA HopArrives ==
  ASSUME NEW q, NEW src, NEW dst, NEW scope, ApplyHop(q, src, dst, scope).mag \notin Error
  PROVE  ApplyHop(q, src, dst, scope).dim = dst
BY DEF ApplyHop, Error

-----------------------------------------------------------------------------
(* One step of one goroutine *)

\* A step that leaves the contexts alone keeps the invariant when it takes its
\* goroutine to a place and a frame that are right, and stores only a right operation.
LEMMA StepKeeps ==
  ASSUME ScopesInv, NEW g \in Goroutine, NEW l, NEW f, Goto(g, l, f), ThreadRight(l, f),
         UNCHANGED <<contexts, active>>,
         \/ UNCHANGED ops
         \/ \E op : ops' = [ops EXCEPT ![g] = op] /\ (op # None => OpRight(op))
  PROVE  ScopesInv'
<1>1. /\ contexts' \in Catalog /\ active' \in Seq(Bindings) /\ Len(active') <= MaxActive
      /\ DOMAIN ops' = Goroutine /\ DOMAIN pc' = Goroutine /\ DOMAIN frame' = Goroutine
  BY DEF ScopesInv, Goto
<1>2. ASSUME NEW h \in Goroutine PROVE ops'[h] # None => OpRight(ops'[h])
  BY DEF ScopesInv
<1>3. ASSUME NEW h \in Goroutine PROVE ThreadRight(pc'[h], frame'[h])
  <2>1. CASE h = g
    <3>1. pc'[h] = l /\ frame'[h] = f
      BY <2>1 DEF ScopesInv, Goto
    <3> QED  BY <3>1
  <2>2. CASE h # g
    <3>1. pc'[h] = pc[h] /\ frame'[h] = frame[h]
      BY <2>2 DEF ScopesInv, Goto
    <3> QED  BY <3>1 DEF ScopesInv
  <2> QED  BY <2>1, <2>2
<1>4. ASSUME NEW k, NEW x, ThreadRight(k, x) PROVE ThreadRight(k, x)'
  BY <1>4 DEF ThreadRight, BindRight, Bound, HopRight, ScopeOf, ReturnRight
<1>5. ASSUME NEW h \in Goroutine PROVE ThreadRight(pc[h], frame[h])'
  <2>1. PICK k : k = pc'[h]
    OBVIOUS
  <2>2. PICK x : x = frame'[h]
    OBVIOUS
  <2>3. ThreadRight(k, x)'
    BY <1>3, <1>4, <2>1, <2>2
  <2> QED  BY <2>1, <2>2, <2>3 DEF ThreadRight, BindRight, Bound, HopRight, ScopeOf, ReturnRight
<1>6. ASSUME NEW h \in Goroutine PROVE (ops[h] # None => OpRight(ops[h]))'
  BY <1>2 DEF OpRight
<1> QED  BY <1>1, <1>5, <1>6 DEF ScopesInv

\* A change of one field, and what it leaves alone.
LEMMA FrameChanges ==
  ASSUME NEW f, FrameTyped(f)
  PROVE  /\ \A x : /\ FrameTyped([f EXCEPT !.ans = x])
                   /\ [f EXCEPT !.ans = x].ans = x
                   /\ \A k \in FrameFields \ {"ans"} : [f EXCEPT !.ans = x][k] = f[k]
         /\ \A x \in Seq(Bindings) :
              /\ FrameTyped([f EXCEPT !.scope = x])
              /\ [f EXCEPT !.scope = x].scope = x
              /\ \A k \in FrameFields \ {"scope"} : [f EXCEPT !.scope = x][k] = f[k]
BY DEF FrameTyped, FrameFields

\* An answer is right when it is Sampled's or Direct's.
LEMMA AnswerKeeps ==
  ASSUME ScopesInv, NEW g \in Goroutine, NEW f, NEW x, FrameTyped(f), Answer(g, f, x),
         UNCHANGED <<contexts, active>>,
         \/ UNCHANGED ops
         \/ \E op : ops' = [ops EXCEPT ![g] = op] /\ (op # None => OpRight(op)),
         f.kind = "run" => x = Sampled(f.intent, f.from, f.to, f.v),
         f.kind = "live" => x = Direct(active, f.from, f.to, f.v)
  PROVE  ScopesInv'
<1> DEFINE next == [f EXCEPT !.ans = x]
<1>1. /\ FrameTyped(next) /\ next.ans = x /\ next.kind = f.kind /\ next.intent = f.intent
      /\ next.from = f.from /\ next.to = f.to /\ next.v = f.v
  BY FrameChanges DEF FrameFields
<1>2. Goto(g, "return", next)
  BY DEF Answer
<1> HIDE DEF next
<1>3. ThreadRight("return", next)
  BY <1>1 DEF ThreadRight, ReturnRight
<1> QED  BY <1>2, <1>3, StepKeeps

\* Wherever the result of convertIn goes when it is Direct's, all stays right.
LEMMA FinishedKeeps ==
  ASSUME ScopesInv, NEW g \in Goroutine, NEW f, FrameTyped(f), SearchRight(f), NEW x,
         x = Direct(ScopeOf(f), f.from, f.to, Began(f)), Finished(g, f, x),
         UNCHANGED <<contexts, active>>
  PROVE  ScopesInv'
<1>1. CASE f.kind \in {"run", "live"}
  <2>1. Answer(g, f, x) /\ UNCHANGED ops
    BY <1>1 DEF Finished
  <2>2. f.kind = "live" => x = Direct(active, f.from, f.to, f.v)
    BY <1>1 DEF ScopeOf, Began
  <2>3. f.kind = "run" => x = Sampled(f.intent, f.from, f.to, f.v)
    BY <1>1 DEF SearchRight, ScopeOf, Began, Sampled, Refused
  <2> QED  BY <2>1, <2>2, <2>3, AnswerKeeps
<1>2. CASE f.kind = "compile" /\ f.round = "one"
  <2>1. UNCHANGED ops
    BY <1>2 DEF Finished
  <2>2. CASE x \in Error
    <3>1. Answer(g, f, x)
      BY <1>2, <2>2 DEF Finished
    <3> QED  BY <1>2, <2>1, <3>1, AnswerKeeps
  <2>3. CASE x \notin Error /\ x = Infinite
    <3>1. Answer(g, f, NonFinite)
      BY <1>2, <2>3 DEF Finished
    <3> QED  BY <1>2, <2>1, <3>1, AnswerKeeps
  <2>4. CASE x \notin Error /\ x # Infinite
    <3> DEFINE next == [StartRound(f, "zero", 0) EXCEPT !.y1 = x]
    <3>1. Goto(g, "search", next)
      BY <1>2, <2>4 DEF Finished
    <3>2. /\ FrameTyped(next) /\ next.kind = "compile" /\ next.round = "zero" /\ next.y1 = x
          /\ next.from = f.from /\ next.to = f.to
          /\ next.scope = f.scope /\ next.intent = f.intent
          /\ next.q = [mag |-> 0, dim |-> f.from]
      BY <1>2 DEF StartRound, FrameTyped, FrameFields
    <3> HIDE DEF next
    <3>3. x = Direct(f.scope, f.from, f.to, 1)
      BY <1>2 DEF Began, ScopeOf
    <3>4. SearchRight(next) /\ next.q = Start(next)
      BY <1>2, <3>2, <3>3 DEF SearchRight, Began, Start
    <3>5. ThreadRight("search", next)
      BY <3>2, <3>4 DEF ThreadRight
    <3> QED  BY <2>1, <3>1, <3>5, StepKeeps
  <2> QED  BY <2>2, <2>3, <2>4
<1>3. CASE f.kind = "compile" /\ f.round # "one"
  <2>1. /\ x = Direct(f.scope, f.from, f.to, 0) /\ f.y1 = Direct(f.scope, f.from, f.to, 1)
        /\ f.from # f.to /\ f.intent = f.scope
    BY <1>3 DEF SearchRight, Began, ScopeOf
  <2> DEFINE op == IF x \in Error \cup {Infinite} THEN Operation(f, FALSE, 0, 0)
                   ELSE Operation(f, TRUE, f.y1 - x, x)
  <2>2. ops' = [ops EXCEPT ![g] = op] /\ Answer(g, f, None)
    BY <1>3 DEF Finished
  <2>3. OpRight(op)
    BY <2>1 DEF OpRight, Operation, FrameTyped, Refused
  <2> HIDE DEF op
  <2> QED  BY <1>3, <2>2, <2>3, AnswerKeeps
<1> QED  BY <1>1, <1>2, <1>3 DEF SearchRight

-----------------------------------------------------------------------------
(* The calls *)

\* A new frame has no contexts yet.
LEMMA NewFrameTyped ==
  ASSUME NEW kind, NEW from \in Dim, NEW to \in Dim
  PROVE  FrameTyped(NewFrame(kind, from, to))
<1>1. << >> \in Seq(Bindings)
  OBVIOUS
<1> QED  BY <1>1 DEF FrameTyped, FrameFields, NewFrame

\* Converter begins with nothing bound.
LEMMA BeginConverterKeeps ==
  ASSUME ScopesInv, NEW g \in Goroutine, NEW from \in Dim, NEW to \in Dim,
         NEW want \in Scope \cup {None}, BeginConverter(g, from, to, want)
  PROVE  ScopesInv'
<1> DEFINE f == [NewFrame("compile", from, to) EXCEPT !.want = want]
<1>1. Goto(g, "bind", f) /\ ops' = [ops EXCEPT ![g] = None] /\ UNCHANGED <<contexts, active>>
  BY DEF BeginConverter
<1>2. f.kind = "compile" /\ f.want = want /\ f.scope = << >> /\ FrameTyped(f)
  <2>1. FrameTyped(NewFrame("compile", from, to))
    BY NewFrameTyped
  <2> QED  BY <2>1 DEF FrameTyped, FrameFields, NewFrame
<1> HIDE DEF f
<1>3. BindRight(f)
  <2>1. want # None => Len(want) \in Nat
    BY CatalogAssumption
  <2>2. Len(f.scope) = 0
    BY <1>2
  <2> QED  BY <1>2, <2>1, <2>2 DEF BindRight
<1>4. ThreadRight("bind", f)
  BY <1>2, <1>3 DEF ThreadRight
<1> QED  BY <1>1, <1>4, StepKeeps

\* A ConverterOp that is a line answers at once, any other walks its own contexts.
LEMMA BeginRunKeeps ==
  ASSUME ScopesInv, NEW g \in Goroutine, NEW v \in Value, BeginRun(g, v)
  PROVE  ScopesInv'
<1> DEFINE op == ops[g]
           f == [NewFrame("run", op.from, op.to) EXCEPT
                   !.scope = op.scope, !.intent = op.intent, !.q.mag = v, !.v = v]
<1>1. OpRight(op)
  BY DEF ScopesInv, BeginRun
<1>2. v \in Int
  BY ScopeAssumption
<1>3. UNCHANGED <<contexts, active, ops>>
  BY DEF BeginRun
<1>4. IF op.simple THEN Answer(g, f, op.scale * v + op.offset) ELSE Goto(g, "search", f)
  BY DEF BeginRun
<1> HIDE DEF op
<1>5. /\ f.kind = "run" /\ f.from = op.from /\ f.to = op.to /\ f.v = v
      /\ f.scope = op.scope /\ f.intent = op.scope
      /\ f.q = [mag |-> v, dim |-> op.from] /\ FrameTyped(f)
  <2>1. FrameTyped(NewFrame("run", op.from, op.to))
    BY <1>1, NewFrameTyped DEF OpRight
  <2> QED  BY <1>1, <2>1 DEF OpRight, FrameTyped, FrameFields, NewFrame
<1> HIDE DEF f
<1>6. CASE op.simple
  <2>1. op.scale * v + op.offset = Sampled(f.intent, f.from, f.to, f.v)
    <3>1. CASE op.from = op.to
      <4>1. op.scale = 1 /\ op.offset = 0 /\ Sampled(f.intent, f.from, f.to, f.v) = v
        BY <1>1, <1>5, <3>1 DEF OpRight, Sampled
      <4> QED  BY <1>2, <4>1
    <3>2. CASE op.from # op.to
      BY <1>1, <1>5, <1>6, <3>2 DEF OpRight, Sampled, Refused
    <3> QED  BY <3>1, <3>2
  <2> QED  BY <1>3, <1>4, <1>5, <1>6, <2>1, AnswerKeeps
<1>7. CASE ~op.simple
  <2>1. op.from # op.to
    BY <1>1, <1>7 DEF OpRight
  <2>2. SearchRight(f) /\ f.q = Start(f)
    <3>1. Direct(op.scope, op.from, op.to, 0) \in Refused
      BY <1>1, <1>7, <2>1 DEF OpRight
    <3> QED  BY <1>2, <1>5, <2>1, <3>1 DEF SearchRight, Began, Start
  <2>3. ThreadRight("search", f)
    BY <1>5, <2>2 DEF ThreadRight
  <2> QED  BY <1>3, <1>4, <1>7, <2>3, StepKeeps
<1> QED  BY <1>6, <1>7

\* Quantity.To begins with its magnitude.
LEMMA BeginLiveKeeps ==
  ASSUME ScopesInv, NEW g \in Goroutine, NEW from \in Dim, NEW to \in Dim,
         NEW v \in Value, BeginLive(g, from, to, v)
  PROVE  ScopesInv'
<1> DEFINE f == [NewFrame("live", from, to) EXCEPT !.q.mag = v, !.v = v]
<1>1. Goto(g, "search", f) /\ UNCHANGED <<contexts, active, ops>> /\ v \in Int
  BY ScopeAssumption DEF BeginLive
<1>2. /\ f.kind = "live" /\ f.v = v /\ f.from = from /\ f.q = [mag |-> v, dim |-> from]
      /\ FrameTyped(f)
  <2>1. FrameTyped(NewFrame("live", from, to))
    BY NewFrameTyped
  <2> QED  BY <2>1 DEF FrameTyped, FrameFields, NewFrame
<1> HIDE DEF f
<1>3. SearchRight(f) /\ f.q = Start(f)
  BY <1>1, <1>2 DEF SearchRight, Began, Start
<1>4. ThreadRight("search", f)
  BY <1>2, <1>3 DEF ThreadRight
<1> QED  BY <1>1, <1>4, StepKeeps

\* Without a scope the stack is copied.
LEMMA BindActiveKeeps ==
  ASSUME ScopesInv, NEW g \in Goroutine, BindActive(g)
  PROVE  ScopesInv'
<1>1. PICK f : f = frame[g]
  OBVIOUS
<1>2. FrameTyped(f) /\ f.kind = "compile" /\ active \in Seq(Bindings)
  BY <1>1 DEF ScopesInv, ThreadRight, BindRight, BindActive
<1>3. PICK stack : stack = active
  OBVIOUS
<1> DEFINE next == [f EXCEPT !.scope = stack, !.intent = stack]
<1>4. Goto(g, "compile", next) /\ UNCHANGED <<contexts, active, ops>>
  BY <1>1, <1>3 DEF BindActive
<1>5. FrameTyped(next) /\ next.kind = "compile" /\ next.intent = next.scope
  BY <1>2, <1>3 DEF FrameTyped, FrameFields
<1> HIDE DEF next
<1>6. ThreadRight("compile", next)
  BY <1>5 DEF ThreadRight
<1> QED  BY <1>4, <1>6, StepKeeps

\* A scope is bound one context after the other, and when all are, they are what
\* was wanted.
LEMMA BindScopeKeeps ==
  ASSUME ScopesInv, NEW g \in Goroutine, BindScope(g)
  PROVE  ScopesInv'
<1>1. PICK f : f = frame[g]
  OBVIOUS
<1>2. /\ FrameTyped(f) /\ BindRight(f) /\ f.kind = "compile" /\ f.want # None
      /\ contexts \in Catalog /\ UNCHANGED <<contexts, active, ops>>
  BY <1>1 DEF ScopesInv, ThreadRight, BindRight, BindScope
<1>3. /\ f.want \in Scope /\ f.want \in Seq(ToSet(f.want)) /\ Len(f.want) \in Nat
      /\ DOMAIN f.want = 1..Len(f.want)
      /\ f.scope \in Seq(Bindings) /\ Len(f.scope) \in Nat /\ Len(f.scope) <= Len(f.want)
  BY <1>2, CatalogAssumption DEF BindRight, FrameTyped
<1>4. \A i \in 1..Len(f.scope) : f.scope[i] = Bound(f.want[i].name, f.want[i].params)
  BY <1>2 DEF BindRight
<1>5. PICK use : use = f.want[Len(f.scope) + 1]
  OBVIOUS
<1>6. CASE Len(f.scope) = Len(f.want)
  <2>1. PICK all : all = [i \in DOMAIN f.want |-> Bound(f.want[i].name, f.want[i].params)]
    OBVIOUS
  <2>2. all = f.scope
    <3>1. DOMAIN f.scope = 1..Len(f.scope) /\ f.scope = [i \in 1..Len(f.scope) |-> f.scope[i]]
      BY <1>3
    <3>2. DOMAIN all = 1..Len(f.scope) /\ all = [i \in 1..Len(f.scope) |-> all[i]]
      BY <1>3, <1>6, <2>1
    <3>3. \A i \in 1..Len(f.scope) : all[i] = f.scope[i]
      BY <1>3, <1>4, <1>6, <2>1
    <3> QED  BY <3>1, <3>2, <3>3
  <2> DEFINE next == [f EXCEPT !.intent = all]
  <2>3. Goto(g, "compile", next)
    BY <1>1, <1>6, <2>1 DEF BindScope
  <2>4. FrameTyped(next) /\ next.kind = "compile" /\ next.intent = next.scope
    BY <1>2, <1>3, <2>2 DEF FrameTyped, FrameFields
  <2> HIDE DEF next
  <2>5. ThreadRight("compile", next)
    BY <2>4 DEF ThreadRight
  <2> QED  BY <1>2, <2>3, <2>5, StepKeeps
<1>7. CASE Len(f.scope) # Len(f.want) /\ BindFails(use.name, use.params)
  <2>1. Answer(g, f, Unknown)
    BY <1>1, <1>5, <1>7 DEF BindScope
  <2> QED  BY <1>2, <2>1, AnswerKeeps
<1>8. CASE Len(f.scope) # Len(f.want) /\ ~BindFails(use.name, use.params)
  <2> DEFINE n == Len(f.scope) + 1
             more == Append(f.scope, Bound(use.name, use.params))
             next == [f EXCEPT !.scope = more]
  <2>1. n \in 1..Len(f.want)
    BY <1>3, <1>8
  <2>2. use \in ToSet(f.want)
    BY <1>3, <1>5, <2>1
  <2>3. use.params \in Params /\ use.name \in DOMAIN contexts
    BY <1>3, <1>8, <2>2 DEF Params, BindFails
  <2>4. Bound(use.name, use.params) \in Bindings
    BY <1>2, <2>3, BoundTyped
  <2>5. /\ more \in Seq(Bindings) /\ Len(more) = n /\ more[n] = Bound(use.name, use.params)
        /\ \A i \in 1..Len(f.scope) : more[i] = f.scope[i]
    BY <1>3, <2>4
  <2>6. Goto(g, "bind", next)
    BY <1>1, <1>5, <1>8 DEF BindScope
  <2> HIDE DEF more
  <2>7. /\ FrameTyped(next) /\ next.kind = "compile" /\ next.want = f.want /\ next.scope = more
    BY <1>2, <2>5, FrameChanges DEF FrameFields
  <2> HIDE DEF next
  <2>8. \A i \in 1..Len(more) : more[i] = Bound(f.want[i].name, f.want[i].params)
    <3> TAKE i \in 1..Len(more)
    <3>1. CASE i = n
      BY <1>5, <2>5, <3>1
    <3>2. CASE i # n
      <4>1. i \in 1..Len(f.scope)
        BY <1>3, <2>5, <3>2
      <4> QED  BY <1>4, <2>5, <4>1
    <3> QED  BY <3>1, <3>2
  <2>9. BindRight(next)
    BY <1>3, <2>1, <2>5, <2>7, <2>8 DEF BindRight
  <2>10. ThreadRight("bind", next)
    BY <2>7, <2>9 DEF ThreadRight
  <2> QED  BY <1>2, <2>6, <2>10, StepKeeps
<1> QED  BY <1>6, <1>7, <1>8

\* Units of one dimension are a line at once, others are sampled first at 1.
LEMMA CompileKeeps ==
  ASSUME ScopesInv, NEW g \in Goroutine, Compile(g)
  PROVE  ScopesInv'
<1>1. PICK f : f = frame[g]
  OBVIOUS
<1>2. /\ FrameTyped(f) /\ f.kind = "compile" /\ f.intent = f.scope
      /\ UNCHANGED <<contexts, active>>
  BY <1>1 DEF ScopesInv, ThreadRight, Compile
<1>3. CASE f.from = f.to
  <2>1. ops' = [ops EXCEPT ![g] = Operation(f, TRUE, 1, 0)] /\ Answer(g, f, None)
    BY <1>1, <1>3 DEF Compile
  <2>2. OpRight(Operation(f, TRUE, 1, 0))
    BY <1>2, <1>3 DEF OpRight, Operation, FrameTyped
  <2> QED  BY <1>2, <2>1, <2>2, AnswerKeeps
<1>4. CASE f.from # f.to /\ ContextPath(f.scope, f.from, f.to) = << >>
  <2>1. UNCHANGED ops /\ Answer(g, f, Mismatch)
    BY <1>1, <1>4 DEF Compile
  <2> QED  BY <1>2, <2>1, AnswerKeeps
<1>5. CASE f.from # f.to /\ ContextPath(f.scope, f.from, f.to) # << >>
  <2> DEFINE next == StartRound(f, "one", 1)
  <2>1. UNCHANGED ops /\ Goto(g, "search", next)
    BY <1>1, <1>5 DEF Compile
  <2>2. /\ FrameTyped(next) /\ next.kind = "compile" /\ next.round = "one"
        /\ next.from = f.from /\ next.to = f.to
        /\ next.scope = f.scope /\ next.intent = f.intent
        /\ next.q = [mag |-> 1, dim |-> f.from]
    BY <1>2 DEF StartRound, FrameTyped, FrameFields
  <2> HIDE DEF next
  <2>3. SearchRight(next) /\ next.q = Start(next)
    BY <1>2, <1>5, <2>2 DEF SearchRight, Began, Start
  <2>4. ThreadRight("search", next)
    BY <2>2, <2>3 DEF ThreadRight
  <2> QED  BY <1>2, <2>1, <2>4, StepKeeps
<1> QED  BY <1>3, <1>4, <1>5

-----------------------------------------------------------------------------
(* The walk *)

\* The path is chosen, or there is nothing to walk.
LEMMA SearchStepKeeps ==
  ASSUME ScopesInv, NEW g \in Goroutine, Search(g)
  PROVE  ScopesInv'
<1>1. PICK f : f = frame[g]
  OBVIOUS
<1>2. PICK scope : scope = ScopeOf(f)
  OBVIOUS
<1>3. PICK path : path = ContextPath(scope, f.from, f.to)
  OBVIOUS
<1>4. /\ FrameTyped(f) /\ SearchRight(f) /\ f.q = Start(f)
      /\ UNCHANGED <<contexts, active>>
  BY <1>1 DEF ScopesInv, ThreadRight, Search
<1>5. scope \in Seq(Bindings) /\ f.from \in Dim
  BY <1>2, <1>4 DEF ScopeOf, FrameTyped, ScopesInv
<1>6. f.q.mag = Began(f) /\ f.q.dim = f.from
  BY <1>4 DEF Start
<1>7. CASE f.from = f.to
  <2>1. Finished(g, f, f.q.mag)
    BY <1>1, <1>7 DEF Search
  <2>2. f.q.mag = Direct(scope, f.from, f.to, Began(f))
    BY <1>6, <1>7 DEF Direct
  <2> QED  BY <1>2, <1>4, <2>1, <2>2, FinishedKeeps
<1>8. CASE f.from # f.to /\ path = << >>
  <2>1. Finished(g, f, Mismatch)
    BY <1>1, <1>2, <1>3, <1>8 DEF Search
  <2>2. Mismatch = Direct(scope, f.from, f.to, Began(f))
    BY <1>3, <1>8 DEF Direct
  <2> QED  BY <1>2, <1>4, <2>1, <2>2, FinishedKeeps
<1>9. CASE f.from # f.to /\ path # << >>
  <2> DEFINE next == [f EXCEPT !.path = path]
  <2>1. Goto(g, "hop", next) /\ UNCHANGED ops
    BY <1>1, <1>2, <1>3, <1>9 DEF Search
  <2>2. path \in Seq(Dim) /\ path # << >> /\ path[1] = f.from /\ Len(path) >= 2
    BY <1>3, <1>5, <1>9, PathsLead DEF IsTrail
  <2>3. /\ FrameTyped(next) /\ next.path = path /\ next.q = f.q
        /\ next.kind = f.kind /\ next.from = f.from /\ next.to = f.to
        /\ next.scope = f.scope /\ next.intent = f.intent
        /\ next.round = f.round /\ next.y1 = f.y1 /\ next.v = f.v
    BY <1>4 DEF FrameTyped, FrameFields
  <2> HIDE DEF next
  <2>4. SearchRight(next) /\ Start(next) = f.q /\ ScopeOf(next) = scope
    BY <1>2, <1>4, <2>3 DEF SearchRight, Began, Start, ScopeOf
  <2>5. Len(path) \in Nat /\ 0 \in 0..(Len(path) - 1)
    BY <2>2
  <2>6. PICK walk : walk = Walked(scope, path, Start(next))
    OBVIOUS
  <2>7. walk[0] = f.q
    <3>1. Walks(scope, path, Start(next), Len(path) - 1, walk)
      BY <2>2, <2>5, <2>6, WalkTurns
    <3> QED  BY <2>4, <3>1 DEF Walks
  <2>8. f.q.mag \notin Error
    BY <1>4, <1>6, ScopeAssumption DEF SearchRight
  <2>9. \A j \in 1..(Len(path) - 0) : next.path[j] = path[0 + j]
    BY <2>3
  <2>10. f.q.dim = path[0 + 1] /\ Len(next.path) = Len(path) - 0 /\ next.path \in Seq(Dim)
    BY <1>6, <2>2, <2>3, <2>5
  <2>11. HopRight(next)
    <3>1. path = ContextPath(ScopeOf(next), next.from, next.to)
      BY <1>3, <2>3, <2>4
    <3>2. \E i \in 0..(Len(path) - 1) :
            /\ next.path \in Seq(Dim) /\ Len(next.path) = Len(path) - i
            /\ \A j \in 1..(Len(path) - i) : next.path[j] = path[i + j]
            /\ next.q = walk[i] /\ next.q.mag \notin Error /\ next.q.dim = path[i + 1]
      BY <2>3, <2>5, <2>7, <2>8, <2>9, <2>10
    <3>3. next.from # next.to
      BY <1>9, <2>3
    <3> QED  BY <2>2, <2>4, <2>6, <3>1, <3>2, <3>3, Zenon DEF HopRight
  <2>12. ThreadRight("hop", next)
    BY <2>3, <2>4, <2>11 DEF ThreadRight
  <2> QED  BY <1>4, <2>1, <2>12, StepKeeps
<1> QED  BY <1>7, <1>8, <1>9

\* A frame on its way, its path and its walk named.
OnItsWay(f, scope, path, walk, i) ==
  /\ FrameTyped(f) /\ SearchRight(f) /\ f.from # f.to
  /\ scope = ScopeOf(f) /\ path = ContextPath(scope, f.from, f.to)
  /\ path \in Seq(Dim) /\ Len(path) \in Nat /\ Len(path) >= 2 /\ Last(path) = f.to
  /\ walk = Walked(scope, path, Start(f)) /\ Walks(scope, path, Start(f), Len(path) - 1, walk)
  /\ i \in 0..(Len(path) - 1)
  /\ f.path \in Seq(Dim) /\ Len(f.path) = Len(path) - i
  /\ \A j \in 1..(Len(path) - i) : f.path[j] = path[i + j]
  /\ f.q = walk[i] /\ f.q.mag \notin Error /\ f.q.dim = path[i + 1]
  /\ Direct(scope, f.from, f.to, Began(f)) = walk[Len(path) - 1].mag

\* Whoever hops is on its way.
LEMMA HoppersOnTheirWay ==
  ASSUME ScopesInv, NEW g \in Goroutine, pc[g] = "hop", NEW f, f = frame[g]
  PROVE  \E scope, path, walk, i : OnItsWay(f, scope, path, walk, i)
<1>1. FrameTyped(f) /\ SearchRight(f) /\ HopRight(f)
  BY DEF ScopesInv, ThreadRight
<1>2. PICK scope : scope = ScopeOf(f)
  OBVIOUS
<1>3. PICK path : path = ContextPath(scope, f.from, f.to)
  OBVIOUS
<1>4. PICK walk : walk = Walked(scope, path, Start(f))
  OBVIOUS
<1>5. scope \in Seq(Bindings) /\ f.from \in Dim
  BY <1>1, <1>2 DEF ScopeOf, FrameTyped, ScopesInv
<1>6. f.from # f.to /\ Len(path) >= 2
  BY <1>1, <1>2, <1>3 DEF HopRight
<1>7. PICK i \in 0..(Len(path) - 1) :
        /\ f.path \in Seq(Dim) /\ Len(f.path) = Len(path) - i
        /\ \A j \in 1..(Len(path) - i) : f.path[j] = path[i + j]
        /\ f.q = walk[i] /\ f.q.mag \notin Error /\ f.q.dim = path[i + 1]
  BY <1>1, <1>2, <1>3, <1>4, Zenon DEF HopRight
<1>8. path # << >>
  <2>1. Len(<< >>) = 0
    OBVIOUS
  <2> QED  BY <1>6, <2>1
<1>9. path \in Seq(Dim) /\ Len(path) \in Nat /\ Last(path) = f.to
  BY <1>3, <1>5, <1>6, <1>8, PathsLead DEF IsTrail
<1>10. Walks(scope, path, Start(f), Len(path) - 1, walk)
  <2>1. Len(path) - 1 \in Nat
    BY <1>6, <1>9
  <2> QED  BY <1>4, <2>1, WalkTurns
<1>11. Direct(scope, f.from, f.to, Began(f)) = walk[Len(path) - 1].mag
  BY <1>3, <1>4, <1>6, <1>8, Zenon DEF Direct, Start
<1>12. OnItsWay(f, scope, path, walk, i)
  BY <1>1, <1>2, <1>3, <1>4, <1>6, <1>7, <1>9, <1>10, <1>11, Zenon DEF OnItsWay
<1> QED  BY <1>12

\* A hop is the next of the walk; where it fails, so does the walk.
LEMMA HopKeeps ==
  ASSUME ScopesInv, NEW g \in Goroutine, Hop(g)
  PROVE  ScopesInv'
<1>1. PICK f : f = frame[g]
  OBVIOUS
<1>2. PICK scope, path, walk, i : OnItsWay(f, scope, path, walk, i)
  BY <1>1, HoppersOnTheirWay DEF Hop
<1>3. /\ FrameTyped(f) /\ SearchRight(f) /\ f.from # f.to
      /\ scope = ScopeOf(f) /\ path = ContextPath(scope, f.from, f.to)
      /\ path \in Seq(Dim) /\ Len(path) \in Nat /\ Len(path) >= 2
      /\ walk = Walked(scope, path, Start(f)) /\ Walks(scope, path, Start(f), Len(path) - 1, walk)
      /\ f.path \in Seq(Dim) /\ Len(f.path) = Len(path) - i
      /\ f.q = walk[i] /\ f.q.mag \notin Error
      /\ Direct(scope, f.from, f.to, Began(f)) = walk[Len(path) - 1].mag
  BY <1>2 DEF OnItsWay
<1>4. i \in 0..(Len(path) - 1) /\ \A j \in 1..(Len(path) - i) : f.path[j] = path[i + j]
  BY <1>2 DEF OnItsWay
<1>5. Len(f.path) > 1 /\ UNCHANGED <<contexts, active>>
  BY <1>1 DEF Hop
<1>6. i \in Nat /\ i + 1 \in 1..(Len(path) - 1) /\ (i + 1) - 1 = i /\ i + 1 \in 0..(Len(path) - 1)
  BY <1>3, <1>4, <1>5
<1>7. f.path[1] = path[i + 1] /\ f.path[2] = path[i + 2]
  <2>1. 1 \in 1..(Len(path) - i) /\ 2 \in 1..(Len(path) - i)
    BY <1>3, <1>4, <1>5
  <2> QED  BY <1>4, <2>1
<1>8. PICK q : q = ApplyHop(f.q, f.path[1], f.path[2], scope)
  OBVIOUS
<1>9. q = walk[i + 1]
  <2>1. walk[i + 1] = IF walk[(i + 1) - 1].mag \in Error THEN walk[(i + 1) - 1]
                      ELSE ApplyHop(walk[(i + 1) - 1], path[i + 1], path[(i + 1) + 1], scope)
    BY <1>3, <1>6, Zenon DEF Walks
  <2>2. (i + 1) + 1 = i + 2
    BY <1>6
  <2>3. walk[i + 1] = ApplyHop(f.q, path[i + 1], path[i + 2], scope)
    BY <1>3, <1>6, <2>1, <2>2, Zenon
  <2> QED  BY <1>7, <1>8, <2>3, Zenon
<1>10. CASE q.mag \in Error
  <2>1. Finished(g, f, q.mag)
    BY <1>1, <1>3, <1>8, <1>10 DEF Hop
  <2>2. walk[Len(path) - 1] = q
    <3>1. PICK m \in Nat : m = Len(path) - 1
      BY <1>3
    <3>2. Walks(scope, path, Start(f), m, walk) /\ i + 1 \in 0..m /\ walk[i + 1].mag \in Error
      BY <1>3, <1>6, <1>9, <1>10, <3>1
    <3>3. walk[m] = walk[i + 1]
      BY <3>2, WalkStays
    <3> QED  BY <1>9, <3>1, <3>3
  <2> QED  BY <1>3, <1>5, <2>1, <2>2, FinishedKeeps
<1>11. CASE q.mag \notin Error
  <2> DEFINE next == [f EXCEPT !.q = q, !.path = Tail(@)]
  <2>1. Goto(g, "hop", next) /\ UNCHANGED ops
    BY <1>1, <1>3, <1>8, <1>11 DEF Hop
  <2>2. /\ FrameTyped(next) /\ next.path = Tail(f.path) /\ next.q = q
        /\ next.kind = f.kind /\ next.from = f.from /\ next.to = f.to
        /\ next.scope = f.scope /\ next.intent = f.intent
        /\ next.round = f.round /\ next.y1 = f.y1 /\ next.v = f.v
    BY <1>3 DEF FrameTyped, FrameFields
  <2> HIDE DEF next
  <2>3. SearchRight(next) /\ Start(next) = Start(f) /\ ScopeOf(next) = scope
    BY <1>3, <2>2 DEF SearchRight, Began, Start, ScopeOf
  <2>4. /\ next.path \in Seq(Dim) /\ Len(next.path) = Len(f.path) - 1
        /\ \A j \in 1..(Len(f.path) - 1) : next.path[j] = f.path[j + 1]
    BY <1>3, <1>5, <2>2
  <2>5. Len(next.path) = Len(path) - (i + 1)
    BY <1>3, <1>6, <2>4
  <2>6. \A j \in 1..(Len(path) - (i + 1)) : next.path[j] = path[(i + 1) + j]
    <3> TAKE j \in 1..(Len(path) - (i + 1))
    <3>1. j \in 1..(Len(f.path) - 1) /\ j + 1 \in 1..(Len(path) - i) /\ i + (j + 1) = (i + 1) + j
      BY <1>3, <1>6
    <3> QED  BY <1>4, <2>4, <3>1
  <2>7. q.dim = path[(i + 1) + 1]
    <3>1. (i + 1) + 1 = i + 2
      BY <1>6
    <3> QED  BY <1>7, <1>8, <1>11, <3>1, HopArrives
  <2>8. HopRight(next)
    <3>1. path = ContextPath(ScopeOf(next), next.from, next.to) /\ next.from # next.to
      BY <1>3, <2>2, <2>3
    <3>2. \E k \in 0..(Len(path) - 1) :
            /\ next.path \in Seq(Dim) /\ Len(next.path) = Len(path) - k
            /\ \A j \in 1..(Len(path) - k) : next.path[j] = path[k + j]
            /\ next.q = walk[k] /\ next.q.mag \notin Error /\ next.q.dim = path[k + 1]
      BY <1>6, <1>9, <1>11, <2>2, <2>4, <2>5, <2>6, <2>7
    <3> QED  BY <1>3, <2>3, <3>1, <3>2, Zenon DEF HopRight
  <2>9. ThreadRight("hop", next)
    BY <2>2, <2>3, <2>8 DEF ThreadRight
  <2> QED  BY <1>5, <2>1, <2>9, StepKeeps
<1> QED  BY <1>10, <1>11

\* At the end of the path is the end of the walk.
LEMMA ArriveKeeps ==
  ASSUME ScopesInv, NEW g \in Goroutine, Arrive(g)
  PROVE  ScopesInv'
<1>1. PICK f : f = frame[g]
  OBVIOUS
<1>2. PICK scope, path, walk, i : OnItsWay(f, scope, path, walk, i)
  BY <1>1, HoppersOnTheirWay DEF Arrive
<1>3. Len(f.path) = 1 /\ Finished(g, f, f.q.mag) /\ UNCHANGED <<contexts, active>>
  BY <1>1 DEF Arrive
<1>4. Len(path) \in Nat /\ i \in 0..(Len(path) - 1) /\ Len(f.path) = Len(path) - i
  BY <1>2 DEF OnItsWay
<1>5. i = Len(path) - 1
  <2>1. \A n \in Nat : i \in 0..(n - 1) /\ n - i = 1 => i = n - 1
    OBVIOUS
  <2>2. Len(path) - i = 1
    BY <1>3, <1>4
  <2> QED  BY <1>4, <2>1, <2>2
<1>6. /\ FrameTyped(f) /\ SearchRight(f)
      /\ f.q.mag = Direct(ScopeOf(f), f.from, f.to, Began(f))
  BY <1>2, <1>5 DEF OnItsWay
<1> QED  BY <1>3, <1>6, FinishedKeeps

\* A return leaves the answer of a call that was right at its end.
LEMMA ReturnKeeps ==
  ASSUME ScopesInv, NEW g \in Goroutine, Return(g)
  PROVE  ScopesInv'
<1>1. FrameTyped(Rest)
  BY NewFrameTyped, ScopeAssumption DEF Rest
<1>2. ThreadRight("idle", Rest)
  BY <1>1 DEF ThreadRight
<1>3. Goto(g, "idle", Rest) /\ UNCHANGED <<contexts, active, ops>>
  BY DEF Return
<1> QED  BY <1>2, <1>3, StepKeeps

-----------------------------------------------------------------------------
(* The stack and the contexts move *)

\* The stack moves while no goroutine converts through it.
LEMMA ChangeKeeps ==
  ASSUME ScopesInv, \A g \in Goroutine : ~ReadsStack(g), Change
  PROVE  ScopesInv'
<1>1. UNCHANGED <<contexts, ops, pc, frame>>
  BY DEF Change, EnableContext, DisableContext
<1>2. active' \in Seq(Bindings) /\ Len(active') <= MaxActive
  <2>1. CASE DisableContext
    <3>1. active \in Seq(Bindings) /\ active # << >> /\ Len(active) \in Nat /\ Len(active) >= 1
      BY <2>1 DEF ScopesInv, DisableContext
    <3>2. active' = [i \in 1..(Len(active) - 1) |-> active[i]]
      BY <2>1, <3>1 DEF DisableContext, Front, SubSeq
    <3>3. active' \in Seq(Bindings) /\ Len(active') = Len(active) - 1
      BY <3>1, <3>2
    <3>4. Len(active) <= MaxActive /\ MaxActive \in Nat
      BY ScopeAssumption DEF ScopesInv
    <3> QED  BY <3>1, <3>3, <3>4
  <2>2. CASE \E use \in UNION {ToSet(s) : s \in Scope} : EnableContext(use.name, use.params)
    <3>1. PICK use \in UNION {ToSet(s) : s \in Scope} : EnableContext(use.name, use.params)
      BY <2>2
    <3>2. use.params \in Params /\ use.name \in DOMAIN contexts /\ contexts \in Catalog
      BY <3>1 DEF Params, EnableContext, BindFails, ScopesInv
    <3>3. Bound(use.name, use.params) \in Bindings
      BY <3>2, BoundTyped
    <3>4. active \in Seq(Bindings) /\ Len(active) < MaxActive
      BY <3>1 DEF ScopesInv, EnableContext
    <3>5. active' = Append(active, Bound(use.name, use.params))
      BY <3>1 DEF EnableContext
    <3> QED  BY <3>3, <3>4, <3>5, ScopeAssumption
  <2> QED  BY <2>1, <2>2 DEF Change
<1>3. ASSUME NEW g \in Goroutine PROVE ThreadRight(pc[g], frame[g])'
  <2>1. PICK l : l = pc[g]
    OBVIOUS
  <2>2. PICK f : f = frame[g]
    OBVIOUS
  <2>3. f.kind # "live" /\ ThreadRight(l, f)
    BY <2>1, <2>2 DEF ScopesInv, ReadsStack
  <2>4. ScopeOf(f) = f.scope /\ ScopeOf(f)' = f.scope
    BY <2>3 DEF ScopeOf
  <2>5. HopRight(f) => HopRight(f)'
    BY <2>4 DEF HopRight
  <2>6. BindRight(f) => BindRight(f)'
    BY <1>1 DEF BindRight, Bound
  <2>7. ReturnRight(f) => ReturnRight(f)'
    BY <2>3 DEF ReturnRight
  <2>8. ThreadRight(l, f)'
    BY <2>3, <2>5, <2>6, <2>7 DEF ThreadRight
  <2>9. pc'[g] = l /\ frame'[g] = f
    BY <1>1, <2>1, <2>2
  <2> QED  BY <2>8, <2>9 DEF ThreadRight, BindRight, Bound, HopRight, ScopeOf, ReturnRight
<1>4. ASSUME NEW g \in Goroutine PROVE (ops[g] # None => OpRight(ops[g]))'
  BY <1>1 DEF ScopesInv, OpRight
<1> QED  BY <1>1, <1>2, <1>3, <1>4 DEF ScopesInv

\* A definition file is loaded while no goroutine converts.
LEMMA LoadKeeps ==
  ASSUME ScopesInv, NEW c \in Catalog, Load(c)
  PROVE  ScopesInv'
<1>1. contexts' \in Catalog /\ UNCHANGED <<active, ops, pc, frame>>
  BY DEF Load
<1>2. ASSUME NEW g \in Goroutine PROVE ThreadRight(pc[g], frame[g])'
  <2>1. pc'[g] = "idle" /\ FrameTyped(frame'[g])
    BY <1>1 DEF Load, ScopesInv, ThreadRight
  <2> QED  BY <2>1 DEF ThreadRight, FrameTyped
<1>3. ASSUME NEW g \in Goroutine PROVE (ops[g] # None => OpRight(ops[g]))'
  BY <1>1 DEF ScopesInv, OpRight
<1> QED  BY <1>1, <1>2, <1>3 DEF ScopesInv

-----------------------------------------------------------------------------
(* The invariant of the specification *)

\* Nothing is enabled, compiled or under way at first.
LEMMA ScopesInit == Init => ScopesInv
<1> SUFFICES ASSUME Init PROVE ScopesInv
  OBVIOUS
<1>1. FrameTyped(Rest)
  BY NewFrameTyped, ScopeAssumption DEF Rest
<1>2. ThreadRight("idle", Rest)
  BY <1>1 DEF ThreadRight
<1>3. active \in Seq(Bindings) /\ Len(active) <= MaxActive
  BY ScopeAssumption DEF Init
<1> QED  BY <1>2, <1>3 DEF Init, ScopesInv

\* Every step keeps the invariant: one case for each action.
LEMMA ScopesNext == ScopesInv /\ [Next]_vars => ScopesInv'
<1> SUFFICES ASSUME ScopesInv, [Next]_vars PROVE ScopesInv'
  OBVIOUS
<1>1. CASE UNCHANGED vars
  BY <1>1 DEF vars, ScopesInv, OpRight, ThreadRight, FrameTyped, BindRight, Bound, HopRight,
              ScopeOf, ReturnRight, SearchRight
<1>2. ASSUME NEW g \in Goroutine, Begin(g) PROVE ScopesInv'
  BY <1>2, BeginConverterKeeps, BeginLiveKeeps DEF Begin
<1>3. ASSUME NEW g \in Goroutine, Step(g) PROVE ScopesInv'
  BY <1>3, BindActiveKeeps, BindScopeKeeps, CompileKeeps, SearchStepKeeps, HopKeeps,
     ArriveKeeps, ReturnKeeps DEF Step
<1>4. ASSUME NEW g \in Goroutine, NEW v \in Value, BeginRun(g, v) PROVE ScopesInv'
  BY <1>4, BeginRunKeeps
<1>5. CASE (\A g \in Goroutine : ~ReadsStack(g)) /\ Change
  BY <1>5, ChangeKeeps
<1>6. ASSUME NEW c \in Catalog, Load(c) PROVE ScopesInv'
  BY <1>6, LoadKeeps
<1> QED  BY <1>1, <1>2, <1>3, <1>4, <1>5, <1>6 DEF Next

\* A conversion under way is what the first hops of Direct make of its magnitude, a
\* compiled one the line through two of Direct's answers, always.
THEOREM ScopesInvariant == Spec => []ScopesInv
<1> QED  BY ScopesInit, ScopesNext, PTL DEF Spec

-----------------------------------------------------------------------------
(* The properties *)

\* A goroutine of a state in the invariant.
LEMMA Threads ==
  ASSUME ScopesInv, NEW g \in Goroutine
  PROVE  ThreadRight(pc[g], frame[g]) /\ (ops[g] # None => OpRight(ops[g]))
BY DEF ScopesInv

\* Every bound context, enabled, compiled or about to be, has a value for each of
\* its parameters (bindContextParams), and a walk has a path.
THEOREM BoundContextsTyped == Spec => []TypeOK
<1>1. ScopesInv => TypeOK
  <2> SUFFICES ASSUME ScopesInv PROVE TypeOK
    OBVIOUS
  <2>1. ASSUME NEW s \in Seq(Bindings) PROVE IsScope(s)
    <3>1. \A i \in DOMAIN s : s[i] \in Bindings
      OBVIOUS
    <3> QED  BY <3>1, BindingsBound DEF IsScope
  <2>2. contexts \in Catalog /\ IsScope(active) /\ Len(active) <= MaxActive
    BY <2>1 DEF ScopesInv
  <2>3. ASSUME NEW g \in Goroutine
        PROVE  /\ pc[g] \in {"idle", "bind", "compile", "search", "hop", "return"}
               /\ IsScope(frame[g].scope) /\ IsScope(frame[g].intent)
    BY <2>1, Threads DEF ThreadRight, FrameTyped
  <2>4. ASSUME NEW g \in Goroutine, pc[g] = "hop" PROVE frame[g].path # << >>
    <3>1. PICK f : f = frame[g]
      OBVIOUS
    <3>2. PICK scope, path, walk, i : OnItsWay(f, scope, path, walk, i)
      BY <2>4, <3>1, HoppersOnTheirWay
    <3>3. /\ Len(path) \in Nat /\ i \in 0..(Len(path) - 1) /\ f.path \in Seq(Dim)
          /\ Len(f.path) = Len(path) - i
      BY <3>2 DEF OnItsWay
    <3>4. Len(f.path) # 0
      BY <3>3
    <3> QED  BY <3>1, <3>4
  <2>5. ASSUME NEW g \in Goroutine, ops[g] # None
        PROVE  IsScope(ops[g].scope) /\ ops[g].from \in Dim /\ ops[g].to \in Dim
    BY <2>1, <2>5, Threads DEF OpRight
  <2> QED  BY <2>2, <2>3, <2>4, <2>5 DEF TypeOK
<1> QED  BY <1>1, ScopesInvariant, PTL

\* A ConverterOp answers as the contexts it was asked to use, whatever is enabled,
\* disabled, loaded or compiled by others after it was made.
THEOREM CompiledConversionsAnswer == Spec => []CompiledAnswers
<1>1. ScopesInv => CompiledAnswers
  BY Threads DEF CompiledAnswers, ThreadRight, ReturnRight
<1> QED  BY <1>1, ScopesInvariant, PTL

\* Quantity.To answers as the enabled contexts: the stack it chose its path by is the
\* one its last hop reads.
THEOREM LiveConversionsAnswer == Spec => []LiveAnswers
<1>1. ScopesInv => LiveAnswers
  BY Threads DEF LiveAnswers, ThreadRight, ReturnRight
<1> QED  BY <1>1, ScopesInvariant, PTL

\* convertIn: each hop arrives in the dimension that contextPath chose for it.
THEOREM HopsArriveWhereThePathSays == Spec => []HopsLand
<1>1. ScopesInv => HopsLand
  <2> SUFFICES ASSUME ScopesInv, NEW g \in Goroutine, pc[g] = "hop"
               PROVE  frame[g].q.dim = frame[g].path[1]
    BY DEF HopsLand
  <2>1. PICK f : f = frame[g]
    OBVIOUS
  <2>2. PICK scope, path, walk, i : OnItsWay(f, scope, path, walk, i)
    BY <2>1, HoppersOnTheirWay
  <2>3. /\ Len(path) \in Nat /\ i \in 0..(Len(path) - 1) /\ f.q.dim = path[i + 1]
        /\ \A j \in 1..(Len(path) - i) : f.path[j] = path[i + j]
    BY <2>2 DEF OnItsWay
  <2>4. 1 \in 1..(Len(path) - i)
    BY <2>3
  <2>5. f.path[1] = path[i + 1]
    BY <2>3, <2>4
  <2> QED  BY <2>1, <2>3, <2>5
<1> QED  BY <1>1, ScopesInvariant, PTL

\* contextPath: a conversion that searches finds a path whenever the transforms of its
\* contexts lead from the one dimension to the other, and none is shorter.
THEOREM SearchesFindShortest == Spec => []PathsAreShortest
<1>1. ScopesInv => PathsAreShortest
  <2> SUFFICES ASSUME ScopesInv, NEW g \in Goroutine, pc[g] = "search",
                      frame[g].from # frame[g].to
               PROVE  LET scope == ScopeOf(frame[g])
                          src == frame[g].from
                          dst == frame[g].to
                          path == ContextPath(scope, src, dst)
                      IN  IF dst \notin WithinHops(scope, src, Cardinality(Dim))
                          THEN path = << >>
                          ELSE /\ path # << >> /\ path[1] = src /\ Last(path) = dst
                               /\ \A i \in 1..(Len(path) - 1) : Edge(scope, path[i], path[i + 1])
                               /\ dst \notin WithinHops(scope, src, Len(path) - 2)
    BY DEF PathsAreShortest
  <2>1. PICK f : f = frame[g]
    OBVIOUS
  <2>2. PICK scope : scope = ScopeOf(f)
    OBVIOUS
  <2>3. f.from \in Dim /\ scope \in Seq(Bindings)
    BY <2>1, <2>2, Threads DEF ThreadRight, FrameTyped, ScopeOf, ScopesInv
  <2>4. LET path == ContextPath(scope, f.from, f.to)
        IN  IF f.to \notin WithinHops(scope, f.from, Cardinality(Dim))
            THEN path = << >>
            ELSE /\ IsTrail(scope, f.from, path) /\ Last(path) = f.to /\ Len(path) >= 2
                 /\ f.to \notin WithinHops(scope, f.from, Len(path) - 2)
    BY <2>1, <2>3, BindingsMapped, PathIsShortest
  <2> QED  BY <2>1, <2>2, <2>4, Zenon DEF IsTrail
<1> QED  BY <1>1, ScopesInvariant, PTL

-----------------------------------------------------------------------------
(* What is accepted converts *)

Magnitude == Int \cup {Infinite}

\* Errors are not magnitudes.
LEMMA MagnitudesAreNoErrors == \A m \in Magnitude : m \notin Error
BY ScopeAssumption DEF Magnitude

\* Some of the first numbers have a last one.
LEMMA NumbersHaveLast ==
  \A n \in Nat : \A S \in SUBSET (1..n) : S # {} => \E i \in S : \A j \in S : j <= i
<1> DEFINE HaveLast(n) == \A S \in SUBSET (1..n) : S # {} => \E i \in S : \A j \in S : j <= i
           Good == {n \in Nat : HaveLast(n)}
<1>1. 0 \in Good
  <2>1. 1..0 = {}
    OBVIOUS
  <2>2. HaveLast(0)
    BY <2>1
  <2> HIDE DEF HaveLast
  <2> QED  BY <2>2
<1>2. ASSUME NEW n \in Nat, n \in Good PROVE n + 1 \in Good
  <2>1. ASSUME NEW S \in SUBSET (1..(n + 1)), S # {}
        PROVE  \E i \in S : \A j \in S : j <= i
    <3>1. CASE n + 1 \in S
      <4>1. \A j \in S : j <= n + 1
        OBVIOUS
      <4> QED  BY <3>1, <4>1
    <3>2. CASE n + 1 \notin S
      <4>1. S \in SUBSET (1..n)
        <5>1. \A j \in 1..(n + 1) : j # n + 1 => j \in 1..n
          OBVIOUS
        <5> QED  BY <3>2, <5>1
      <4> QED  BY <1>2, <2>1, <4>1
    <3> QED  BY <3>1, <3>2
  <2>2. HaveLast(n + 1)
    BY <2>1
  <2> HIDE DEF HaveLast
  <2> QED  BY <2>2
<1>3. \A n \in Nat : n \in Good
  <2> HIDE DEF Good
  <2> QED  BY <1>1, <1>2, SetInduction
<1> QED  BY <1>3

\* The last of some transforms is one of them.
LEMMA LatestMatches ==
  ASSUME NEW scope \in Seq(Bindings), NEW src, NEW dst, Matching(scope, src, dst) # {}
  PROVE  Transforms(scope)[Latest(Matching(scope, src, dst))] \in ToSet(Transforms(scope))
<1>1. PICK T : T = Transforms(scope)
  OBVIOUS
<1>2. PICK S : S = Matching(scope, src, dst)
  OBVIOUS
<1>3. Len(T) \in Nat /\ DOMAIN T = 1..Len(T)
  BY <1>1, BindingsMapped DEF Mapped
<1>4. S \subseteq 1..Len(T) /\ S # {}
  BY <1>1, <1>2, <1>3 DEF Matching
<1>5. \E i \in S : \A j \in S : j <= i
  BY <1>3, <1>4, NumbersHaveLast
<1>6. Latest(S) \in S
  BY <1>5 DEF Latest
<1>7. T[Latest(S)] \in ToSet(T)
  BY <1>3, <1>4, <1>6 DEF ToSet
<1> QED  BY <1>1, <1>2, <1>7

\* Two quantities that go the same way: alike in dimension, or both refused.
Alike(p, q, d) ==
  /\ p.mag \in Magnitude \cup Error /\ q.mag \in Magnitude \cup Error
  /\ p.mag \in Error <=> q.mag \in Error
  /\ p.mag \notin Error => /\ p.dim = d /\ q.dim = d
                           /\ p = [mag |-> p.mag, dim |-> d] /\ q = [mag |-> q.mag, dim |-> d]

\* A hop takes two quantities that go the same way the same way.
LEMMA HopsAlike ==
  ASSUME EquationsKeepDimension, NEW scope \in Seq(Bindings), NEW src \in Dim, NEW dst \in Dim,
         NEW p, NEW q, Alike(p, q, src), p.mag \notin Error
  PROVE  Alike(ApplyHop(p, src, dst, scope), ApplyHop(q, src, dst, scope), dst)
<1>1. CASE Matching(scope, src, dst) = {}
  <2>1. /\ ApplyHop(p, src, dst, scope) = [mag |-> NoTransform, dim |-> p.dim]
        /\ ApplyHop(q, src, dst, scope) = [mag |-> NoTransform, dim |-> q.dim]
    BY <1>1 DEF ApplyHop
  <2> QED  BY <2>1 DEF Alike, Error
<1>2. CASE Matching(scope, src, dst) # {}
  <2>1. PICK tr \in ToSet(Transforms(scope)) :
          tr = Transforms(scope)[Latest(Matching(scope, src, dst))]
    BY <1>2, LatestMatches
  <2>2. /\ p.mag \in Magnitude /\ q.mag \in Magnitude
        /\ p = [mag |-> p.mag, dim |-> src] /\ q = [mag |-> q.mag, dim |-> src]
    BY DEF Alike
  <2>3. PICK x : x = Eval(tr.eq, Values(scope), p)
    OBVIOUS
  <2>4. PICK y : y = Eval(tr.eq, Values(scope), q)
    OBVIOUS
  <2>5. /\ x = Eval(tr.eq, Values(scope), [mag |-> p.mag, dim |-> src])
        /\ y = Eval(tr.eq, Values(scope), [mag |-> q.mag, dim |-> src])
    BY <2>2, <2>3, <2>4
  <2>6. \A d \in Dim : \A m, n \in Magnitude :
          LET made(v) == Eval(tr.eq, Values(scope), [mag |-> v, dim |-> d])
          IN  /\ made(m) \in [mag : Int \cup {Infinite} \cup Error, dim : {made(n).dim}]
              /\ made(m).mag \in Error => made(n).mag \in Error
    BY DEF EquationsKeepDimension, KeepsDimension, Magnitude
  <2>7. /\ x \in [mag : Magnitude \cup Error, dim : {y.dim}]
        /\ y \in [mag : Magnitude \cup Error, dim : {x.dim}]
        /\ x.mag \in Error <=> y.mag \in Error
    BY <2>2, <2>5, <2>6 DEF Magnitude
  <2>8. /\ ApplyHop(p, src, dst, scope) = IF x.dim # dst THEN [mag |-> Mismatch, dim |-> x.dim] ELSE x
        /\ ApplyHop(q, src, dst, scope) = IF y.dim # dst THEN [mag |-> Mismatch, dim |-> y.dim] ELSE y
    BY <1>2, <2>1, <2>3, <2>4 DEF ApplyHop
  <2>9. Mismatch \in Error
    BY DEF Error
  <2> QED  BY <2>7, <2>8, <2>9 DEF Alike
<1> QED  BY <1>1, <1>2

\* Two magnitudes convert the same way: both, or neither.
LEMMA DirectAlike ==
  ASSUME EquationsKeepDimension, NEW scope \in Seq(Bindings), NEW from \in Dim, NEW to \in Dim,
         NEW v \in Int, NEW w \in Int, from # to
  PROVE  /\ Direct(scope, from, to, v) \in Magnitude \cup Error
         /\ Direct(scope, from, to, v) \in Error <=> Direct(scope, from, to, w) \in Error
<1>1. PICK path : path = ContextPath(scope, from, to)
  OBVIOUS
<1>2. CASE path = << >>
  BY <1>1, <1>2 DEF Direct, Error
<1>3. CASE path # << >>
  <2>1. path \in Seq(Dim) /\ path[1] = from /\ Len(path) \in Nat /\ Len(path) >= 2
    BY <1>1, <1>3, PathsLead DEF IsTrail
  <2>2. PICK m \in Nat : m = Len(path) - 1
    BY <2>1
  <2>3. PICK a : a = Walked(scope, path, [mag |-> v, dim |-> from])
    OBVIOUS
  <2>4. PICK b : b = Walked(scope, path, [mag |-> w, dim |-> from])
    OBVIOUS
  <2>5. /\ Walks(scope, path, [mag |-> v, dim |-> from], m, a)
        /\ Walks(scope, path, [mag |-> w, dim |-> from], m, b)
    BY <2>2, <2>3, <2>4, WalkTurns
  <2> DEFINE Good == {i \in Nat : i <= m => Alike(a[i], b[i], path[i + 1])}
  <2>6. 0 \in Good
    <3>1. v \in Magnitude /\ w \in Magnitude /\ v \notin Error /\ w \notin Error
      BY MagnitudesAreNoErrors DEF Magnitude
    <3>2. Alike([mag |-> v, dim |-> from], [mag |-> w, dim |-> from], path[0 + 1])
      BY <2>1, <3>1 DEF Alike
    <3> QED  BY <2>5, <3>2 DEF Walks
  <2>7. ASSUME NEW i \in Nat, i \in Good PROVE i + 1 \in Good
    <3> SUFFICES ASSUME i + 1 <= m PROVE Alike(a[i + 1], b[i + 1], path[(i + 1) + 1])
      OBVIOUS
    <3>1. Alike(a[i], b[i], path[i + 1])
      BY <2>7
    <3>2. i + 1 \in 1..m /\ (i + 1) - 1 = i
      OBVIOUS
    <3>3. /\ a[i + 1] = IF a[i].mag \in Error THEN a[i]
                        ELSE ApplyHop(a[i], path[i + 1], path[(i + 1) + 1], scope)
          /\ b[i + 1] = IF b[i].mag \in Error THEN b[i]
                        ELSE ApplyHop(b[i], path[i + 1], path[(i + 1) + 1], scope)
      BY <2>5, <3>2, Zenon DEF Walks
    <3>4. path[i + 1] \in Dim /\ path[(i + 1) + 1] \in Dim
      BY <2>1, <2>2, <3>2
    <3>5. CASE a[i].mag \in Error
      BY <3>1, <3>3, <3>5 DEF Alike
    <3>6. CASE a[i].mag \notin Error
      <4>1. b[i].mag \notin Error
        BY <3>1, <3>6 DEF Alike
      <4> QED  BY <3>1, <3>3, <3>4, <3>6, <4>1, HopsAlike
    <3> QED  BY <3>5, <3>6
  <2>8. m \in Good
    <3> HIDE DEF Good
    <3> QED  BY <2>6, <2>7, SetInduction
  <2>9. Alike(a[m], b[m], path[m + 1])
    BY <2>8
  <2>10. /\ Direct(scope, from, to, v) = a[m].mag
         /\ Direct(scope, from, to, w) = b[m].mag
    BY <1>1, <1>3, <2>2, <2>3, <2>4, Zenon DEF Direct
  <2> QED  BY <2>9, <2>10 DEF Alike
<1> QED  BY <1>2, <1>3

\* What Converter accepted is not refused at 1.
OpAccepted(op) == op.from # op.to => Direct(op.scope, op.from, op.to, 1) \notin Refused
FrameAccepted(f) ==
  /\ f.kind = "compile" /\ f.round = "zero" => f.y1 \notin Refused
  /\ f.kind = "run" => /\ f.v \in Int
                       /\ f.from # f.to => Direct(f.intent, f.from, f.to, 1) \notin Refused
AcceptedInv ==
  \A g \in Goroutine :
    /\ ops[g] # None => OpAccepted(ops[g])
    /\ FrameAccepted(frame[g])

\* One goroutine goes on with a frame that was accepted, and may keep an operation that was.
LEMMA AcceptedStep ==
  ASSUME ScopesInv, AcceptedInv, NEW g \in Goroutine, NEW l, NEW f, Goto(g, l, f), FrameAccepted(f),
         \/ UNCHANGED ops
         \/ \E op : ops' = [ops EXCEPT ![g] = op] /\ (op # None => OpAccepted(op))
  PROVE  AcceptedInv'
<1>1. ASSUME NEW h \in Goroutine
      PROVE  FrameAccepted(frame'[h]) /\ (ops'[h] # None => OpAccepted(ops'[h]))
  <2>1. DOMAIN frame = Goroutine /\ DOMAIN ops = Goroutine
    BY DEF ScopesInv
  <2>2. frame'[h] = IF h = g THEN f ELSE frame[h]
    BY <2>1 DEF Goto
  <2>3. FrameAccepted(frame[h]) /\ (ops[h] # None => OpAccepted(ops[h]))
    BY DEF AcceptedInv
  <2>4. ops'[h] # None => OpAccepted(ops'[h])
    BY <2>1, <2>3
  <2> QED  BY <2>2, <2>3, <2>4
<1> QED  BY <1>1 DEF AcceptedInv, FrameAccepted, OpAccepted

\* An answer changes nothing else of a frame.
LEMMA AcceptedAnswer ==
  ASSUME ScopesInv, AcceptedInv, NEW g \in Goroutine, NEW f, NEW x, FrameTyped(f),
         FrameAccepted(f), Answer(g, f, x),
         \/ UNCHANGED ops
         \/ \E op : ops' = [ops EXCEPT ![g] = op] /\ (op # None => OpAccepted(op))
  PROVE  AcceptedInv'
<1> DEFINE next == [f EXCEPT !.ans = x]
<1>1. Goto(g, "return", next)
  BY DEF Answer
<1>2. FrameAccepted(next)
  BY FrameChanges DEF FrameAccepted, FrameFields
<1> HIDE DEF next
<1> QED  BY <1>1, <1>2, AcceptedStep

\* The result at 1 is kept when it is finite, and then Converter accepts.
LEMMA AcceptedFinished ==
  ASSUME ScopesInv, AcceptedInv, NEW g \in Goroutine, NEW f, FrameTyped(f), SearchRight(f),
         FrameAccepted(f), NEW x, Finished(g, f, x)
  PROVE  AcceptedInv'
<1>1. CASE f.kind \in {"run", "live"}
  <2>1. Answer(g, f, x) /\ UNCHANGED ops
    BY <1>1 DEF Finished
  <2> QED  BY <2>1, AcceptedAnswer
<1>2. CASE f.kind = "compile" /\ f.round = "one"
  <2>1. UNCHANGED ops
    BY <1>2 DEF Finished
  <2>2. CASE x \in Error
    <3>1. Answer(g, f, x)
      BY <1>2, <2>2 DEF Finished
    <3> QED  BY <2>1, <3>1, AcceptedAnswer
  <2>3. CASE x \notin Error /\ x = Infinite
    <3>1. Answer(g, f, NonFinite)
      BY <1>2, <2>3 DEF Finished
    <3> QED  BY <2>1, <3>1, AcceptedAnswer
  <2>4. CASE x \notin Error /\ x # Infinite
    <3> DEFINE next == [StartRound(f, "zero", 0) EXCEPT !.y1 = x]
    <3>1. Goto(g, "search", next)
      BY <1>2, <2>4 DEF Finished
    <3>2. next.kind = "compile" /\ next.y1 = x
      BY <1>2 DEF StartRound, FrameTyped, FrameFields
    <3> HIDE DEF next
    <3>3. FrameAccepted(next)
      BY <2>4, <3>2 DEF FrameAccepted, Refused
    <3> QED  BY <2>1, <3>1, <3>3, AcceptedStep
  <2> QED  BY <2>2, <2>3, <2>4
<1>3. CASE f.kind = "compile" /\ f.round # "one"
  <2> DEFINE op == IF x \in Error \cup {Infinite} THEN Operation(f, FALSE, 0, 0)
                   ELSE Operation(f, TRUE, f.y1 - x, x)
  <2>1. ops' = [ops EXCEPT ![g] = op] /\ Answer(g, f, None)
    BY <1>3 DEF Finished
  <2>2. f.y1 = Direct(f.scope, f.from, f.to, 1) /\ f.y1 \notin Refused
    BY <1>3 DEF SearchRight, FrameAccepted
  <2>3. OpAccepted(op)
    BY <2>2 DEF OpAccepted, Operation
  <2> HIDE DEF op
  <2> QED  BY <2>1, <2>3, AcceptedAnswer
<1> QED  BY <1>1, <1>2, <1>3 DEF SearchRight

\* Nothing is accepted at first, and a new frame has nothing accepted.
LEMMA NewFrameAccepted ==
  ASSUME NEW kind \in {"none", "compile", "live"}, NEW from, NEW to
  PROVE  FrameAccepted(NewFrame(kind, from, to))
BY DEF FrameAccepted, NewFrame

\* Every step accepts nothing that is refused at 1: one case for each action.
LEMMA AcceptedNext == ScopesInv /\ AcceptedInv /\ [Next]_vars => AcceptedInv'
<1> SUFFICES ASSUME ScopesInv, AcceptedInv, [Next]_vars PROVE AcceptedInv'
  OBVIOUS
<1>1. CASE UNCHANGED <<ops, frame>>
  BY <1>1 DEF AcceptedInv, OpAccepted, FrameAccepted
<1>2. ASSUME NEW g \in Goroutine
      PROVE  /\ ThreadRight(pc[g], frame[g]) /\ (ops[g] # None => OpRight(ops[g]))
             /\ FrameAccepted(frame[g]) /\ (ops[g] # None => OpAccepted(ops[g]))
  BY <1>2, Threads DEF AcceptedInv
<1>3. ASSUME NEW g \in Goroutine, NEW from \in Dim, NEW to \in Dim,
             NEW want \in Scope \cup {None}, BeginConverter(g, from, to, want)
      PROVE  AcceptedInv'
  <2> DEFINE f == [NewFrame("compile", from, to) EXCEPT !.want = want]
  <2>1. Goto(g, "bind", f) /\ ops' = [ops EXCEPT ![g] = None]
    BY <1>3 DEF BeginConverter
  <2>2. FrameAccepted(f)
    BY DEF FrameAccepted, NewFrame
  <2> HIDE DEF f
  <2> QED  BY <2>1, <2>2, AcceptedStep
<1>4. ASSUME NEW g \in Goroutine, NEW from \in Dim, NEW to \in Dim, NEW v \in Value,
             BeginLive(g, from, to, v)
      PROVE  AcceptedInv'
  <2> DEFINE f == [NewFrame("live", from, to) EXCEPT !.q.mag = v, !.v = v]
  <2>1. Goto(g, "search", f) /\ UNCHANGED ops
    BY <1>4 DEF BeginLive
  <2>2. FrameAccepted(f)
    BY DEF FrameAccepted, NewFrame
  <2> HIDE DEF f
  <2> QED  BY <2>1, <2>2, AcceptedStep
<1>5. ASSUME NEW g \in Goroutine, NEW v \in Value, BeginRun(g, v) PROVE AcceptedInv'
  <2>1. PICK op : op = ops[g]
    OBVIOUS
  <2> DEFINE f == [NewFrame("run", op.from, op.to) EXCEPT
                     !.scope = op.scope, !.intent = op.intent, !.q.mag = v, !.v = v]
  <2>2. OpRight(op) /\ OpAccepted(op) /\ UNCHANGED ops
    BY <1>2, <1>5, <2>1 DEF BeginRun
  <2>3. IF op.simple THEN Answer(g, f, op.scale * v + op.offset) ELSE Goto(g, "search", f)
    BY <1>5, <2>1 DEF BeginRun
  <2>4. /\ f.kind = "run" /\ f.v = v /\ f.from = op.from /\ f.to = op.to /\ f.intent = op.intent
        /\ FrameTyped(f)
    <3>1. FrameTyped(NewFrame("run", op.from, op.to))
      BY <2>2, NewFrameTyped DEF OpRight
    <3> QED  BY <2>2, <3>1 DEF OpRight, FrameTyped, FrameFields, NewFrame
  <2> HIDE DEF f
  <2>5. FrameAccepted(f)
    BY <2>2, <2>4, ScopeAssumption DEF FrameAccepted, OpAccepted, OpRight
  <2> QED  BY <2>2, <2>3, <2>4, <2>5, AcceptedAnswer, AcceptedStep
<1>6. ASSUME NEW g \in Goroutine, BindActive(g) PROVE AcceptedInv'
  <2>1. PICK f : f = frame[g]
    OBVIOUS
  <2>2. FrameTyped(f) /\ f.kind = "compile" /\ FrameAccepted(f) /\ UNCHANGED ops
    BY <1>2, <1>6, <2>1 DEF ThreadRight, BindRight, BindActive
  <2> DEFINE next == [f EXCEPT !.scope = active, !.intent = active]
  <2>3. Goto(g, "compile", next)
    BY <1>6, <2>1 DEF BindActive
  <2>4. FrameAccepted(next)
    BY <2>2 DEF FrameAccepted, FrameTyped, FrameFields
  <2> HIDE DEF next
  <2> QED  BY <2>2, <2>3, <2>4, AcceptedStep
<1>7. ASSUME NEW g \in Goroutine, BindScope(g) PROVE AcceptedInv'
  <2>1. PICK f : f = frame[g]
    OBVIOUS
  <2>2. FrameTyped(f) /\ f.kind = "compile" /\ FrameAccepted(f) /\ UNCHANGED ops
    BY <1>2, <1>7, <2>1 DEF ThreadRight, BindRight, BindScope
  <2>3. PICK use : use = f.want[Len(f.scope) + 1]
    OBVIOUS
  <2>4. \/ Answer(g, f, Unknown)
        \/ \E x : Goto(g, "compile", [f EXCEPT !.intent = x])
        \/ \E x : Goto(g, "bind", [f EXCEPT !.scope = x])
    BY <1>7, <2>1, <2>3 DEF BindScope
  <2>5. \A x : FrameAccepted([f EXCEPT !.intent = x]) /\ FrameAccepted([f EXCEPT !.scope = x])
    BY <2>2 DEF FrameAccepted, FrameTyped, FrameFields
  <2> QED  BY <2>2, <2>4, <2>5, AcceptedAnswer, AcceptedStep
<1>8. ASSUME NEW g \in Goroutine, Compile(g) PROVE AcceptedInv'
  <2>1. PICK f : f = frame[g]
    OBVIOUS
  <2>2. FrameTyped(f) /\ f.kind = "compile" /\ FrameAccepted(f)
    BY <1>2, <1>8, <2>1 DEF ThreadRight, Compile
  <2>3. CASE f.from = f.to
    <3>1. ops' = [ops EXCEPT ![g] = Operation(f, TRUE, 1, 0)] /\ Answer(g, f, None)
      BY <1>8, <2>1, <2>3 DEF Compile
    <3>2. OpAccepted(Operation(f, TRUE, 1, 0))
      BY <2>3 DEF OpAccepted, Operation
    <3> QED  BY <2>2, <3>1, <3>2, AcceptedAnswer
  <2>4. CASE f.from # f.to
    <3> DEFINE next == StartRound(f, "one", 1)
    <3>1. UNCHANGED ops /\ (Answer(g, f, Mismatch) \/ Goto(g, "search", next))
      BY <1>8, <2>1, <2>4 DEF Compile
    <3>2. FrameAccepted(next)
      BY <2>2 DEF FrameAccepted, StartRound, FrameTyped, FrameFields
    <3> HIDE DEF next
    <3> QED  BY <2>2, <3>1, <3>2, AcceptedAnswer, AcceptedStep
  <2> QED  BY <2>3, <2>4
<1>9. ASSUME NEW g \in Goroutine, Search(g) PROVE AcceptedInv'
  <2>1. PICK f : f = frame[g]
    OBVIOUS
  <2>2. FrameTyped(f) /\ SearchRight(f) /\ FrameAccepted(f)
    BY <1>2, <1>9, <2>1 DEF ThreadRight, Search
  <2>3. \/ \E x : Finished(g, f, x)
        \/ UNCHANGED ops /\ \E x : Goto(g, "hop", [f EXCEPT !.path = x])
    BY <1>9, <2>1 DEF Search
  <2>4. \A x : FrameAccepted([f EXCEPT !.path = x])
    BY <2>2 DEF FrameAccepted, FrameTyped, FrameFields
  <2> QED  BY <2>2, <2>3, <2>4, AcceptedFinished, AcceptedStep
<1>10. ASSUME NEW g \in Goroutine, Hop(g) PROVE AcceptedInv'
  <2>1. PICK f : f = frame[g]
    OBVIOUS
  <2>2. FrameTyped(f) /\ SearchRight(f) /\ FrameAccepted(f)
    BY <1>2, <1>10, <2>1 DEF ThreadRight, Hop
  <2>3. \/ \E x : Finished(g, f, x)
        \/ UNCHANGED ops /\ \E x : Goto(g, "hop", [f EXCEPT !.q = x, !.path = Tail(@)])
    BY <1>10, <2>1 DEF Hop
  <2>4. \A x : FrameAccepted([f EXCEPT !.q = x, !.path = Tail(@)])
    BY <2>2 DEF FrameAccepted, FrameTyped, FrameFields
  <2> QED  BY <2>2, <2>3, <2>4, AcceptedFinished, AcceptedStep
<1>11. ASSUME NEW g \in Goroutine, Arrive(g) PROVE AcceptedInv'
  <2>1. PICK f : f = frame[g]
    OBVIOUS
  <2>2. FrameTyped(f) /\ SearchRight(f) /\ FrameAccepted(f) /\ Finished(g, f, f.q.mag)
    BY <1>2, <1>11, <2>1 DEF ThreadRight, Arrive
  <2> QED  BY <2>2, AcceptedFinished
<1>12. ASSUME NEW g \in Goroutine, Return(g) PROVE AcceptedInv'
  <2>1. Goto(g, "idle", Rest) /\ UNCHANGED ops
    BY <1>12 DEF Return
  <2>2. FrameAccepted(Rest)
    BY NewFrameAccepted DEF Rest
  <2> QED  BY <2>1, <2>2, AcceptedStep
<1>13. ASSUME Change \/ \E c \in Catalog : Load(c) PROVE AcceptedInv'
  BY <1>1, <1>13 DEF Change, EnableContext, DisableContext, Load
<1>14. CASE UNCHANGED vars
  BY <1>1, <1>14 DEF vars
<1> QED  BY <1>3, <1>4, <1>5, <1>6, <1>7, <1>8, <1>9, <1>10, <1>11, <1>12, <1>13, <1>14
         DEF Next, Begin, Step

\* Converter: a pair that is accepted converts every value, as far as equations keep their
\* dimension.
THEOREM AcceptedAlwaysConverts ==
  ASSUME EquationsKeepDimension
  PROVE  Spec => []AcceptedConverts
<1>1. Init => AcceptedInv
  <2>1. FrameAccepted(Rest)
    BY NewFrameAccepted DEF Rest
  <2> QED  BY <2>1 DEF Init, AcceptedInv
<1>2. Spec => [](ScopesInv /\ AcceptedInv)
  BY <1>1, ScopesInit, ScopesNext, AcceptedNext, PTL DEF Spec
<1>3. ScopesInv /\ AcceptedInv => AcceptedConverts
  <2> SUFFICES ASSUME ScopesInv, AcceptedInv, NEW g \in Goroutine, pc[g] = "return",
                      frame[g].kind = "run"
               PROVE  frame[g].ans \notin Error
    BY DEF AcceptedConverts
  <2>1. PICK f : f = frame[g]
    OBVIOUS
  <2>2. FrameTyped(f) /\ f.ans = Sampled(f.intent, f.from, f.to, f.v) /\ f.kind = "run"
    BY <2>1, Threads DEF ThreadRight, ReturnRight
  <2>3. FrameAccepted(f)
    BY <2>1 DEF AcceptedInv
  <2>4. f.v \in Int /\ f.intent \in Seq(Bindings) /\ f.from \in Dim /\ f.to \in Dim
    BY <2>2, <2>3 DEF FrameAccepted, FrameTyped
  <2>5. PICK y : y = [v \in Int |-> Direct(f.intent, f.from, f.to, v)]
    OBVIOUS
  <2>6. CASE f.from = f.to
    <3>1. f.ans = f.v
      BY <2>2, <2>6 DEF Sampled
    <3> QED  BY <2>1, <2>4, <3>1, ScopeAssumption
  <2>7. CASE f.from # f.to
    <3>1. y[1] \notin Refused
      BY <2>2, <2>3, <2>5, <2>7 DEF FrameAccepted
    <3>2. \A v, w \in Int : y[v] \in Magnitude \cup Error /\ (y[v] \in Error <=> y[w] \in Error)
      BY <2>4, <2>5, <2>7, DirectAlike
    <3>3. f.ans = IF y[0] \in Error \cup {Infinite} THEN y[f.v] ELSE (y[1] - y[0]) * f.v + y[0]
      BY <2>2, <2>4, <2>5, <2>7 DEF Sampled
    <3>4. y[f.v] \notin Error
      BY <2>4, <3>1, <3>2 DEF Refused
    <3>5. y[0] \notin Error \cup {Infinite} => y[0] \in Int /\ y[1] \in Int
      BY <3>1, <3>2 DEF Magnitude, Refused
    <3>6. y[0] \notin Error \cup {Infinite} => f.ans \in Int
      BY <2>4, <3>3, <3>5
    <3>7. f.ans \notin Error
      BY <3>3, <3>4, <3>6, ScopeAssumption
    <3> QED  BY <2>1, <3>7
  <2> QED  BY <2>6, <2>7
<1> QED  BY <1>2, <1>3, PTL

=============================================================================
