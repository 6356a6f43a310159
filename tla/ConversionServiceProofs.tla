----------------------- MODULE ConversionServiceProofs -----------------------
(***************************************************************************)
(* ConversionCaches under the stronger contract (WarmSpec): no goroutine   *)
(* races with another, every answer is the one of the catalog, and the     *)
(* caches, walks and locks implement ConversionService.                    *)
(*                                                                         *)
(* The argument.  A call that was answered once leaves in the caches all    *)
(* that it will ask for again (Known), so a warm call never walks and only *)
(* reads the maps; a cold call and a Load run alone.                       *)
(***************************************************************************)
EXTENDS ConversionCachesProofs

Walk == {"look", "put1", "put2", "read"}
Keys(s) == {s[i] : i \in DOMAIN s}
DimIs(u) == DimOf[defs][u][{}]
Plain(u, v) == u \notin OffsetOf[defs] /\ v \notin OffsetOf[defs]

\* What a call finds when it looks for it again.
DimKnown(u) == u = Empty \/ dimCache[u] # Absent
FactorKnown(u, v) == convCache[<<u, v>>] # Absent
OperandKnown(e) ==
  \/ parseCache[e] # Absent
  \/ ParseOf[defs][e] = Undefined /\ Keys(InternsOf[defs][e]) \subseteq byName

\* convertIn gives up before it compares dimensions.
Rejected(op, u, v) == \/ op = "converter" /\ {u, v} \cap LogOf[defs] # {}
                      \/ {u, v} \cap InvalidOf[defs] # {}
PairKnown(op, u, v) ==
  IF Plain(u, v)
  THEN FactorKnown(u, v) \/ (DimIs(u) # DimIs(v) /\ DimKnown(u) /\ DimKnown(v))
  ELSE \/ Rejected(op, u, v)
       \/ /\ DimKnown(u) /\ DimKnown(v)
          /\ \/ DimIs(u) # DimIs(v) \/ <<u, v>> \in DeltaMixOf[defs]
             \/ FactorKnown(RefOf[defs][u], RefOf[defs][v])

Known(q) ==
  LET u == ParseOf[defs][q.from]
      v == ParseOf[defs][q.to]
  IN  /\ OperandKnown(q.from)
      /\ u # Undefined /\ q.op = "dimensionality" => DimKnown(u)
      /\ u # Undefined /\ q.op # "dimensionality" =>
           /\ OperandKnown(q.to)
           /\ v # Undefined /\ u # v => PairKnown(q.op, u, v)

-----------------------------------------------------------------------------
(* Where a call is, and what its registers hold there *)

Parsing(l, f) == l = "parse" \/ (l \in Walk /\ f.kind = "parse")
Measuring(l, f) == l \in {"dcheck", "dread", "dwrite", "dstore"}
                   \/ (l \in Walk /\ f.kind = "dim")
Rooting(l, f) == l \in {"rcheck", "rstore", "fstore"} \/ (l \in Walk /\ f.kind = "root")
Converting(l, f) == \/ l \in {"mult", "check", "compare", "fcheck"}
                    \/ Rooting(l, f)
                    \/ Measuring(l, f) /\ f.phase # "answer"

SrcParsed(f) == /\ f.req.op # "dimensionality" /\ OperandKnown(f.req.from)
                /\ f.src = ParseOf[defs][f.req.from]
DstParsed(f) == /\ OperandKnown(f.req.to) /\ f.dst = ParseOf[defs][f.req.to]
                /\ f.src # f.dst

\* The two containers whose dimensions are compared.
Left(f) == IF f.phase = "factor" THEN f.a ELSE f.src
Right(f) == IF f.phase = "factor" THEN f.b ELSE f.dst

AffinePair(f) == ~Mult(f) /\ ~Rejected(f.req.op, f.src, f.dst)
FactorPair(f) ==
  IF Mult(f) THEN f.a = f.src /\ f.b = f.dst
  ELSE /\ ~Rejected(f.req.op, f.src, f.dst)
       /\ f.a = RefOf[defs][f.src] /\ f.b = RefOf[defs][f.dst]
       /\ DimIs(f.src) = DimIs(f.dst) /\ DimKnown(f.src) /\ DimKnown(f.dst)
       /\ <<f.src, f.dst>> \notin DeltaMixOf[defs]
PhasePair(f) ==
  CASE f.phase = "factor" -> FactorPair(f)
    [] f.phase = "path" -> /\ Mult(f) /\ DimIs(f.src) # DimIs(f.dst)
                           /\ DimKnown(f.src) /\ DimKnown(f.dst)
    [] f.phase = "affine" -> AffinePair(f)
    [] OTHER -> FALSE

\* A walk finds every name it looks for.
WalkPart(l, f) == f.skipped = {} /\ (l = "read" => Head(f.todo) \in byName)

ParsePart(l, f) ==
  Parsing(l, f) =>
    /\ f.side = "dst" => SrcParsed(f) /\ f.a = f.src
    /\ l # "parse" => Keys(InternsOf[defs][Operand(f)]) \subseteq byName \cup Keys(f.todo)

AnswerPart(l, f) ==
  Measuring(l, f) /\ f.phase = "answer" =>
    /\ f.req.op = "dimensionality" /\ OperandKnown(f.req.from)
    /\ f.arg = ParseOf[defs][f.req.from]

PairPart(l, f) ==
  Converting(l, f) =>
    /\ SrcParsed(f) /\ DstParsed(f)
    /\ l = "mult" => f.a = f.src /\ f.b = f.dst
    /\ l = "check" => ~Mult(f) /\ ~(f.req.op = "converter" /\ Logarithmic(f))
    /\ l = "fcheck" => FactorPair(f)
    /\ Rooting(l, f) => FactorPair(f) /\ DimIs(f.a) = DimIs(f.b)

DimPart(l, f) ==
  /\ l \in {"dwrite", "dstore"} => f.val = DimIs(f.arg)
  /\ l = "compare" => /\ PhasePair(f)
                      /\ f.sd = DimIs(Left(f)) /\ DimKnown(Left(f))
                      /\ f.dd = DimIs(Right(f)) /\ DimKnown(Right(f))
  /\ Measuring(l, f) /\ f.phase # "answer" =>
       /\ PhasePair(f)
       /\ f.side = "src" => f.arg = Left(f)
       /\ f.side = "dst" => /\ f.arg = Right(f)
                            /\ f.sd = DimIs(Left(f)) /\ DimKnown(Left(f))

ReturnPart(l, f) == l = "return" => f.ans = Expected(defs, f.req) /\ Known(f.req)

\* A warm call only looks up what is known.
WarmPart(l, f) ==
  f.req \in warmed =>
    /\ l \in {"parse", "look", "read", "mult", "check", "dcheck", "compare", "fcheck", "return"}
    /\ l \in {"look", "read"} => f.kind = "parse" /\ Keys(f.todo) \subseteq byName
    /\ l = "dcheck" => DimKnown(f.arg)
    /\ l \in {"dcheck", "compare"} /\ f.phase = "factor" => DimIs(f.a) # DimIs(f.b)

CallOK(l, f) == /\ ParsePart(l, f) /\ AnswerPart(l, f) /\ PairPart(l, f)
                /\ DimPart(l, f) /\ ReturnPart(l, f) /\ WarmPart(l, f)

-----------------------------------------------------------------------------
(* The inductive invariant *)

\* Two calls in flight are both warm.
Exclusive == \A g, h \in Goroutine :
               g # h /\ pc[g] # "idle" /\ pc[h] # "idle" => frame[g].req \in warmed

\* A unit is interned in both maps, but for the one being interned.
Interned == /\ byName \subseteq units
            /\ \A n \in units \ byName : \E g \in Goroutine : pc[g] = "put2" /\ Key(g) = n
            /\ \A g \in Goroutine : pc[g] = "put2" => Key(g) \in units

StaleInv == /\ stale => warmed = {}
            /\ stale => \A g \in Goroutine : pc[g] # "idle" => frame[g].req = LoadRequest
            /\ \A g \in Goroutine :
                 frame[g].req = LoadRequest => pc[g] \in {"idle", "load"} \/ stale

KnownInv ==
  ~stale => /\ \A u \in Container : dimCache[u] \in {Absent, DimIs(u)}
            /\ \A u, v \in Container : FactorKnown(u, v) => DimIs(u) = DimIs(v)
            /\ \A q \in warmed : Known(q)

CallsInv ==
  \A g \in Goroutine : pc[g] # "idle" =>
    /\ WalkPart(pc[g], frame[g])
    /\ frame[g].req \in Request => CallOK(pc[g], frame[g])

WarmInv == ~crashed /\ Exclusive /\ Interned /\ StaleInv /\ KnownInv /\ CallsInv

-----------------------------------------------------------------------------
(* Knowledge grows until the next Load *)

Grows == /\ defs' = defs /\ byName \subseteq byName'
         /\ \A e \in Expr : parseCache[e] # Absent => parseCache'[e] # Absent
         /\ \A u \in Container : dimCache[u] # Absent => dimCache'[u] # Absent
         /\ \A u, v \in Container :
              convCache[<<u, v>>] # Absent => convCache'[<<u, v>>] # Absent

\* An entry found once is found again.
LEMMA EntriesGrow ==
  ASSUME Grows
  PROVE  /\ \A u \in Container : DimKnown(u) => DimKnown(u)'
         /\ \A u, v \in Container : FactorKnown(u, v) => FactorKnown(u, v)'
         /\ \A e \in Expr : OperandKnown(e) => OperandKnown(e)'
BY DEF Grows, DimKnown, FactorKnown, OperandKnown

\* What depends on the catalog alone does not move.
LEMMA CatalogStays ==
  ASSUME Grows
  PROVE  /\ \A u : DimIs(u)' = DimIs(u)
         /\ \A f : Mult(f)' = Mult(f) /\ Logarithmic(f)' = Logarithmic(f)
         /\ \A u, v : Plain(u, v)' = Plain(u, v)
         /\ \A op, u, v : Rejected(op, u, v)' = Rejected(op, u, v)
BY Zenon DEF Grows, DimIs, Mult, Logarithmic, Plain, Rejected

\* What the tables of the catalog in force yield.
LEMMA TableTypes ==
  ASSUME TypeInv
  PROVE  /\ defs \in Catalog
         /\ \A e \in Expr : ParseOf[defs][e] \in Container \cup {Undefined}
         /\ \A u \in Container : RefOf[defs][u] \in Container /\ DimIs(u) \in Dim
         /\ \A u, v \in Container : Ratio[u][v] \in Container
         /\ \A u \in Container : DimIs(RefOf[defs][u]) = DimIs(u)
         /\ Empty \in Container /\ DimIs(Empty) = Dimensionless
         /\ \A q \in Request : q.op \in Ops /\ q.from \in Expr /\ q.to \in Expr
<1>1. defs \in Catalog
  BY DEF TypeInv, TypeOK
<1>2. {} \in SUBSET Name
  OBVIOUS
<1>3. \A u \in Container : DimOf[defs][u][{}] \in Dim
  BY <1>1, <1>2, TableAssumption
<1>4. \A u \in Container : RefOf[defs][u] \in Container
  BY <1>1, TableAssumption
<1>5. \A q \in Request : q.op \in Ops /\ q.from \in Expr /\ q.to \in Expr
  BY TableAssumption
<1>6. \A e \in Expr : ParseOf[defs][e] \in Container \cup {Undefined}
  BY <1>1, TableAssumption
<1>7. \A u, v \in Container : Ratio[u][v] \in Container
  BY TableAssumption
<1>8. /\ Empty \in Container /\ DimIs(Empty) = Dimensionless
      /\ \A u \in Container : DimIs(RefOf[defs][u]) = DimIs(u)
  BY <1>1, TableAssumption, CatalogAssumption DEF DimIs
<1> QED BY <1>1, <1>3, <1>4, <1>5, <1>6, <1>7, <1>8 DEF DimIs

\* A pair that could be answered from the caches still can.
LEMMA PairKnownGrows ==
  ASSUME TypeInv, Grows, NEW op, NEW u \in Container, NEW v \in Container, PairKnown(op, u, v)
  PROVE  PairKnown(op, u, v)'
<1>1. RefOf[defs][u] \in Container /\ RefOf[defs][v] \in Container /\ defs' = defs
  BY TableTypes DEF Grows
<1>2. /\ DimKnown(u) => DimKnown(u)'
      /\ DimKnown(v) => DimKnown(v)'
      /\ FactorKnown(u, v) => FactorKnown(u, v)'
  BY EntriesGrow
<1>3. PICK a, b : a = RefOf[defs][u] /\ b = RefOf[defs][v]
  OBVIOUS
<1>4. FactorKnown(a, b) => FactorKnown(a, b)'
  BY <1>1, <1>3, EntriesGrow
<1>5. /\ DimIs(u)' = DimIs(u) /\ DimIs(v)' = DimIs(v)
      /\ Plain(u, v)' = Plain(u, v) /\ Rejected(op, u, v)' = Rejected(op, u, v)
  BY CatalogStays
<1> QED BY <1>1, <1>2, <1>3, <1>4, <1>5 DEF PairKnown

\* And so can a whole call.
LEMMA KnownGrows ==
  ASSUME TypeInv, Grows, NEW q \in Request, Known(q)
  PROVE  Known(q)'
<1>1. defs' = defs
  BY DEF Grows
<1>2. OperandKnown(q.from)' /\ (OperandKnown(q.to) => OperandKnown(q.to)')
  BY EntriesGrow, TableTypes DEF Known
<1>3. ASSUME NEW u \in Container, DimKnown(u)
      PROVE  DimKnown(u)'
  BY <1>3, EntriesGrow
<1>4. /\ ParseOf[defs][q.from] \in Container \cup {Undefined}
      /\ ParseOf[defs][q.to] \in Container \cup {Undefined}
  BY TableTypes
<1>5. PICK u, v : u = ParseOf[defs][q.from] /\ v = ParseOf[defs][q.to]
  OBVIOUS
<1>6. u # Undefined /\ DimKnown(u) => DimKnown(u)'
  BY <1>3, <1>4, <1>5
<1>7. u # Undefined /\ v # Undefined /\ PairKnown(q.op, u, v) => PairKnown(q.op, u, v)'
  BY <1>4, <1>5, PairKnownGrows
<1> QED BY <1>1, <1>2, <1>5, <1>6, <1>7 DEF Known

-----------------------------------------------------------------------------
(* What holds of a call's registers goes on holding while others learn. *)

\* The operands and the pair of a call stay as they are known.
LEMMA PairGrows ==
  ASSUME TypeInv, Grows, NEW f \in Frame, f.req \in Request
  PROVE  /\ SrcParsed(f) => SrcParsed(f)'
         /\ DstParsed(f) => DstParsed(f)'
         /\ FactorPair(f) => FactorPair(f)'
         /\ PhasePair(f) => PhasePair(f)'
         /\ Left(f) \in Container /\ Right(f) \in Container
<1>1. /\ defs' = defs /\ f.req.from \in Expr /\ f.req.to \in Expr
      /\ f.src \in Container /\ f.dst \in Container /\ f.a \in Container /\ f.b \in Container
  BY FrameFields, TableTypes DEF Grows
<1>2. /\ OperandKnown(f.req.from) => OperandKnown(f.req.from)'
      /\ OperandKnown(f.req.to) => OperandKnown(f.req.to)'
      /\ DimKnown(f.src) => DimKnown(f.src)'
      /\ DimKnown(f.dst) => DimKnown(f.dst)'
  BY <1>1, EntriesGrow
<1>3. /\ Mult(f)' = Mult(f) /\ DimIs(f.src)' = DimIs(f.src) /\ DimIs(f.dst)' = DimIs(f.dst)
      /\ Rejected(f.req.op, f.src, f.dst)' = Rejected(f.req.op, f.src, f.dst)
  BY CatalogStays
<1>4. SrcParsed(f) => SrcParsed(f)'
  BY <1>1, <1>2 DEF SrcParsed
<1>5. DstParsed(f) => DstParsed(f)'
  BY <1>1, <1>2 DEF DstParsed
<1>6. FactorPair(f) => FactorPair(f)'
  BY <1>1, <1>2, <1>3 DEF FactorPair
<1>7. AffinePair(f) => AffinePair(f)'
  BY <1>3 DEF AffinePair
<1>8. PhasePair(f) => PhasePair(f)'
  BY <1>2, <1>3, <1>6, <1>7 DEF PhasePair
<1> QED BY <1>1, <1>4, <1>5, <1>6, <1>8 DEF Left, Right

\* All of CallOK survives the steps of others that add to the caches.
LEMMA CarriedOver ==
  ASSUME TypeInv, Grows, NEW l, NEW f \in Frame, f.req \in Request,
         f.req \in warmed' => f.req \in warmed, CallOK(l, f)
  PROVE  CallOK(l, f)'
<1>1. /\ defs' = defs /\ byName \subseteq byName'
      /\ f.arg \in Container /\ Left(f) \in Container /\ Right(f) \in Container
      /\ f.a \in Container /\ f.b \in Container
  BY FrameFields, PairGrows DEF Grows
<1>2. /\ DimIs(f.arg)' = DimIs(f.arg) /\ DimIs(Left(f))' = DimIs(Left(f))
      /\ DimIs(Right(f))' = DimIs(Right(f))
      /\ DimIs(f.a)' = DimIs(f.a) /\ DimIs(f.b)' = DimIs(f.b)
      /\ Mult(f)' = Mult(f) /\ Logarithmic(f)' = Logarithmic(f)
  BY CatalogStays
<1>3. /\ DimKnown(f.arg) => DimKnown(f.arg)'
      /\ DimKnown(Left(f)) => DimKnown(Left(f))'
      /\ DimKnown(Right(f)) => DimKnown(Right(f))'
  BY <1>1, EntriesGrow
<1>4. ParsePart(l, f)'
  BY <1>1, PairGrows DEF CallOK, ParsePart
<1>5. AnswerPart(l, f)'
  <2>1. OperandKnown(f.req.from) => OperandKnown(f.req.from)'
    BY EntriesGrow, TableTypes
  <2> QED BY <1>1, <2>1 DEF CallOK, AnswerPart
<1>6. PairPart(l, f)'
  BY <1>2, PairGrows DEF CallOK, PairPart
<1>7. DimPart(l, f)'
  BY <1>2, <1>3, PairGrows DEF CallOK, DimPart
<1>8. ReturnPart(l, f)'
  <2>1. Expected(defs, f.req)' = Expected(defs, f.req)
    BY <1>1
  <2>2. Known(f.req) => Known(f.req)'
    BY KnownGrows
  <2> QED BY <2>1, <2>2 DEF CallOK, ReturnPart
<1>9. WarmPart(l, f)'
  BY <1>1, <1>2, <1>3 DEF CallOK, WarmPart
<1> QED BY <1>4, <1>5, <1>6, <1>7, <1>8, <1>9 DEF CallOK

-----------------------------------------------------------------------------
(* What the shared ends of the steps leave behind *)

\* A call that is about to return needs its answer and nothing to look up again.
LEMMA AnswerOK ==
  ASSUME NEW f \in Frame, NEW x, x = Expected(defs, f.req)', Known(f.req)'
  PROVE  CallOK("return", [f EXCEPT !.ans = x])'
<1> DEFINE f1 == [f EXCEPT !.ans = x]
<1>1. f1.req = f.req /\ f1.ans = x
  BY DEF Frame
<1> HIDE DEF f1
<1>2. CallOK("return", f1)'
  BY <1>1 DEF CallOK, ParsePart, AnswerPart, PairPart, DimPart, ReturnPart, WarmPart,
     Parsing, Measuring, Rooting, Converting, Walk
<1> QED BY <1>2 DEF f1

\* After the first operand the second is parsed; after the second their pair is converted.
LEMMA ParsedOK ==
  ASSUME TypeInv, Grows, NEW g \in Goroutine, NEW f \in Frame, f.req \in Request,
         NEW u \in Container, u = ParseOf[defs][Operand(f)], OperandKnown(Operand(f))',
         f.side = "dst" => SrcParsed(f)' /\ f.a = f.src,
         f.req \in warmed' => Known(f.req)', Parsed(g, f, u)
  PROVE  \E l, f1 : Goto(g, l, f1) /\ CallOK(l, f1)'
<1>1. defs' = defs /\ u # Undefined /\ f.side \in {"src", "dst"}
  BY FrameFields, DistinctAssumption DEF Grows
<1>2. CASE f.req.op = "dimensionality"
  <2> DEFINE f1 == [f EXCEPT !.arg = u, !.phase = "answer"]
  <2>1. f1.arg = u /\ f1.phase = "answer" /\ f1.req = f.req
    BY DEF Frame
  <2>2. f.side = "src"
    BY <1>1, <1>2 DEF SrcParsed
  <2>3. u = ParseOf[defs][f.req.from] /\ OperandKnown(f.req.from)'
    BY <2>2 DEF Operand
  <2>4. f.req \in warmed' => DimKnown(u)'
    BY <1>1, <1>2, <2>3 DEF Known
  <2>5. Goto(g, "dcheck", f1)
    BY <1>2 DEF Parsed
  <2> HIDE DEF f1
  <2>6. CallOK("dcheck", f1)'
    BY <1>1, <1>2, <2>1, <2>3, <2>4
    DEF CallOK, ParsePart, AnswerPart, PairPart, DimPart, ReturnPart, WarmPart,
        Parsing, Measuring, Rooting, Converting, Walk
  <2> QED BY <2>5, <2>6
<1>3. CASE f.req.op # "dimensionality" /\ f.side = "src"
  <2> DEFINE f1 == [f EXCEPT !.src = u, !.a = u, !.side = "dst"]
  <2>1. f1.src = u /\ f1.a = u /\ f1.side = "dst" /\ f1.req = f.req
    BY DEF Frame
  <2>2. u = ParseOf[defs][f.req.from] /\ OperandKnown(f.req.from)'
    BY <1>3 DEF Operand
  <2>3. Goto(g, "parse", f1)
    BY <1>3 DEF Parsed
  <2> HIDE DEF f1
  <2>4. SrcParsed(f1)'
    BY <1>1, <1>3, <2>1, <2>2 DEF SrcParsed
  <2>5. CallOK("parse", f1)'
    BY <2>1, <2>4
    DEF CallOK, ParsePart, AnswerPart, PairPart, DimPart, ReturnPart, WarmPart,
        Parsing, Measuring, Rooting, Converting, Walk
  <2> QED BY <2>3, <2>5
<1>4. CASE f.req.op # "dimensionality" /\ f.side = "dst"
  <2> DEFINE f1 == [f EXCEPT !.dst = u, !.b = u]
  <2>1. /\ f1 \in Frame /\ f1.src = f.src /\ f1.a = f.a /\ f1.dst = u /\ f1.b = u
        /\ f1.req = f.req
    BY DEF Frame
  <2>2. u = ParseOf[defs][f.req.to] /\ OperandKnown(f.req.to)'
    BY <1>4 DEF Operand
  <2>3. SrcParsed(f)' /\ f.a = f.src /\ f.src # Undefined
    BY <1>4, FrameFields, DistinctAssumption
  <2>4. IF f.src = u THEN Goto(g, "return", [f1 EXCEPT !.ans = Identity]) ELSE Goto(g, "mult", f1)
    BY <1>4 DEF Parsed, Answer
  <2> HIDE DEF f1
  <2>5. ASSUME f.src = u
        PROVE  CallOK("return", [f1 EXCEPT !.ans = Identity])'
    <3>1. Identity = Expected(defs, f1.req)'
      BY <1>1, <1>4, <2>1, <2>2, <2>3, <2>5 DEF Expected, ConvertAnswer, SrcParsed
    <3>2. Known(f1.req)'
      BY <1>1, <1>4, <2>1, <2>2, <2>3, <2>5 DEF Known, SrcParsed
    <3> QED BY <2>1, <3>1, <3>2, AnswerOK
  <2>6. ASSUME f.src # u
        PROVE  CallOK("mult", f1)'
    <3>1. SrcParsed(f1)' /\ DstParsed(f1)'
      BY <1>1, <2>1, <2>2, <2>3, <2>6 DEF SrcParsed, DstParsed
    <3> QED
      BY <2>1, <2>3, <3>1
      DEF CallOK, ParsePart, AnswerPart, PairPart, DimPart, ReturnPart, WarmPart,
          Parsing, Measuring, Rooting, Converting, Walk
  <2> QED BY <2>4, <2>5, <2>6
<1> QED BY <1>1, <1>2, <1>3, <1>4

\* A measured dimension is the answer, or one side of a comparison.
LEMMA MeasuredOK ==
  ASSUME TypeInv, Grows, NEW g \in Goroutine, NEW f \in Frame, f.req \in Request,
         NEW l \in {"dcheck", "dstore"}, CallOK(l, f)',
         NEW d, d = DimIs(f.arg), DimKnown(f.arg)',
         f.req \in warmed' => l = "dcheck" /\ (f.phase # "answer" => DimKnown(Right(f))'),
         Measured(g, f, d)
  PROVE  \E m, f1 : Goto(g, m, f1) /\ CallOK(m, f1)'
<1> USE DEF Measuring, Walk
<1>1. /\ defs' = defs /\ f.side \in {"src", "dst"} /\ d = DimIs(f.arg)'
      /\ f.arg \in Container
  BY FrameFields, CatalogStays DEF Grows
<1>2. CASE f.phase = "answer"
  <2>1. AnswerPart(l, f)'
    BY DEF CallOK
  <2>2. /\ f.req.op = "dimensionality" /\ OperandKnown(f.req.from)'
        /\ f.arg = ParseOf[defs][f.req.from] /\ f.arg # Undefined
    BY <1>1, <1>2, <2>1, DistinctAssumption DEF AnswerPart
  <2>3. d = Expected(defs, f.req)'
    BY <1>1, <2>2 DEF Expected, DimIs
  <2>4. Known(f.req)'
    BY <1>1, <2>2 DEF Known
  <2> QED BY <1>2, <2>3, <2>4, AnswerOK DEF Measured, Answer
<1>3. CASE f.phase # "answer"
  <2>1. /\ SrcParsed(f)' /\ DstParsed(f)' /\ PhasePair(f)'
        /\ f.side = "src" => f.arg = Left(f)
        /\ f.side = "dst" => f.arg = Right(f) /\ f.sd = DimIs(Left(f))' /\ DimKnown(Left(f))'
    BY <1>3 DEF CallOK, PairPart, DimPart, Converting
  <2>2. f.req \in warmed' /\ f.phase = "factor" => DimIs(f.a)' # DimIs(f.b)'
    BY DEF CallOK, WarmPart
  <2>3. CASE f.side = "src"
    <3> DEFINE f1 == [f EXCEPT !.sd = d, !.side = "dst",
                        !.arg = IF f.phase = "factor" THEN f.b ELSE f.dst]
    <3>1. /\ f1.sd = d /\ f1.side = "dst" /\ f1.arg = Right(f) /\ f1.req = f.req
          /\ f1.src = f.src /\ f1.dst = f.dst /\ f1.a = f.a /\ f1.b = f.b
          /\ f1.phase = f.phase
      BY DEF Frame, Right
    <3>2. Goto(g, "dcheck", f1)
      BY <1>3, <2>3 DEF Measured
    <3> HIDE DEF f1
    <3>3. /\ SrcParsed(f1)' /\ DstParsed(f1)' /\ PhasePair(f1)'
          /\ Left(f1) = Left(f) /\ Right(f1) = Right(f)
      BY <2>1, <3>1 DEF SrcParsed, DstParsed, PhasePair, FactorPair, AffinePair, Mult, Left, Right
    <3>4. CallOK("dcheck", f1)'
      BY <1>1, <1>3, <2>1, <2>2, <2>3, <3>1, <3>3
      DEF CallOK, ParsePart, AnswerPart, PairPart, DimPart, ReturnPart, WarmPart,
          Parsing, Rooting, Converting
    <3> QED BY <3>2, <3>4
  <2>4. CASE f.side = "dst"
    <3> DEFINE f1 == [f EXCEPT !.dd = d]
    <3>1. /\ f1.dd = d /\ f1.sd = f.sd /\ f1.req = f.req
          /\ f1.src = f.src /\ f1.dst = f.dst /\ f1.a = f.a /\ f1.b = f.b
          /\ f1.phase = f.phase
      BY DEF Frame
    <3>2. Goto(g, "compare", f1)
      BY <1>3, <2>4 DEF Measured
    <3> HIDE DEF f1
    <3>3. /\ SrcParsed(f1)' /\ DstParsed(f1)' /\ PhasePair(f1)'
          /\ Left(f1) = Left(f) /\ Right(f1) = Right(f)
      BY <2>1, <3>1 DEF SrcParsed, DstParsed, PhasePair, FactorPair, AffinePair, Mult, Left, Right
    <3>4. CallOK("compare", f1)'
      BY <1>1, <1>3, <2>1, <2>2, <2>4, <3>1, <3>3
      DEF CallOK, ParsePart, AnswerPart, PairPart, DimPart, ReturnPart, WarmPart,
          Parsing, Rooting, Converting
    <3> QED BY <3>2, <3>4
  <2> QED BY <1>1, <2>3, <2>4
<1> QED BY <1>2, <1>3

\* A factor is the answer, or the end of the first of two rounds.
LEMMA FactoredOK ==
  ASSUME TypeInv, Grows, NEW g \in Goroutine, NEW f \in Frame, f.req \in Request,
         SrcParsed(f)', DstParsed(f)', FactorPair(f)', DimIs(f.a) = DimIs(f.b),
         FactorKnown(f.a, f.b)', NEW x, x = FactorOf[defs][Ratio[f.a][f.b]],
         Factored(g, f, x)
  PROVE  \E l, f1 : Goto(g, l, f1) /\ CallOK(l, f1)'
<1>1. /\ defs' = defs /\ f.src \in Container /\ f.dst \in Container
      /\ f.src # Undefined /\ f.dst # Undefined
      /\ DimIs(f.src)' = DimIs(f.src) /\ DimIs(f.dst)' = DimIs(f.dst)
      /\ Mult(f)' = Mult(f) /\ Logarithmic(f)' = Logarithmic(f)
      /\ Rejected(f.req.op, f.src, f.dst)' = Rejected(f.req.op, f.src, f.dst)
  BY FrameFields, CatalogStays, DistinctAssumption DEF Grows
<1>2. /\ f.req.op # "dimensionality" /\ f.src # f.dst
      /\ f.src = ParseOf[defs][f.req.from] /\ f.dst = ParseOf[defs][f.req.to]
      /\ OperandKnown(f.req.from)' /\ OperandKnown(f.req.to)'
  BY <1>1 DEF SrcParsed, DstParsed
<1>3. CASE LastRound(f)
  <2>1. x = ConvertAnswer(defs, f.req.op, f.src, f.dst) /\ PairKnown(f.req.op, f.src, f.dst)'
    <3>1. CASE Mult(f)
      <4>1. f.a = f.src /\ f.b = f.dst
        BY <1>1, <3>1 DEF FactorPair
      <4>2. f.src \notin OffsetOf[defs] /\ f.dst \notin OffsetOf[defs]
        BY <3>1 DEF Mult
      <4> QED BY <1>1, <1>2, <4>1, <4>2 DEF ConvertAnswer, SameDim, DimIs, PairKnown, Plain
    <3>2. CASE ~Mult(f)
      <4>1. /\ ~Rejected(f.req.op, f.src, f.dst)
            /\ f.a = RefOf[defs][f.src] /\ f.b = RefOf[defs][f.dst]
            /\ DimIs(f.src) = DimIs(f.dst) /\ DimKnown(f.src)' /\ DimKnown(f.dst)'
            /\ <<f.src, f.dst>> \notin DeltaMixOf[defs]
        BY <1>1, <3>2 DEF FactorPair
      <4>2. ~(f.src \notin OffsetOf[defs] /\ f.dst \notin OffsetOf[defs])
        BY <3>2 DEF Mult
      <4>3. x = ConvertAnswer(defs, f.req.op, f.src, f.dst)
        BY <1>2, <4>1, <4>2 DEF ConvertAnswer, SameDim, DimIs, Rejected
      <4>4. PairKnown(f.req.op, f.src, f.dst)'
        BY <1>1, <4>1, <4>2 DEF PairKnown, Plain
      <4> QED BY <4>3, <4>4
    <3> QED BY <3>1, <3>2
  <2>2. x = Expected(defs, f.req)'
    BY <1>1, <1>2, <2>1 DEF Expected
  <2>3. Known(f.req)'
    BY <1>1, <1>2, <2>1 DEF Known
  <2> QED BY <1>3, <2>2, <2>3, AnswerOK DEF Factored, Answer
<1>4. CASE ~LastRound(f)
  <2> DEFINE f1 == [f EXCEPT !.rounds = 1]
  <2>1. f1.req = f.req /\ f1.src = f.src /\ f1.dst = f.dst
    BY DEF Frame
  <2>2. Goto(g, "check", f1) /\ ~Mult(f) /\ ~Logarithmic(f)
    BY <1>4 DEF Factored, LastRound
  <2> HIDE DEF f1
  <2>3. ~Mult(f1)' /\ ~Logarithmic(f1)' /\ SrcParsed(f1)' /\ DstParsed(f1)'
    BY <1>1, <2>1, <2>2 DEF Mult, Logarithmic, SrcParsed, DstParsed
  <2>4. CallOK("check", f1)'
    BY <2>3 DEF CallOK, ParsePart, AnswerPart, PairPart, DimPart, ReturnPart, WarmPart,
       Parsing, Measuring, Rooting, Converting, Walk
  <2> QED BY <2>2, <2>4
<1> QED BY <1>3, <1>4

-----------------------------------------------------------------------------
(* What a warm call may count on *)

\* A warm call knows its pair, or both dimensions that refute it.
LEMMA WarmPair ==
  ASSUME TypeInv, KnownInv, ~stale, NEW f \in Frame, f.req \in Request, Known(f.req),
         SrcParsed(f), DstParsed(f)
  PROVE  /\ PairKnown(f.req.op, f.src, f.dst)
         /\ AffinePair(f) => DimKnown(f.src) /\ DimKnown(f.dst)
         /\ Mult(f) /\ DimIs(f.src) # DimIs(f.dst) => DimKnown(f.src) /\ DimKnown(f.dst)
<1>1. /\ f.src \in Container /\ f.dst \in Container /\ f.src # Undefined /\ f.dst # Undefined
  BY FrameFields, DistinctAssumption
<1>2. PairKnown(f.req.op, f.src, f.dst)
  BY <1>1 DEF Known, SrcParsed, DstParsed
<1>3. FactorKnown(f.src, f.dst) => DimIs(f.src) = DimIs(f.dst)
  BY <1>1 DEF KnownInv
<1> QED BY <1>2, <1>3 DEF PairKnown, AffinePair, Mult, Plain

\* A warm call that compares dimensions knows both of them, and that asks for a factor
\* finds it or two dimensions that differ.
LEMMA WarmRight ==
  ASSUME TypeInv, KnownInv, ~stale, NEW f \in Frame, f.req \in Request, Known(f.req),
         SrcParsed(f), DstParsed(f), PhasePair(f),
         f.phase = "factor" => DimIs(f.a) # DimIs(f.b)
  PROVE  DimKnown(Left(f)) /\ DimKnown(Right(f))
<1>1. f.src \in Container /\ f.dst \in Container /\ f.phase \in {"factor", "path", "affine"}
  BY FrameFields DEF PhasePair
<1>2. DimIs(RefOf[defs][f.src]) = DimIs(f.src) /\ DimIs(RefOf[defs][f.dst]) = DimIs(f.dst)
  BY <1>1, TableTypes
<1>3. CASE f.phase = "factor"
  <2>1. FactorPair(f) /\ DimIs(f.a) # DimIs(f.b)
    BY <1>3 DEF PhasePair
  <2>2. Mult(f) /\ f.a = f.src /\ f.b = f.dst
    BY <1>2, <2>1 DEF FactorPair
  <2> QED BY <1>3, <2>1, <2>2, WarmPair DEF Left, Right
<1>4. CASE f.phase = "path"
  BY <1>4 DEF PhasePair, Left, Right
<1>5. CASE f.phase = "affine"
  BY <1>5, WarmPair DEF PhasePair, Left, Right
<1> QED BY <1>1, <1>3, <1>4, <1>5

\* A warm call that misses a factor is about to find two dimensions that differ.
LEMMA WarmFactor ==
  ASSUME TypeInv, KnownInv, ~stale, NEW f \in Frame, f.req \in Request, Known(f.req),
         SrcParsed(f), DstParsed(f), FactorPair(f), ~FactorKnown(f.a, f.b)
  PROVE  DimIs(f.a) # DimIs(f.b) /\ DimKnown(f.a)
BY WarmPair DEF FactorPair, PairKnown, Plain, Mult

-----------------------------------------------------------------------------
(* Each step of a call leaves registers that fit the place it goes to. *)

\* A call of g in flight, at l with registers f.
InCall(g, l, f) == /\ pc[g] = l /\ frame[g] = f /\ l # "idle" /\ RegistersOK(l, f)
                   /\ f.req \in Request /\ WalkPart(l, f) /\ CallOK(l, f)

Before == TypeInv /\ FactorInv /\ WarmInv /\ Grows /\ warmed' = warmed

\* What every step of a call may use, before and after it.
LEMMA InCallFacts ==
  ASSUME Before, NEW g \in Goroutine, NEW l, NEW f, InCall(g, l, f)
  PROVE  /\ f \in Frame /\ f.req \in Request /\ ~stale /\ defs' = defs
         /\ CallOK(l, f) /\ CallOK(l, f)' /\ f.skipped = {}
         /\ f.req \in warmed => Known(f.req) /\ Known(f.req)'
         /\ TypeInv /\ KnownInv /\ Grows
<1>1. f \in Frame /\ f.req \in Request /\ CallOK(l, f) /\ f.skipped = {}
  BY DEF InCall, RegistersOK, WalkPart
<1>2. ~stale
  BY <1>1, LoadIsNoRequest DEF InCall, Before, WarmInv, StaleInv
<1>3. CallOK(l, f)'
  BY <1>1, CarriedOver DEF Before
<1>4. f.req \in warmed => Known(f.req) /\ Known(f.req)'
  BY <1>1, <1>2, KnownGrows DEF Before, WarmInv, KnownInv
<1> QED BY <1>1, <1>2, <1>3, <1>4 DEF Before, WarmInv, Grows

\* The steps of parseUnits: the hit, the miss, and the end of its walk.
LEMMA ParseSteps ==
  ASSUME Before, NEW g \in Goroutine, NEW l, NEW f, InCall(g, l, f),
         ParseHit(g) \/ ParseMiss(g) \/ ParseDone(g)
  PROVE  \E m, f1 : Goto(g, m, f1) /\ CallOK(m, f1)'
<1> DEFINE e == Operand(f)
<1>1. /\ f \in Frame /\ f.req \in Request /\ ~stale /\ defs' = defs /\ warmed' = warmed
      /\ f.req \in warmed => Known(f.req) /\ Known(f.req)'
      /\ TypeInv /\ Grows /\ pc[g] = l /\ frame[g] = f /\ e \in Expr
      /\ parseCache[e] \in {Absent, ParseOf[defs][e]}
      /\ ParseOf[defs][e] \in Container \cup {Undefined}
      /\ f.side \in {"src", "dst"}
  BY InCallFacts, OperandType, TableTypes, FrameFields
  DEF InCall, Before, FactorInv, FactorsCoherent
<1>2. Parsing(l, f)
  BY <1>1 DEF ParseHit, ParseMiss, ParseDone, Parsing, Walk
<1>3. /\ f.side = "dst" => /\ SrcParsed(f) /\ SrcParsed(f)' /\ f.a = f.src
                           /\ f.src # Undefined
      /\ l # "parse" => Keys(InternsOf[defs][e]) \subseteq byName \cup Keys(f.todo)
  BY <1>1, <1>2, InCallFacts, FrameFields, DistinctAssumption DEF CallOK, ParsePart
<1> HIDE DEF e
<1>4. CASE ParseHit(g)
  <2>1. /\ parseCache[e] # Absent /\ Parsed(g, f, parseCache[e])
        /\ parseCache' = parseCache
    BY <1>1, <1>4 DEF ParseHit, caches, e
  <2>2. parseCache[e] = ParseOf[defs][e] /\ parseCache[e] \in Container
    <3>1. parseCache \in [Expr -> Container \cup {Absent}]
      BY <1>1 DEF TypeInv, TypeOK
    <3> QED BY <1>1, <2>1, <3>1
  <2>3. OperandKnown(e)'
    <3>1. OperandKnown(e)
      BY <2>1 DEF OperandKnown
    <3> QED BY <1>1, <3>1, EntriesGrow
  <2> QED BY <1>1, <1>3, <2>1, <2>2, <2>3, ParsedOK DEF e
<1>5. CASE ParseMiss(g)
  <2>0. PICK f1 : f1 = [f EXCEPT !.kind = "parse", !.skipped = {}, !.todo = InternsOf[defs][e]]
    OBVIOUS
  <2>1. /\ l = "parse" /\ parseCache[e] = Absent /\ Goto(g, "look", f1)
    BY <1>1, <1>5, <2>0 DEF ParseMiss, Lock, e
  <2>2. /\ f1.kind = "parse" /\ f1.todo = InternsOf[defs][e] /\ f1.req = f.req
        /\ f1.side = f.side /\ f1.src = f.src /\ f1.a = f.a
    BY <1>1, <2>0 DEF Frame
  <2>3. f.req \in warmed => Keys(InternsOf[defs][e]) \subseteq byName'
    <3>1. f.req \in warmed => OperandKnown(e)
      BY <1>1, <1>3 DEF Known, SrcParsed, Operand, e
    <3> QED BY <1>1, <2>1, <3>1 DEF OperandKnown, Grows
  <2>4. Operand(f1) = e /\ (SrcParsed(f)' => SrcParsed(f1)')
    BY <2>2 DEF Operand, SrcParsed, e
  <2>5. CallOK("look", f1)'
    BY <1>1, <1>3, <2>2, <2>3, <2>4
    DEF CallOK, ParsePart, AnswerPart, PairPart, DimPart, ReturnPart, WarmPart,
        Parsing, Measuring, Rooting, Converting, Walk
  <2> QED BY <2>1, <2>5
<1>6. CASE ParseDone(g)
  <2>1. l = "look" /\ f.todo = << >>
    BY <1>1, <1>6 DEF ParseDone
  <2>2. Keys(InternsOf[defs][e]) \subseteq byName'
    BY <1>1, <1>3, <2>1 DEF Keys, Grows
  <2>3. CASE ParseOf[defs][e] = Undefined
    <3>1. Goto(g, "return", [f EXCEPT !.ans = Undefined])
      BY <1>1, <1>6, <2>3 DEF ParseDone, Answer, e
    <3>2. OperandKnown(e)'
      BY <1>1, <2>2, <2>3 DEF OperandKnown
    <3>3. Undefined = Expected(defs, f.req)' /\ Known(f.req)'
      BY <1>1, <1>3, <2>3, <3>2 DEF Expected, Known, SrcParsed, Operand, e
    <3> QED BY <1>1, <3>1, <3>3, AnswerOK
  <2>4. CASE ParseOf[defs][e] # Undefined
    <3>1. parseCache' = [parseCache EXCEPT ![e] = ParseOf[defs][e]]
          /\ Parsed(g, f, ParseOf[defs][e]) /\ parseCache \in [Expr -> Container \cup {Absent}]
      BY <1>1, <1>6, <2>4 DEF ParseDone, TypeInv, TypeOK, e
    <3>2. parseCache'[e] # Absent
      BY <1>1, <2>4, <3>1, DistinctAssumption
    <3>3. OperandKnown(e)'
      BY <1>1, <3>2 DEF OperandKnown
    <3> QED BY <1>1, <1>3, <2>4, <3>1, <3>3, ParsedOK DEF e
  <2> QED BY <2>3, <2>4
<1> QED BY <1>4, <1>5, <1>6

\* No other goroutine is between the two assignments that intern a unit.
LEMMA NoOtherPut ==
  ASSUME TypeInv, WarmInv, NEW g \in Goroutine, pc[g] \notin {"idle", "put2"}
  PROVE  \A h \in Goroutine : pc[h] # "put2"
<1>1. ASSUME NEW h \in Goroutine, pc[h] = "put2" PROVE FALSE
  <2>1. frame[h].req \in warmed /\ frame[h].req \in Request
    BY <1>1 DEF WarmInv, Exclusive, TypeInv, TypeOK
  <2>2. WarmPart(pc[h], frame[h])
    BY <1>1, <2>1 DEF WarmInv, CallsInv, CallOK
  <2> QED BY <1>1, <2>1, <2>2 DEF WarmPart
<1> QED BY <1>1

\* So the two maps of units are equal when such a goroutine looks.
LEMMA NoOtherIntern ==
  ASSUME TypeInv, WarmInv, NEW g \in Goroutine, pc[g] \notin {"idle", "put2"}
  PROVE  units = byName
BY NoOtherPut DEF WarmInv, Interned

\* The names still to look up are the next one and those after it.
LEMMA KeysOfWalk ==
  ASSUME NEW s \in Seq(Name), s # << >>
  PROVE  Head(s) \in Keys(s) /\ Keys(s) = {Head(s)} \cup Keys(Tail(s))
<1>1. /\ DOMAIN s = 1..Len(s) /\ Len(s) \in Nat \ {0} /\ Head(s) = s[1]
      /\ DOMAIN Tail(s) = 1..(Len(s) - 1)
      /\ \A i \in 1..(Len(s) - 1) : Tail(s)[i] = s[i + 1]
  OBVIOUS
<1>2. \A i \in 1..Len(s) : i = 1 \/ (i - 1 \in 1..(Len(s) - 1) /\ s[i] = Tail(s)[i - 1])
  BY <1>1
<1>3. \A i \in 1..(Len(s) - 1) : i + 1 \in 1..Len(s)
  BY <1>1
<1>4. Head(s) \in Keys(s)
  BY <1>1 DEF Keys
<1>5. Keys(Tail(s)) \subseteq Keys(s)
  BY <1>1, <1>3 DEF Keys
<1>6. Keys(s) \subseteq {Head(s)} \cup Keys(Tail(s))
  <2>1. ASSUME NEW i \in 1..Len(s), i # 1 PROVE s[i] \in Keys(Tail(s))
    <3>1. i - 1 \in DOMAIN Tail(s) /\ s[i] = Tail(s)[i - 1]
      BY <1>1, <1>2, <2>1
    <3> QED BY <3>1 DEF Keys
  <2> QED BY <1>1, <2>1 DEF Keys
<1> QED BY <1>4, <1>5, <1>6

\* The steps of a walk: what is behind it is in r.unitByName, what is ahead in todo.
LEMMA WalkSteps ==
  ASSUME Before, NEW g \in Goroutine, NEW l, NEW f, InCall(g, l, f),
         Look(g) \/ InternUnit(g) \/ InternName(g) \/ ReadName(g)
  PROVE  \E m, f1 : Goto(g, m, f1) /\ CallOK(m, f1)'
<1>1. /\ f \in Frame /\ f.req \in Request /\ defs' = defs /\ warmed' = warmed
      /\ CallOK(l, f)' /\ byName \subseteq byName' /\ f.todo \in Seq(Name)
      /\ pc[g] = l /\ frame[g] = f /\ l \in Walk /\ f.todo # << >>
      /\ Head(f.todo) \in Keys(f.todo) /\ Keys(f.todo) = {Head(f.todo)} \cup Keys(Tail(f.todo))
  <2>1. /\ f \in Frame /\ f.req \in Request /\ defs' = defs /\ warmed' = warmed
        /\ CallOK(l, f)' /\ byName \subseteq byName' /\ f.todo \in Seq(Name)
        /\ pc[g] = l /\ frame[g] = f
    BY InCallFacts, FrameFields DEF InCall, Before, Grows
  <2>2. l \in Walk /\ f.todo # << >>
    BY <2>1 DEF InCall, RegistersOK, Look, InternUnit, InternName, ReadName, Walk
  <2>3. Head(f.todo) \in Keys(f.todo) /\ Keys(f.todo) = {Head(f.todo)} \cup Keys(Tail(f.todo))
    BY <2>1, <2>2, KeysOfWalk
  <2> QED BY <2>1, <2>2, <2>3
<1>2. f.req \in warmed =>
        l \in {"look", "read"} /\ f.kind = "parse" /\ Keys(f.todo) \subseteq byName'
  BY <1>1 DEF CallOK, WarmPart, Walk
<1>3. ASSUME NEW m \in Walk, f.req \in warmed => m \in {"look", "read"}
      PROVE  CallOK(m, f)'
  BY <1>1, <1>2, <1>3
  DEF CallOK, ParsePart, AnswerPart, PairPart, DimPart, ReturnPart, WarmPart,
      Parsing, Measuring, Rooting, Converting, Walk
<1>4. CASE Look(g)
  <2>1. f.req \in warmed => Head(f.todo) \in units
    BY <1>1, <1>4, NoOtherIntern DEF InCall, CallOK, WarmPart, Look, Before
  <2>2. Goto(g, IF Head(f.todo) \in units THEN "read" ELSE "put1", f)
    BY <1>1, <1>4 DEF Look, Key
  <2> QED BY <1>3, <2>1, <2>2 DEF Walk
<1>5. CASE InternUnit(g) \/ InternName(g)
  <2>1. f.req \notin warmed
    BY <1>1, <1>2, <1>5 DEF InternUnit, InternName
  <2>2. \E m \in Walk : Goto(g, m, f)
    BY <1>1, <1>5 DEF InternUnit, InternName, Walk
  <2> QED BY <1>3, <2>1, <2>2
<1>6. CASE ReadName(g)
  <2>1. l = "read" /\ Head(f.todo) \in byName
    BY <1>1, <1>6 DEF InCall, WalkPart, ReadName
  <2> DEFINE f1 == Forward(f)
  <2>2. Goto(g, "look", f1)
    BY <1>1, <1>6, <2>1 DEF ReadName, Key
  <2>3. /\ f1.todo = Tail(f.todo) /\ f1.kind = f.kind /\ f1.req = f.req /\ f1.side = f.side
        /\ f1.src = f.src /\ f1.dst = f.dst /\ f1.a = f.a /\ f1.b = f.b /\ f1.arg = f.arg
        /\ f1.phase = f.phase /\ f1.sd = f.sd
    BY <1>1 DEF Frame, Forward
  <2> HIDE DEF f1
  <2>4. /\ Operand(f1) = Operand(f) /\ Left(f1) = Left(f) /\ Right(f1) = Right(f)
        /\ SrcParsed(f1)' <=> SrcParsed(f)'
        /\ DstParsed(f1)' <=> DstParsed(f)'
        /\ PhasePair(f1)' <=> PhasePair(f)'
        /\ FactorPair(f1)' <=> FactorPair(f)'
    BY <2>3 DEF Operand, Left, Right, SrcParsed, DstParsed, PhasePair, FactorPair, AffinePair, Mult
  <2>5. Keys(f.todo) \subseteq byName' \cup Keys(f1.todo) /\ Keys(f1.todo) \subseteq Keys(f.todo)
    BY <1>1, <2>1, <2>3
  <2>6. CallOK("look", f1)'
    BY <1>1, <1>2, <2>1, <2>3, <2>4, <2>5
    DEF CallOK, ParsePart, AnswerPart, PairPart, DimPart, ReturnPart, WarmPart,
        Parsing, Measuring, Rooting, Converting, Walk
  <2> QED BY <2>2, <2>6
<1> QED BY <1>4, <1>5, <1>6

\* Registers that differ only in what a walk and its result leave there.
LEMMA SameCall ==
  ASSUME NEW f, NEW f1, f1.req = f.req, f1.src = f.src, f1.dst = f.dst, f1.a = f.a, f1.b = f.b,
         f1.phase = f.phase
  PROVE  /\ Left(f1) = Left(f) /\ Right(f1) = Right(f)
         /\ SrcParsed(f1)' <=> SrcParsed(f)'
         /\ DstParsed(f1)' <=> DstParsed(f)'
         /\ PhasePair(f1)' <=> PhasePair(f)'
         /\ FactorPair(f1)' <=> FactorPair(f)'
BY DEF Left, Right, SrcParsed, DstParsed, PhasePair, FactorPair, AffinePair, Mult

\* A warm call that measures its left operand will find the dimension of the right one.
LEMMA WarmMeasure ==
  ASSUME Before, NEW g \in Goroutine, NEW l, NEW f, InCall(g, l, f), l = "dcheck",
         f.phase # "answer", f.req \in warmed
  PROVE  DimKnown(Right(f))'
<1>1. /\ f \in Frame /\ f.req \in Request /\ ~stale /\ CallOK(l, f) /\ Known(f.req)
      /\ TypeInv /\ KnownInv /\ Grows
  BY InCallFacts
<1>2. /\ SrcParsed(f) /\ DstParsed(f) /\ PhasePair(f)
      /\ f.phase = "factor" => DimIs(f.a) # DimIs(f.b)
  BY <1>1 DEF CallOK, PairPart, DimPart, WarmPart, Converting, Measuring
<1>3. DimKnown(Right(f)) /\ Right(f) \in Container
  BY <1>1, <1>2, WarmRight, PairGrows
<1> QED BY <1>1, <1>3, EntriesGrow

\* The steps of dimensionality: what it finds, computes or stores is the dimension.
LEMMA DimSteps ==
  ASSUME Before, NEW g \in Goroutine, NEW l, NEW f, InCall(g, l, f),
         \/ DimEmpty(g) \/ DimCheck(g) \/ DimRead(g) \/ DimWalked(g)
         \/ DimWrite(g) \/ DimStore(g)
  PROVE  \E m, f1 : Goto(g, m, f1) /\ CallOK(m, f1)'
<1>1. /\ f \in Frame /\ f.req \in Request /\ ~stale /\ defs' = defs /\ warmed' = warmed
      /\ CallOK(l, f) /\ CallOK(l, f)' /\ f.skipped = {}
      /\ TypeInv /\ Grows /\ pc[g] = l /\ frame[g] = f
      /\ f.arg \in Container /\ DimIs(f.arg)' = DimIs(f.arg) /\ DimIs(f.arg) \in Dim
      /\ dimCache \in [Container -> Dim \cup {Absent}]
      /\ dimCache[f.arg] \in {Absent, DimIs(f.arg)}
      /\ RegistersOK(l, f) /\ f.req # LoadRequest
  BY InCallFacts, FrameFields, CatalogStays, TableTypes, LoadIsNoRequest
  DEF InCall, Before, KnownInv, TypeInv, TypeOK
<1>2. Measuring(l, f)
  BY <1>1 DEF RegistersOK, DimEmpty, DimCheck, DimRead, DimWalked, DimWrite, DimStore, Measuring,
     Walk
<1>3. f.req \in warmed => l \in {"dcheck", "look"}
  BY <1>1, <1>2 DEF CallOK, WarmPart, Measuring, Walk
<1>4. f.req \in warmed /\ l = "dcheck" => DimKnown(f.arg)
                           /\ (f.phase # "answer" => DimKnown(Right(f))')
  BY <1>1, WarmMeasure DEF CallOK, WarmPart
<1>5. CASE DimEmpty(g)
  <2>1. /\ l = "dcheck" /\ Measured(g, f, Dimensionless) /\ Dimensionless = DimIs(f.arg)
        /\ DimKnown(f.arg)'
    BY <1>1, <1>5, TableTypes DEF DimEmpty, DimKnown
  <2> QED BY <1>1, <1>4, <2>1, MeasuredOK
<1>6. CASE DimCheck(g) /\ dimCache[f.arg] # Absent
  <2>1. /\ l = "dcheck" /\ Measured(g, f, dimCache[f.arg]) /\ dimCache[f.arg] = DimIs(f.arg)
        /\ DimKnown(f.arg)
    BY <1>1, <1>6 DEF DimCheck, DimKnown
  <2>2. DimKnown(f.arg)'
    BY <1>1, <2>1, EntriesGrow
  <2> QED BY <1>1, <1>4, <2>1, <2>2, MeasuredOK
<1>7. CASE DimCheck(g) /\ dimCache[f.arg] = Absent
  <2> DEFINE f1 == [f EXCEPT !.kind = "dim"]
  <2>1. /\ l = "dcheck" /\ f.req \notin warmed /\ Goto(g, "dread", f1)
    BY <1>1, <1>4, <1>7 DEF DimCheck, DimKnown
  <2>2. /\ f1.kind = "dim" /\ f1.req = f.req /\ f1.src = f.src /\ f1.dst = f.dst
        /\ f1.a = f.a /\ f1.b = f.b /\ f1.phase = f.phase /\ f1.side = f.side
        /\ f1.arg = f.arg /\ f1.sd = f.sd
    BY <1>1 DEF Frame
  <2> HIDE DEF f1
  <2>3. CallOK("dread", f1)'
    BY <1>1, <2>1, <2>2, SameCall
    DEF CallOK, ParsePart, AnswerPart, PairPart, DimPart, ReturnPart, WarmPart,
        Parsing, Measuring, Rooting, Converting, Walk
  <2> QED BY <2>1, <2>3
<1>8. CASE DimRead(g) /\ dimCache[f.arg] = Absent
  <2>0. PICK f1 : f1 = [f EXCEPT !.todo = WalkOf[defs][f.arg], !.skipped = {}]
    OBVIOUS
  <2>1. l = "dread" /\ f.req \notin warmed /\ Goto(g, "look", f1) /\ f.kind = "dim"
    BY <1>1, <1>3, <1>8, <2>0 DEF DimRead, RegistersOK
  <2>2. /\ f1.kind = "dim" /\ f1.req = f.req /\ f1.src = f.src /\ f1.dst = f.dst
        /\ f1.a = f.a /\ f1.b = f.b /\ f1.phase = f.phase /\ f1.side = f.side
        /\ f1.arg = f.arg /\ f1.sd = f.sd
    BY <1>1, <2>0, <2>1 DEF Frame
  <2>3. CallOK("look", f1)'
    BY <1>1, <2>1, <2>2, SameCall
    DEF CallOK, ParsePart, AnswerPart, PairPart, DimPart, ReturnPart, WarmPart,
        Parsing, Measuring, Rooting, Converting, Walk
  <2> QED BY <2>1, <2>3
<1>9. ASSUME NEW m \in {"dwrite", "dstore"}, NEW f1, f1 = [f EXCEPT !.val = DimIs(f.arg)],
             f.req \notin warmed
      PROVE  CallOK(m, f1)'
  <2>1. /\ f1.val = DimIs(f.arg) /\ f1.req = f.req /\ f1.src = f.src /\ f1.dst = f.dst
        /\ f1.a = f.a /\ f1.b = f.b /\ f1.phase = f.phase /\ f1.side = f.side
        /\ f1.arg = f.arg /\ f1.sd = f.sd
    BY <1>1, <1>9 DEF Frame
  <2>2. /\ f.phase = "answer" => /\ f.req.op = "dimensionality" /\ OperandKnown(f.req.from)'
                                 /\ f.arg = ParseOf[defs'][f.req.from]
        /\ f.phase # "answer" =>
             /\ SrcParsed(f)' /\ DstParsed(f)' /\ PhasePair(f)'
             /\ f.side = "src" => f.arg = Left(f)
             /\ f.side = "dst" => /\ f.arg = Right(f)
                                  /\ f.sd = DimIs(Left(f))' /\ DimKnown(Left(f))'
    BY <1>1, <1>2 DEF CallOK, AnswerPart, PairPart, DimPart, Converting, Measuring
  <2>0. /\ Left(f1) = Left(f) /\ Right(f1) = Right(f)
        /\ SrcParsed(f1)' <=> SrcParsed(f)'
        /\ DstParsed(f1)' <=> DstParsed(f)'
        /\ PhasePair(f1)' <=> PhasePair(f)'
    BY <2>1, SameCall
  <2>3. DimPart(m, f1)'
    BY <1>1, <1>9, <2>0, <2>1, <2>2 DEF DimPart, Measuring, Walk
  <2>4. PairPart(m, f1)' /\ AnswerPart(m, f1)'
    BY <1>1, <1>9, <2>0, <2>1, <2>2
    DEF PairPart, AnswerPart, Measuring, Rooting, Converting, Walk
  <2>5. ParsePart(m, f1)' /\ ReturnPart(m, f1)' /\ WarmPart(m, f1)'
    BY <1>1, <1>9, <2>1 DEF ParsePart, ReturnPart, WarmPart, Parsing, Walk
  <2> QED BY <2>3, <2>4, <2>5 DEF CallOK
<1>10. CASE DimRead(g) /\ dimCache[f.arg] # Absent
  <2>1. PICK f1 : f1 = [f EXCEPT !.val = DimIs(f.arg)]
    OBVIOUS
  <2>2. l = "dread" /\ f.kind = "dim" /\ Goto(g, "dstore", f1)
    BY <1>1, <1>10, <2>1 DEF DimRead, RegistersOK
  <2> QED BY <1>3, <1>9, <2>1, <2>2
<1>11. CASE DimWalked(g)
  <2>1. PICK f1 : f1 = [f EXCEPT !.val = DimIs(f.arg)]
    OBVIOUS
  <2>2. l = "look" /\ f.kind = "dim" /\ Goto(g, "dwrite", f1)
    BY <1>1, <1>11, <2>1 DEF DimWalked, RegistersOK, DimIs
  <2>3. f.req \notin warmed
    BY <1>1, <2>2 DEF CallOK, WarmPart
  <2> QED BY <1>9, <2>1, <2>2, <2>3
<1>12. CASE DimWrite(g)
  <2>1. l = "dwrite" /\ f.kind # "load" /\ Goto(g, "dstore", f)
    BY <1>1, <1>12 DEF DimWrite, RegistersOK
  <2>2. CallOK("dstore", f)'
    BY <1>1, <1>3, <2>1
    DEF CallOK, ParsePart, AnswerPart, PairPart, DimPart, ReturnPart, WarmPart,
        Parsing, Measuring, Rooting, Converting, Walk
  <2> QED BY <2>1, <2>2
<1>13. CASE DimStore(g)
  <2>1. /\ l = "dstore" /\ f.val = DimIs(f.arg) /\ Measured(g, f, f.val)
        /\ dimCache' = [dimCache EXCEPT ![f.arg] = f.val]
    BY <1>1, <1>13 DEF DimStore, CallOK, DimPart
  <2>2. DimKnown(f.arg)'
    BY <1>1, <2>1, DistinctAssumption DEF DimKnown
  <2> QED BY <1>1, <1>3, <2>1, <2>2, MeasuredOK
<1> QED BY <1>5, <1>6, <1>7, <1>8, <1>10, <1>11, <1>12, <1>13

\* Mismatch, Compiled and factors are answers once the pair itself is known.
LEMMA PairAnswered ==
  ASSUME TypeInv, Grows, NEW f \in Frame, f.req \in Request, SrcParsed(f)', DstParsed(f)',
         NEW x, x = ConvertAnswer(defs, f.req.op, f.src, f.dst),
         PairKnown(f.req.op, f.src, f.dst)'
  PROVE  CallOK("return", [f EXCEPT !.ans = x])'
<1>1. /\ f.src # Undefined /\ f.dst # Undefined /\ defs' = defs
  BY FrameFields, DistinctAssumption DEF Grows
<1>2. /\ f.req.op # "dimensionality"
      /\ f.src = ParseOf[defs][f.req.from] /\ f.dst = ParseOf[defs][f.req.to]
      /\ OperandKnown(f.req.from)' /\ OperandKnown(f.req.to)'
  BY <1>1 DEF SrcParsed, DstParsed
<1>3. x = Expected(defs, f.req)'
  BY <1>1, <1>2 DEF Expected
<1>4. Known(f.req)'
  BY <1>1, <1>2 DEF Known
<1> QED BY <1>3, <1>4, AnswerOK

\* What a call on a pair of operands may use, before and after its step.
LEMMA ConvertingFacts ==
  ASSUME Before, NEW g \in Goroutine, NEW l, NEW f, InCall(g, l, f), Converting(l, f)
  PROVE  /\ f \in Frame /\ f.req \in Request /\ ~stale /\ defs' = defs /\ warmed' = warmed
         /\ CallOK(l, f) /\ CallOK(l, f)' /\ TypeInv /\ KnownInv /\ Grows
         /\ pc[g] = l /\ frame[g] = f
         /\ SrcParsed(f) /\ DstParsed(f) /\ SrcParsed(f)' /\ DstParsed(f)'
         /\ f.src \in Container /\ f.dst \in Container /\ f.a \in Container /\ f.b \in Container
         /\ f.src # f.dst /\ (f.req \in warmed => Known(f.req))
         /\ Mult(f)' = Mult(f) /\ Logarithmic(f)' = Logarithmic(f)
         /\ DimIs(f.src)' = DimIs(f.src) /\ DimIs(f.dst)' = DimIs(f.dst)
         /\ DimIs(f.a)' = DimIs(f.a) /\ DimIs(f.b)' = DimIs(f.b)
         /\ DimKnown(f.src) => DimKnown(f.src)'
         /\ DimKnown(f.dst) => DimKnown(f.dst)'
         /\ DimKnown(f.a) => DimKnown(f.a)'
         /\ Plain(f.src, f.dst)' <=> Mult(f)
         /\ Rejected(f.req.op, f.src, f.dst)' = Rejected(f.req.op, f.src, f.dst)
<1>1. /\ f \in Frame /\ f.req \in Request /\ ~stale /\ defs' = defs /\ warmed' = warmed
      /\ CallOK(l, f) /\ CallOK(l, f)' /\ TypeInv /\ KnownInv /\ Grows
      /\ pc[g] = l /\ frame[g] = f /\ (f.req \in warmed => Known(f.req))
  BY InCallFacts DEF InCall, Before
<1>2. SrcParsed(f) /\ DstParsed(f)
  BY <1>1 DEF CallOK, PairPart
<1>3. SrcParsed(f)' /\ DstParsed(f)' /\ f.src # f.dst
  BY <1>1, <1>2, PairGrows DEF DstParsed
<1>4. f.src \in Container /\ f.dst \in Container /\ f.a \in Container /\ f.b \in Container
  BY <1>1, FrameFields
<1>5. Plain(f.src, f.dst)' <=> Mult(f)
  BY <1>1 DEF Plain, Mult
<1> QED BY <1>1, <1>2, <1>3, <1>4, <1>5, CatalogStays, EntriesGrow

\* The steps that choose between one factor, an offset conversion and a refusal.
LEMMA PairSteps ==
  ASSUME Before, NEW g \in Goroutine, NEW l, NEW f, InCall(g, l, f),
         Dispatch(g) \/ Validate(g) \/ Compare(g)
  PROVE  \E m, f1 : Goto(g, m, f1) /\ CallOK(m, f1)'
<1>0. l \in {"mult", "check", "compare"} /\ Converting(l, f)
  BY DEF InCall, Dispatch, Validate, Compare, Converting
<1>1. /\ f \in Frame /\ f.req \in Request /\ ~stale /\ defs' = defs /\ warmed' = warmed
      /\ CallOK(l, f) /\ CallOK(l, f)' /\ TypeInv /\ KnownInv /\ Grows
      /\ pc[g] = l /\ frame[g] = f
      /\ SrcParsed(f) /\ DstParsed(f) /\ SrcParsed(f)' /\ DstParsed(f)'
      /\ f.src \in Container /\ f.dst \in Container /\ f.a \in Container /\ f.b \in Container
      /\ f.src # f.dst /\ (f.req \in warmed => Known(f.req))
      /\ Mult(f)' = Mult(f) /\ Logarithmic(f)' = Logarithmic(f)
      /\ DimIs(f.src)' = DimIs(f.src) /\ DimIs(f.dst)' = DimIs(f.dst)
      /\ DimIs(f.a)' = DimIs(f.a) /\ DimIs(f.b)' = DimIs(f.b)
      /\ DimKnown(f.src) => DimKnown(f.src)'
      /\ DimKnown(f.dst) => DimKnown(f.dst)'
      /\ DimKnown(f.a) => DimKnown(f.a)'
      /\ Plain(f.src, f.dst)' <=> Mult(f)
      /\ Rejected(f.req.op, f.src, f.dst)' = Rejected(f.req.op, f.src, f.dst)
  BY <1>0, ConvertingFacts
<1>2. /\ DimIs(RefOf[defs][f.src]) = DimIs(f.src) /\ DimIs(RefOf[defs][f.dst]) = DimIs(f.dst)
      /\ RefOf[defs][f.src] \in Container /\ RefOf[defs][f.dst] \in Container
  BY <1>1, TableTypes
<1>3. ASSUME NEW p \in {"path", "affine"}, NEW f1, f1 = MeasureBoth(f, p, f.src),
             IF p = "path" THEN Mult(f) /\ DimIs(f.src) # DimIs(f.dst)
                                /\ DimKnown(f.src) /\ DimKnown(f.dst)
             ELSE AffinePair(f) /\ (f.req \in warmed => DimKnown(f.src))
      PROVE  CallOK("dcheck", f1)'
  <2>1. /\ f1.req = f.req /\ f1.src = f.src /\ f1.dst = f.dst /\ f1.phase = p
        /\ f1.side = "src" /\ f1.arg = f.src /\ Left(f1) = f.src
    BY <1>1, <1>3 DEF MeasureBoth, Frame, Left
  <2>2. SrcParsed(f1)' /\ DstParsed(f1)'
    BY <1>1, <2>1 DEF SrcParsed, DstParsed
  <2>3. PhasePair(f1)'
    BY <1>1, <1>3, <2>1 DEF PhasePair, AffinePair, Mult
  <2>4. f.req \in warmed => DimKnown(f.src)'
    BY <1>1, <1>3
  <2> QED BY <1>1, <2>1, <2>2, <2>3, <2>4
    DEF CallOK, ParsePart, AnswerPart, PairPart, DimPart, ReturnPart, WarmPart,
        Parsing, Measuring, Rooting, Converting, Walk
<1>4. CASE Dispatch(g)
  <2>1. l = "mult" /\ f.a = f.src /\ f.b = f.dst
    BY <1>1, <1>4 DEF Dispatch, CallOK, PairPart, Converting
  <2>2. CASE Mult(f)
    <3>1. FactorPair(f)' /\ Goto(g, "fcheck", f)
      BY <1>1, <1>4, <2>1, <2>2 DEF FactorPair, Dispatch
    <3>2. CallOK("fcheck", f)'
      BY <1>1, <3>1 DEF CallOK, ParsePart, AnswerPart, PairPart, DimPart, ReturnPart, WarmPart,
         Parsing, Measuring, Rooting, Converting, Walk
    <3> QED BY <3>1, <3>2
  <2>3. CASE ~Mult(f) /\ Logarithmic(f) /\ f.req.op = "converter"
    <3>1. Goto(g, "return", [f EXCEPT !.ans = Compiled])
      BY <1>1, <1>4, <2>3 DEF Dispatch, Answer
    <3>2. Compiled = ConvertAnswer(defs, f.req.op, f.src, f.dst)
      BY <1>1, <2>3 DEF ConvertAnswer, Mult, Logarithmic
    <3>3. Rejected(f.req.op, f.src, f.dst)
      BY <2>3 DEF Rejected, Logarithmic
    <3>4. PairKnown(f.req.op, f.src, f.dst)'
      BY <1>1, <2>3, <3>3 DEF PairKnown
    <3> QED BY <1>1, <3>1, <3>2, <3>4, PairAnswered
  <2>4. CASE ~Mult(f) /\ ~(Logarithmic(f) /\ f.req.op = "converter")
    <3>1. Goto(g, "check", f)
      BY <1>1, <1>4, <2>4 DEF Dispatch
    <3>2. CallOK("check", f)'
      BY <1>1, <2>4 DEF CallOK, ParsePart, AnswerPart, PairPart, DimPart, ReturnPart, WarmPart,
         Parsing, Measuring, Rooting, Converting, Walk
    <3> QED BY <3>1, <3>2
  <2> QED BY <2>2, <2>3, <2>4
<1>5. CASE Validate(g)
  <2>1. l = "check" /\ ~Mult(f) /\ ~(f.req.op = "converter" /\ Logarithmic(f))
    BY <1>1, <1>5 DEF Validate, CallOK, PairPart, Converting
  <2>2. CASE {f.src, f.dst} \cap InvalidOf[defs] # {}
    <3>1. Goto(g, "return", [f EXCEPT !.ans = Mismatch])
      BY <1>1, <1>5, <2>2 DEF Validate, Answer
    <3>2. Mismatch = ConvertAnswer(defs, f.req.op, f.src, f.dst)
      BY <1>1, <2>1, <2>2 DEF ConvertAnswer, Mult, Logarithmic
    <3>3. Rejected(f.req.op, f.src, f.dst)
      BY <2>2 DEF Rejected
    <3>4. PairKnown(f.req.op, f.src, f.dst)'
      BY <1>1, <2>1, <3>3 DEF PairKnown
    <3> QED BY <1>1, <3>1, <3>2, <3>4, PairAnswered
  <2>3. CASE {f.src, f.dst} \cap InvalidOf[defs] = {}
    <3>1. PICK f1 : f1 = MeasureBoth(f, "affine", f.src)
      OBVIOUS
    <3>2. Goto(g, "dcheck", f1)
      BY <1>1, <1>5, <2>3, <3>1 DEF Validate
    <3>3. AffinePair(f)
      BY <2>1, <2>3 DEF AffinePair, Rejected, Logarithmic
    <3>4. f.req \in warmed => DimKnown(f.src)
      BY <1>1, <3>3, WarmPair
    <3> QED BY <1>3, <3>1, <3>2, <3>3, <3>4
  <2> QED BY <2>2, <2>3
<1>6. CASE Compare(g)
  <2>1. /\ l = "compare" /\ PhasePair(f)
        /\ f.sd = DimIs(Left(f)) /\ DimKnown(Left(f))
        /\ f.dd = DimIs(Right(f)) /\ DimKnown(Right(f))
        /\ f.req \in warmed /\ f.phase = "factor" => DimIs(f.a) # DimIs(f.b)
    BY <1>1, <1>6 DEF Compare, CallOK, DimPart, WarmPart
  <2>2. f.phase \in {"factor", "path", "affine"}
    BY <1>1, <2>1, FrameFields DEF PhasePair
  <2>3. ASSUME Mismatch = ConvertAnswer(defs, f.req.op, f.src, f.dst),
               PairKnown(f.req.op, f.src, f.dst)', Answer(g, f, Mismatch)
        PROVE  \E m, f1 : Goto(g, m, f1) /\ CallOK(m, f1)'
    BY <1>1, <2>3, PairAnswered DEF Answer
  <2>4. CASE f.phase = "factor" /\ f.sd = f.dd
    <3>1. Goto(g, "rcheck", f) /\ FactorPair(f) /\ DimIs(f.a) = DimIs(f.b) /\ f.req \notin warmed
      BY <1>1, <1>6, <2>1, <2>4 DEF Compare, PhasePair, Left, Right
    <3>2. FactorPair(f)'
      BY <1>1, <3>1, PairGrows
    <3>3. CallOK("rcheck", f)'
      BY <1>1, <3>1, <3>2
      DEF CallOK, ParsePart, AnswerPart, PairPart, DimPart, ReturnPart, WarmPart,
          Parsing, Measuring, Rooting, Converting, Walk
    <3> QED BY <3>1, <3>3
  <2>5. CASE f.phase = "factor" /\ f.sd # f.dd
    <3>1. FactorPair(f) /\ DimIs(f.a) # DimIs(f.b) /\ DimKnown(f.a) /\ DimKnown(f.b)
      BY <2>1, <2>5 DEF PhasePair, Left, Right
    <3>2. Mult(f) /\ f.a = f.src /\ f.b = f.dst
      BY <1>2, <3>1 DEF FactorPair
    <3>3. PICK f1 : f1 = MeasureBoth(f, "path", f.src)
      OBVIOUS
    <3>4. Goto(g, "dcheck", f1)
      BY <1>1, <1>6, <2>5, <3>2, <3>3 DEF Compare
    <3> QED BY <1>3, <3>1, <3>2, <3>3, <3>4
  <2>6. CASE f.phase = "path"
    <3>1. /\ Mult(f) /\ DimIs(f.src) # DimIs(f.dst) /\ DimKnown(f.src) /\ DimKnown(f.dst)
      BY <2>1, <2>6 DEF PhasePair
    <3>2. Answer(g, f, Mismatch)
      BY <1>1, <1>6, <2>6 DEF Compare
    <3>3. Mismatch = ConvertAnswer(defs, f.req.op, f.src, f.dst)
      BY <1>1, <3>1 DEF ConvertAnswer, Mult, SameDim, DimIs
    <3>4. PairKnown(f.req.op, f.src, f.dst)'
      BY <1>1, <3>1 DEF PairKnown
    <3> QED BY <2>3, <3>2, <3>3, <3>4
  <2>7. CASE f.phase = "affine"
    <3>1. /\ AffinePair(f) /\ Left(f) = f.src /\ Right(f) = f.dst
      BY <2>1, <2>7 DEF PhasePair, Left, Right
    <3>2. ~Mult(f) /\ ~Rejected(f.req.op, f.src, f.dst)
      BY <3>1 DEF AffinePair
    <3>3. CASE f.sd = f.dd /\ <<f.src, f.dst>> \notin DeltaMixOf[defs]
      <4>1. PICK f1 : f1 = References(f)
        OBVIOUS
      <4>2. Goto(g, "fcheck", f1)
        BY <1>1, <1>6, <2>7, <3>3, <4>1 DEF Compare
      <4>3. /\ f1.req = f.req /\ f1.src = f.src /\ f1.dst = f.dst
            /\ f1.a = RefOf[defs][f.src] /\ f1.b = RefOf[defs][f.dst]
        BY <1>1, <4>1 DEF References, Frame
      <4>4. SrcParsed(f1)' /\ DstParsed(f1)' /\ (Mult(f1)' <=> Mult(f)')
        BY <1>1, <4>3 DEF SrcParsed, DstParsed, Mult
      <4>5. FactorPair(f1)'
        BY <1>1, <2>1, <3>1, <3>2, <3>3, <4>3, <4>4 DEF FactorPair
      <4>6. CallOK("fcheck", f1)'
        BY <1>1, <4>3, <4>4, <4>5
        DEF CallOK, ParsePart, AnswerPart, PairPart, DimPart, ReturnPart, WarmPart,
            Parsing, Measuring, Rooting, Converting, Walk
      <4> QED BY <4>2, <4>6
    <3>4. CASE ~(f.sd = f.dd /\ <<f.src, f.dst>> \notin DeltaMixOf[defs])
      <4>1. Answer(g, f, Mismatch)
        BY <1>1, <1>6, <2>7, <3>4 DEF Compare
      <4>2. DimIs(f.src) # DimIs(f.dst) \/ <<f.src, f.dst>> \in DeltaMixOf[defs]
        BY <2>1, <3>1, <3>4
      <4>3. Mismatch = ConvertAnswer(defs, f.req.op, f.src, f.dst)
        BY <1>1, <3>2, <4>2 DEF ConvertAnswer, Mult, SameDim, DimIs, Rejected
      <4>4. PairKnown(f.req.op, f.src, f.dst)'
        BY <1>1, <2>1, <3>1, <3>2, <4>2 DEF PairKnown
      <4> QED BY <2>3, <4>1, <4>3, <4>4
    <3> QED BY <3>3, <3>4
  <2> QED BY <2>2, <2>4, <2>5, <2>6, <2>7
<1> QED BY <1>4, <1>5, <1>6

\* The steps of conversionFactor: only pairs of one dimension reach a root walk.
LEMMA FactorSteps ==
  ASSUME Before, NEW g \in Goroutine, NEW l, NEW f, InCall(g, l, f),
         \/ FactorCheck(g) \/ RootEmpty(g) \/ RootCheck(g) \/ RootWalked(g)
         \/ RootStore(g) \/ FactorStore(g)
  PROVE  \E m, f1 : Goto(g, m, f1) /\ CallOK(m, f1)'
<1>0. Converting(l, f) /\ (l = "fcheck" \/ Rooting(l, f))
  BY DEF InCall, FactorCheck, RootEmpty, RootCheck, RootWalked, RootStore, FactorStore, Converting,
     Rooting, Walk
<1>1. /\ f \in Frame /\ f.req \in Request /\ ~stale /\ defs' = defs /\ warmed' = warmed
      /\ CallOK(l, f) /\ TypeInv /\ KnownInv /\ Grows
      /\ pc[g] = l /\ frame[g] = f
      /\ SrcParsed(f) /\ DstParsed(f) /\ SrcParsed(f)' /\ DstParsed(f)'
      /\ f.a \in Container /\ f.b \in Container
      /\ (f.req \in warmed => Known(f.req))
      /\ DimIs(f.a)' = DimIs(f.a) /\ DimIs(f.b)' = DimIs(f.b)
      /\ DimKnown(f.a) => DimKnown(f.a)'
  BY <1>0, ConvertingFacts
<1>2. /\ FactorPair(f) /\ FactorPair(f)'
      /\ Rooting(l, f) => DimIs(f.a) = DimIs(f.b) /\ f.req \notin warmed
  <2>1. FactorPair(f) /\ (Rooting(l, f) => DimIs(f.a) = DimIs(f.b))
    BY <1>0, <1>1 DEF CallOK, PairPart
  <2>2. Rooting(l, f) => f.req \notin warmed
    BY <1>1 DEF CallOK, WarmPart, Rooting, Walk
  <2> QED BY <1>1, <2>1, <2>2, PairGrows
<1>3. ASSUME NEW m, NEW f1, Rooting(m, f1), Rooting(l, f), f1.req = f.req, f1.src = f.src,
             f1.dst = f.dst, f1.a = f.a, f1.b = f.b
      PROVE  CallOK(m, f1)'
  <2>1. SrcParsed(f1)' /\ DstParsed(f1)' /\ FactorPair(f1)'
    BY <1>1, <1>2, <1>3 DEF SrcParsed, DstParsed, FactorPair, Mult
  <2> QED BY <1>1, <1>2, <1>3, <2>1
    DEF CallOK, ParsePart, AnswerPart, PairPart, DimPart, ReturnPart, WarmPart,
        Parsing, Measuring, Rooting, Converting, Walk
<1>4. CASE FactorCheck(g)
  <2>1. FactorKey(f) = <<f.a, f.b>> /\ convCache[<<f.a, f.b>>] \in
          {Absent, FactorOf[defs][Ratio[f.a][f.b]]}
    BY <1>1 DEF FactorKey, Before, FactorInv, FactorsCoherent
  <2>2. CASE FactorKnown(f.a, f.b)
    <3>1. Factored(g, f, convCache[<<f.a, f.b>>])
      BY <1>1, <1>4, <2>1, <2>2 DEF FactorCheck, FactorKnown
    <3>2. convCache[<<f.a, f.b>>] = FactorOf[defs][Ratio[f.a][f.b]]
      BY <2>1, <2>2 DEF FactorKnown
    <3>3. DimIs(f.a) = DimIs(f.b) /\ FactorKnown(f.a, f.b)'
      BY <1>1, <2>2, EntriesGrow DEF KnownInv
    <3> QED BY <1>1, <1>2, <3>1, <3>2, <3>3, FactoredOK
  <2>3. CASE ~FactorKnown(f.a, f.b)
    <3> DEFINE f1 == MeasureBoth(f, "factor", f.a)
    <3>1. Goto(g, "dcheck", f1)
      BY <1>1, <1>4, <2>1, <2>3 DEF FactorCheck, FactorKnown
    <3>2. /\ f1.req = f.req /\ f1.src = f.src /\ f1.dst = f.dst /\ f1.a = f.a /\ f1.b = f.b
          /\ f1.phase = "factor" /\ f1.side = "src" /\ f1.arg = f.a /\ Left(f1) = f.a
      BY <1>1 DEF MeasureBoth, Frame, Left
    <3> HIDE DEF f1
    <3>3. SrcParsed(f1)' /\ DstParsed(f1)' /\ PhasePair(f1)'
      BY <1>1, <1>2, <3>2 DEF SrcParsed, DstParsed, PhasePair, FactorPair, Mult
    <3>4. f.req \in warmed => DimIs(f.a) # DimIs(f.b) /\ DimKnown(f.a)
      BY <1>1, <1>2, <2>3, WarmFactor
    <3>5. CallOK("dcheck", f1)'
      BY <1>1, <3>2, <3>3, <3>4
      DEF CallOK, ParsePart, AnswerPart, PairPart, DimPart, ReturnPart, WarmPart,
          Parsing, Measuring, Rooting, Converting, Walk
    <3> QED BY <3>1, <3>5
  <2> QED BY <2>2, <2>3
<1>5. CASE RootEmpty(g)
  <2>0. PICK f1 : f1 = [f EXCEPT !.val = FactorOf[defs][Empty]]
    OBVIOUS
  <2>1. Goto(g, "fstore", f1) /\ l = "rcheck"
    BY <1>1, <1>5, <2>0 DEF RootEmpty
  <2>2. /\ f1.req = f.req /\ f1.src = f.src /\ f1.dst = f.dst /\ f1.a = f.a /\ f1.b = f.b
    BY <1>1, <2>0 DEF Frame
  <2> QED BY <1>3, <2>1, <2>2 DEF Rooting
<1>6. CASE RootCheck(g)
  <2>0. PICK r : r = Ratio[f.a][f.b]
    OBVIOUS
  <2>1. PICK hit, miss : /\ hit = [f EXCEPT !.val = rootCache[r]]
                         /\ miss = [f EXCEPT !.kind = "root", !.arg = r,
                                             !.todo = WalkOf[defs][r], !.skipped = {}]
    OBVIOUS
  <2>2. l = "rcheck" /\ (Goto(g, "fstore", hit) \/ Goto(g, "look", miss))
    BY <1>1, <1>6, <2>0, <2>1 DEF RootCheck
  <2>3. /\ hit.req = f.req /\ hit.src = f.src /\ hit.dst = f.dst /\ hit.a = f.a /\ hit.b = f.b
        /\ miss.req = f.req /\ miss.src = f.src /\ miss.dst = f.dst /\ miss.a = f.a /\ miss.b = f.b
        /\ miss.kind = "root"
    BY <1>1, <2>1 DEF Frame
  <2> QED BY <1>3, <2>2, <2>3 DEF Rooting, Walk
<1>7. CASE RootWalked(g)
  <2>0. PICK f1 : f1 = [f EXCEPT !.val = FactorOf[defs][f.arg]]
    OBVIOUS
  <2>1. Goto(g, "rstore", f1) /\ l = "look" /\ f.kind = "root"
    BY <1>1, <1>7, <2>0 DEF RootWalked
  <2>2. /\ f1.req = f.req /\ f1.src = f.src /\ f1.dst = f.dst /\ f1.a = f.a /\ f1.b = f.b
    BY <1>1, <2>0 DEF Frame
  <2> QED BY <1>3, <2>1, <2>2 DEF Rooting, Walk
<1>8. CASE RootStore(g)
  <2>1. Goto(g, "fstore", f) /\ l = "rstore"
    BY <1>1, <1>8 DEF RootStore
  <2> QED BY <1>3, <2>1 DEF Rooting
<1>9. CASE FactorStore(g)
  <2>1. /\ Rooting(l, f) /\ l = "fstore" /\ Factored(g, f, f.val)
        /\ convCache' = [convCache EXCEPT ![<<f.a, f.b>>] = f.val]
    BY <1>1, <1>9 DEF FactorStore, FactorKey, Rooting
  <2>2. f.val = FactorOf[defs][Ratio[f.a][f.b]]
    BY <1>1, <2>1 DEF Before, FactorInv, FactorInHand
  <2>3. FactorKnown(f.a, f.b)'
    <3>1. f.val \in Factor
      BY <2>1 DEF InCall, RegistersOK
    <3>2. convCache \in [Container \X Container -> Factor \cup {Absent}]
      BY <1>1 DEF TypeInv, TypeOK
    <3>3. convCache'[<<f.a, f.b>>] = f.val
      BY <1>1, <2>1, <3>2
    <3> QED BY <3>1, <3>3, DistinctAssumption DEF FactorKnown
  <2> QED BY <1>1, <1>2, <2>1, <2>2, <2>3, FactoredOK
<1> QED BY <1>4, <1>5, <1>6, <1>7, <1>8, <1>9

-----------------------------------------------------------------------------
(* The parts of the invariant, step by step *)

\* A step of a call changes the caches only by filling entries.
LEMMA StepGrows ==
  ASSUME TypeInv, NEW g \in Goroutine, Step(g)
  PROVE  Grows /\ (warmed' = warmed \/ Return(g)) /\ stale' = stale
<1> DEFINE f == frame[g]
<1>1. /\ RegistersOK(pc[g], f) /\ f \in Frame /\ f.arg \in Container
      /\ f.a \in Container /\ f.b \in Container /\ defs \in Catalog
      /\ parseCache \in [Expr -> Container \cup {Absent}]
      /\ dimCache \in [Container -> Dim \cup {Absent}]
      /\ convCache \in [Container \X Container -> Factor \cup {Absent}]
  BY FrameFields DEF TypeInv, TypeOK, Registers
<1> HIDE DEF f
<1>2. CASE UNCHANGED <<defs, maps, caches, warmed, stale>>
  BY <1>2 DEF Grows, maps, caches
<1>3. CASE ParseDone(g)
  <2>1. defs' = defs /\ byName' = byName /\ dimCache' = dimCache /\ convCache' = convCache
        /\ warmed' = warmed /\ stale' = stale
    BY <1>3 DEF ParseDone, maps, history
  <2>2. \/ parseCache' = parseCache
        \/ /\ parseCache' = [parseCache EXCEPT ![Operand(f)] = ParseOf[defs][Operand(f)]]
           /\ ParseOf[defs][Operand(f)] # Undefined
    BY <1>3 DEF ParseDone, f
  <2>3. f.req \in Request
    BY <1>1, <1>3, LoadIsNoRequest DEF ParseDone, RegistersOK, f
  <2>4. ParseOf[defs][Operand(f)] \in Container \cup {Undefined}
    BY <1>1, <2>3, OperandType, TableTypes
  <2>5. \A e \in Expr : parseCache[e] # Absent => parseCache'[e] # Absent
    BY <1>1, <2>2, <2>4, DistinctAssumption
  <2> QED BY <2>1, <2>5 DEF Grows
<1>4. CASE InternName(g) \/ InternUnit(g) \/ RootStore(g)
  BY <1>4 DEF InternName, InternUnit, RootStore, Grows, maps, caches, history
<1>5. CASE DimWrite(g) \/ DimStore(g)
  <2>1. /\ defs' = defs /\ byName' = byName /\ parseCache' = parseCache /\ convCache' = convCache
        /\ warmed' = warmed /\ stale' = stale
        /\ dimCache' = [dimCache EXCEPT ![f.arg] = f.val] /\ pc[g] \in {"dwrite", "dstore"}
    BY <1>5 DEF DimWrite, DimStore, maps, history, f
  <2>2. f.val \in Dim
    BY <1>1, <2>1 DEF RegistersOK
  <2>3. \A u \in Container : dimCache[u] # Absent => dimCache'[u] # Absent
    BY <1>1, <2>1, <2>2, DistinctAssumption
  <2> QED BY <2>1, <2>3 DEF Grows
<1>6. CASE FactorStore(g)
  <2>1. /\ defs' = defs /\ byName' = byName /\ parseCache' = parseCache /\ dimCache' = dimCache
        /\ warmed' = warmed /\ stale' = stale
        /\ convCache' = [convCache EXCEPT ![<<f.a, f.b>>] = f.val] /\ pc[g] = "fstore"
    BY <1>6 DEF FactorStore, FactorKey, maps, history, f
  <2>2. f.val \in Factor
    BY <1>1, <2>1 DEF RegistersOK
  <2>3. \A k \in Container \X Container : convCache[k] # Absent => convCache'[k] # Absent
    BY <1>1, <2>1, <2>2, DistinctAssumption
  <2> QED BY <2>1, <2>3 DEF Grows
<1>7. CASE Return(g)
  BY <1>7 DEF Return, Grows, maps, caches
<1>8. CASE \/ ParseHit(g) \/ ParseMiss(g) \/ Look(g) \/ ReadName(g) \/ DimEmpty(g)
           \/ DimCheck(g) \/ DimRead(g) \/ DimWalked(g) \/ Dispatch(g) \/ Validate(g)
           \/ Compare(g) \/ FactorCheck(g) \/ RootEmpty(g) \/ RootCheck(g) \/ RootWalked(g)
  <2>1. UNCHANGED <<defs, maps, caches, history>>
    BY <1>8 DEF ParseHit, ParseMiss, Look, ReadName, DimEmpty, DimCheck, DimRead, DimWalked,
       Dispatch, Validate, Compare, FactorCheck, RootEmpty, RootCheck, RootWalked
  <2> QED BY <1>2, <2>1 DEF history
<1> QED BY <1>3, <1>4, <1>5, <1>6, <1>7, <1>8 DEF Step

\* Steps outside a walk start none in its middle, and no step skips a name or ends a
\* call before it returns.
Onward(g, f) == \E l, f1 : Goto(g, l, f1) /\ l # "read" /\ l # "put2" /\ l # "idle"
                            /\ f1.skipped \in {f.skipped, {}}

\* The shared ends of the steps are such steps.
LEMMA OnwardEnds ==
  ASSUME NEW f \in Frame, NEW g \in Goroutine, NEW x
  PROVE  /\ Parsed(g, f, x) => Onward(g, f)
         /\ Measured(g, f, x) => Onward(g, f)
         /\ Factored(g, f, x) => Onward(g, f)
         /\ Answer(g, f, x) => Onward(g, f)
<1>1. /\ [f EXCEPT !.ans = x].skipped = f.skipped
      /\ [f EXCEPT !.rounds = 1].skipped = f.skipped
      /\ [f EXCEPT !.dd = x].skipped = f.skipped
      /\ [f EXCEPT !.sd = x, !.side = "dst",
            !.arg = IF f.phase = "factor" THEN f.b ELSE f.dst].skipped = f.skipped
      /\ [f EXCEPT !.arg = x, !.phase = "answer"].skipped = f.skipped
      /\ [f EXCEPT !.src = x, !.a = x, !.side = "dst"].skipped = f.skipped
      /\ [f EXCEPT !.dst = x, !.b = x].skipped = f.skipped
      /\ [[f EXCEPT !.dst = x, !.b = x] EXCEPT !.ans = Identity].skipped = f.skipped
  BY DEF Frame
<1>2. Answer(g, f, x) => Onward(g, f)
  BY <1>1 DEF Answer, Onward
<1>3. Measured(g, f, x) => Onward(g, f)
  BY <1>1, <1>2 DEF Measured, Onward
<1>4. Factored(g, f, x) => Onward(g, f)
  BY <1>1, <1>2 DEF Factored, Onward
<1>5. Parsed(g, f, x) => Onward(g, f)
  BY <1>1 DEF Parsed, Answer, Onward
<1> QED BY <1>2, <1>3, <1>4, <1>5

\* So is every step of a call or a Load that is not part of a walk and does not end it.
LEMMA StepOnward ==
  ASSUME TypeInv, NEW g \in Goroutine, Step(g) \/ LoadStep(g),
         ~(Look(g) \/ InternUnit(g) \/ InternName(g) \/ ReadName(g) \/ Return(g)
           \/ LoadSucceed(g) \/ LoadFail(g))
  PROVE  Onward(g, frame[g])
<1> DEFINE f == frame[g]
<1>0. f \in Frame
  BY DEF TypeInv, TypeOK
<1> HIDE DEF f
<1>1. CASE ParseHit(g) \/ ParseDone(g)
  BY <1>0, <1>1, OnwardEnds DEF ParseHit, ParseDone, f
<1>2. CASE ParseMiss(g)
  <2>1. [f EXCEPT !.kind = "parse", !.skipped = {},
                  !.todo = InternsOf[defs][Operand(f)]].skipped = {}
    BY <1>0 DEF Frame
  <2> QED BY <1>2, <2>1 DEF ParseMiss, Lock, Onward, f
<1>3. CASE DimEmpty(g) \/ DimStore(g)
  BY <1>0, <1>3, OnwardEnds DEF DimEmpty, DimStore, f
<1>4. CASE DimCheck(g)
  <2>1. [f EXCEPT !.kind = "dim"].skipped = f.skipped
    BY <1>0 DEF Frame
  <2> QED BY <1>0, <1>4, <2>1, OnwardEnds DEF DimCheck, Onward, f
<1>5. CASE DimRead(g)
  <2>1. /\ [f EXCEPT !.todo = WalkOf[defs][f.arg], !.skipped = {}].skipped = {}
        /\ [f EXCEPT !.val = dimCache[f.arg]].skipped = f.skipped
    BY <1>0 DEF Frame
  <2> QED BY <1>5, <2>1 DEF DimRead, Onward, f
<1>6. CASE DimWalked(g)
  <2>1. [f EXCEPT !.val = DimOf[defs][f.arg][f.skipped]].skipped = f.skipped
    BY <1>0 DEF Frame
  <2> QED BY <1>6, <2>1 DEF DimWalked, Onward, f
<1>7. CASE DimWrite(g) \/ RootStore(g)
  BY <1>7 DEF DimWrite, RootStore, Onward, f
<1>8. CASE Dispatch(g)
  BY <1>0, <1>8, OnwardEnds DEF Dispatch, Onward, f
<1>9. CASE Validate(g)
  <2>1. MeasureBoth(f, "affine", f.src).skipped = f.skipped
    BY <1>0 DEF MeasureBoth, Frame
  <2> QED BY <1>0, <1>9, <2>1, OnwardEnds DEF Validate, Onward, f
<1>10. CASE Compare(g)
  <2>1. /\ MeasureBoth(f, "path", f.src).skipped = f.skipped
        /\ References(f).skipped = f.skipped
    BY <1>0 DEF MeasureBoth, References, Frame
  <2>2. \/ Answer(g, f, Mismatch) \/ Goto(g, "dcheck", MeasureBoth(f, "path", f.src))
        \/ Goto(g, "rcheck", f) \/ Goto(g, "fcheck", References(f))
    BY <1>10 DEF Compare, f
  <2>3. Answer(g, f, Mismatch) => Onward(g, f)
    BY <1>0, OnwardEnds
  <2> QED BY <2>1, <2>2, <2>3 DEF Onward, f
<1>11. CASE FactorCheck(g)
  <2>1. MeasureBoth(f, "factor", f.a).skipped = f.skipped
    BY <1>0 DEF MeasureBoth, Frame
  <2>2. \/ Factored(g, f, convCache[FactorKey(f)])
        \/ Goto(g, "dcheck", MeasureBoth(f, "factor", f.a))
    BY <1>11 DEF FactorCheck, f
  <2>3. Factored(g, f, convCache[FactorKey(f)]) => Onward(g, f)
    BY <1>0, OnwardEnds
  <2> QED BY <2>1, <2>2, <2>3 DEF Onward, f
<1>12. CASE FactorStore(g)
  BY <1>0, <1>12, OnwardEnds DEF FactorStore, f
<1>13. CASE RootEmpty(g)
  <2>1. [f EXCEPT !.val = FactorOf[defs][Empty]].skipped = f.skipped
    BY <1>0 DEF Frame
  <2> QED BY <1>13, <2>1 DEF RootEmpty, Onward, f
<1>14. CASE RootCheck(g)
  <2> DEFINE r == Ratio[f.a][f.b]
             hit == [f EXCEPT !.val = rootCache[r]]
             miss == [f EXCEPT !.kind = "root", !.arg = r,
                               !.todo = WalkOf[defs][r], !.skipped = {}]
  <2>1. hit.skipped = f.skipped /\ miss.skipped = {}
    BY <1>0 DEF Frame
  <2>2. Goto(g, "fstore", hit) \/ Goto(g, "look", miss)
    BY <1>14 DEF RootCheck, f
  <2> HIDE DEF hit, miss
  <2>3. /\ "fstore" # "read" /\ "look" # "read" /\ "fstore" # "put2" /\ "look" # "put2"
        /\ "fstore" # "idle" /\ "look" # "idle"
    OBVIOUS
  <2>4. Goto(g, "fstore", hit) => Onward(g, f)
    BY <2>1, <2>3 DEF Onward
  <2>5. Goto(g, "look", miss) => Onward(g, f)
    BY <2>1, <2>3 DEF Onward
  <2> QED BY <2>2, <2>4, <2>5 DEF f
<1>15. CASE RootWalked(g)
  <2>1. [f EXCEPT !.val = FactorOf[defs][f.arg]].skipped = f.skipped
    BY <1>0 DEF Frame
  <2> QED BY <1>15, <2>1 DEF RootWalked, Onward, f
<1>16. ASSUME NEW c \in Catalog, LoadApply(g, c) PROVE Onward(g, f)
  <2>1. [f EXCEPT !.kind = "load", !.arg = HeaderOf[c]].skipped = f.skipped
    BY <1>0 DEF Frame
  <2> QED BY <1>16, <2>1 DEF LoadApply, Onward, f
<1> QED BY <1>1, <1>2, <1>3, <1>4, <1>5, <1>6, <1>7, <1>8, <1>9, <1>10, <1>11, <1>12, <1>13,
     <1>14, <1>15, <1>16 DEF Step, LoadStep, f

\* A walk of a call or of a Load finds every name it looks for: a name in r.units that is
\* not yet in r.unitByName is on its way there in the hands of the only one who walks.
LEMMA WalkPartStep ==
  ASSUME TypeInv, WarmInv, NEW g \in Goroutine, Acts(g), pc'[g] # "idle"
  PROVE  WalkPart(pc[g], frame[g])'
<1> DEFINE f == frame[g]
<1>0. f \in Frame /\ (pc[g] # "idle" => WalkPart(pc[g], f))
  BY DEF TypeInv, TypeOK, WarmInv, CallsInv
<1>a. \A l, f1 : Goto(g, l, f1) => pc'[g] = l /\ frame'[g] = f1
  BY GotoEffect
<1>b. frame'[g].skipped = {} /\ (pc'[g] = "read" => Head(frame'[g].todo) \in byName')
  <2>1. CASE Look(g) \/ InternUnit(g)
    <3>1. units = byName /\ f.skipped = {}
      BY <1>0, <2>1, NoOtherIntern DEF Look, InternUnit, WalkPart
    <3>2. frame'[g] = f /\ (pc'[g] = "read" => Head(f.todo) \in units) /\ byName' = byName
      BY <1>a, <2>1 DEF Look, InternUnit, Key, maps
    <3> QED BY <3>1, <3>2
  <2>2. CASE InternName(g)
    BY <1>0, <1>a, <2>2 DEF InternName, Key, WalkPart
  <2>3. CASE ReadName(g)
    <3>1. Goto(g, "look", Forward(f)) /\ f.skipped = {}
      BY <1>0, <2>3 DEF ReadName, WalkPart, Key
    <3>2. Forward(f).skipped = f.skipped
      BY <1>0 DEF Forward, Frame
    <3> QED BY <1>a, <3>1, <3>2
  <2>4. CASE Return(g) \/ LoadSucceed(g) \/ LoadFail(g)
    BY <1>a, <2>4 DEF Return, LoadSucceed, LoadFail
  <2>5. CASE LoadBegin(g) \/ \E q \in Request : Begin(g, q)
    <3>1. \A q : NewFrame(q).skipped = {}
      BY DEF NewFrame
    <3> QED BY <1>a, <2>5, <3>1 DEF LoadBegin, Begin
  <2>6. CASE Step(g) \/ LoadStep(g)
    <3>1. f.skipped = {}
      BY <1>0, <2>6, StepRequest DEF WalkPart
    <3> QED BY <1>a, <2>1, <2>2, <2>3, <2>4, <2>6, <3>1, StepOnward DEF Onward
  <2> QED BY <2>5, <2>6 DEF Acts
<1> QED BY <1>b DEF WalkPart

\* A unit is in both maps, or being interned, and stays in r.unitByName for good.
LEMMA InternedStep ==
  ASSUME TypeInv, WarmInv, NEW g \in Goroutine, Acts(g)
  PROVE  Interned' /\ byName \subseteq byName'
<1>a. \A l, f1 : Goto(g, l, f1) => pc'[g] = l /\ frame'[g] = f1
  BY GotoEffect
<1>b. \A h \in Goroutine \ {g} : pc'[h] = pc[h] /\ frame'[h] = frame[h]
  BY StepRegisters, LoadStepRegisters, BeginRegisters, GotoEffect DEF Acts
<1>c. /\ byName \subseteq units
      /\ \A n \in units \ byName : \E h \in Goroutine : pc[h] = "put2" /\ Key(h) = n
      /\ \A h \in Goroutine : pc[h] = "put2" => Key(h) \in units
  BY DEF WarmInv, Interned
<1>1. CASE InternUnit(g)
  <2>1. units = byName /\ byName' = byName /\ units' = units \cup {Key(g)}
    BY <1>1, NoOtherIntern DEF InternUnit
  <2>2. Key(g) \notin units => pc'[g] = "put2" /\ Key(g)' = Key(g)
    BY <1>a, <1>1 DEF InternUnit, Key
  <2>3. \A n \in units' \ byName' : pc'[g] = "put2" /\ Key(g)' = n
    BY <2>1, <2>2
  <2>4. \A h \in Goroutine : pc'[h] = "put2" => h = g
    <3>1. \A h \in Goroutine : pc[h] # "put2"
      BY <1>1, NoOtherPut DEF InternUnit
    <3> QED BY <1>b, <3>1
  <2>5. pc'[g] = "put2" => Key(g)' \in units'
    BY <1>a, <1>1, <2>1 DEF InternUnit, Key
  <2> QED BY <2>1, <2>3, <2>4, <2>5 DEF Interned
<1>2. CASE InternName(g)
  <2>1. units' = units /\ byName' = byName \cup {Key(g)} /\ pc[g] = "put2"
    BY <1>2 DEF InternName
  <2>2. Key(g) \in units /\ pc'[g] = "read"
    BY <1>a, <1>c, <1>2, <2>1 DEF InternName
  <2>3. \A h \in Goroutine : h # g => pc'[h] = pc[h] /\ Key(h)' = Key(h)
    BY <1>b DEF Key
  <2> QED BY <1>c, <2>1, <2>2, <2>3 DEF Interned
<1>3. CASE ~InternUnit(g) /\ ~InternName(g)
  <2>1. units' = units /\ byName' = byName
    BY <1>3 DEF Acts, Step, LoadStep, Begin, LoadBegin, LoadApply, LoadSucceed, LoadFail, ParseHit,
       ParseMiss, ParseDone, Look, ReadName, DimEmpty, DimCheck, DimRead, DimWalked, DimWrite,
       DimStore, Dispatch, Validate, Compare, FactorCheck, RootEmpty, RootCheck, RootWalked,
       RootStore, FactorStore, Return, maps
  <2>2. pc[g] # "put2"
    BY <1>3 DEF Acts, Step, LoadStep, Begin, LoadBegin, LoadApply, LoadSucceed, LoadFail, ParseHit,
       ParseMiss, ParseDone, Look, ReadName, DimEmpty, DimCheck, DimRead, DimWalked, DimWrite,
       DimStore, Dispatch, Validate, Compare, FactorCheck, RootEmpty, RootCheck, RootWalked,
       RootStore, FactorStore, Return, Idle
  <2>3. pc'[g] # "put2"
    <3>1. CASE Return(g) \/ LoadSucceed(g) \/ LoadFail(g)
      BY <1>a, <3>1 DEF Return, LoadSucceed, LoadFail
    <3>2. CASE Look(g) \/ ReadName(g)
      BY <1>a, <3>2 DEF Look, ReadName, Answer
    <3>3. CASE LoadBegin(g) \/ \E q \in Request : Begin(g, q)
      BY <1>a, <3>3 DEF LoadBegin, Begin
    <3>4. CASE Step(g) \/ LoadStep(g)
      BY <1>a, <1>3, <3>1, <3>2, <3>4, StepOnward DEF Onward
    <3> QED BY <3>3, <3>4 DEF Acts
  <2>4. \A h \in Goroutine : pc[h] = "put2" => pc'[h] = "put2" /\ Key(h)' = Key(h)
    BY <1>b, <2>2 DEF Key
  <2>5. \A h \in Goroutine : pc'[h] = "put2" => pc[h] = "put2" /\ Key(h)' = Key(h)
    BY <1>b, <2>3 DEF Key
  <2> QED BY <1>c, <2>1, <2>4, <2>5 DEF Interned
<1> QED BY <1>1, <1>2, <1>3

\* The only access to a map that a warm call makes is a read.
LEMMA RaceFree ==
  ASSUME TypeInv, WarmInv
  PROVE  NoDataRace
<1>1. ASSUME NEW g \in Goroutine, NEW h \in Goroutine, g # h,
             pc[g] # "idle", pc[h] # "idle"
      PROVE  \A x \in Access(g) : ~x.write
  <2>1. frame[g].req \in warmed /\ frame[g].req \in Request
    BY <1>1 DEF WarmInv, Exclusive, TypeInv, TypeOK
  <2>2. pc[g] \notin {"put1", "put2", "dwrite", "dstore"}
    BY <1>1, <2>1 DEF WarmInv, CallsInv, CallOK, WarmPart
  <2> QED BY <2>2 DEF Access, Acc
<1>2. \A g \in Goroutine : pc[g] = "idle" => Access(g) = {}
  BY DEF Access
<1>3. ASSUME NEW g \in Goroutine, NEW h \in Goroutine, g # h, Race(g, h) PROVE FALSE
  <2>1. pc[g] # "idle" /\ pc[h] # "idle"
    BY <1>2, <1>3 DEF Race
  <2> QED BY <1>1, <1>3, <2>1 DEF Race
<1> QED BY <1>3 DEF NoDataRace

\* What WarmNext allows one goroutine to do.
WarmActs(g) == \/ \E q \in Request : MayBegin(g, q) /\ Begin(g, q)
               \/ Step(g) \/ LoadBegin(g) \/ LoadStep(g)

\* These are steps of Next, of one goroutine.
LEMMA WarmActsAct ==
  ASSUME TypeInv, NEW g \in Goroutine, WarmActs(g)
  PROVE  /\ Acts(g)
         /\ \A h \in Goroutine \ {g} : pc'[h] = pc[h] /\ frame'[h] = frame[h]
         /\ \A l, f1 : Goto(g, l, f1) => pc'[g] = l /\ frame'[g] = f1
<1>1. Acts(g)
  BY DEF WarmActs, Acts
<1> QED BY <1>1, StepRegisters, LoadStepRegisters, BeginRegisters, GotoEffect DEF Acts

\* A goroutine inside a Load.
LEMMA LoadAlone ==
  ASSUME TypeInv, LoadsAlone, NEW g \in Goroutine, LoadStep(g)
  PROVE  /\ frame[g].req = LoadRequest /\ pc[g] \in {"load", "loadend"}
         /\ \A h \in Goroutine \ {g} : pc[h] = "idle" /\ pc'[h] = "idle" /\ frame'[h] = frame[h]
<1>1. RegistersOK(pc[g], frame[g]) /\ pc[g] \in {"load", "loadend"}
  BY DEF TypeInv, Registers, LoadStep, LoadApply, LoadSucceed, LoadFail
<1>2. frame[g].req = LoadRequest
  BY <1>1 DEF RegistersOK
<1>3. \A h \in Goroutine \ {g} : pc[h] = "idle"
  BY <1>1, <1>2 DEF LoadsAlone
<1>4. \A h \in Goroutine \ {g} : pc'[h] = pc[h] /\ frame'[h] = frame[h]
  BY LoadStepRegisters, GotoEffect
<1> QED BY <1>1, <1>2, <1>3, <1>4

\* Two calls in flight are both warm after the step too.
LEMMA ExclusiveStep ==
  ASSUME TypeInv, LoadsAlone, WarmInv, NEW g \in Goroutine, WarmActs(g)
  PROVE  Exclusive'
<1>a. /\ \A h \in Goroutine \ {g} : pc'[h] = pc[h] /\ frame'[h] = frame[h]
      /\ \A l, f1 : Goto(g, l, f1) => pc'[g] = l /\ frame'[g] = f1
  BY WarmActsAct
<1>b. \A h, k \in Goroutine :
        h # k /\ pc[h] # "idle" /\ pc[k] # "idle" => frame[h].req \in warmed
  BY DEF WarmInv, Exclusive
<1>1. CASE Step(g)
  <2>1. pc[g] # "idle" /\ (pc'[g] = "idle" \/ frame'[g].req = frame[g].req)
    BY <1>1, StepRequest
  <2>2. warmed \subseteq warmed'
    BY <1>1, StepGrows DEF Return
  <2> QED BY <1>a, <1>b, <2>1, <2>2 DEF Exclusive
<1>2. CASE LoadStep(g)
  BY <1>2, LoadAlone DEF Exclusive
<1>3. CASE LoadBegin(g)
  <2>1. \A h \in Goroutine \ {g} : pc'[h] = "idle"
    BY <1>3, <1>a DEF LoadBegin, Idle
  <2> QED BY <2>1 DEF Exclusive
<1>4. ASSUME NEW q \in Request, MayBegin(g, q), Begin(g, q)
      PROVE  Exclusive'
  <2>1. frame'[g].req = q /\ warmed' = warmed
    BY <1>4, <1>a DEF Begin, NewFrame, history
  <2>2. CASE q \in warmed
    <3>1. \A h \in Goroutine : pc[h] # "idle" => frame[h].req \in warmed
      BY <1>4, <2>2 DEF MayBegin, NoColdCall, Idle
    <3> QED BY <1>a, <2>1, <2>2, <3>1 DEF Exclusive
  <2>3. CASE q \notin warmed
    <3>1. \A h \in Goroutine \ {g} : pc'[h] = "idle"
      BY <1>4, <1>a, <2>3 DEF MayBegin, Alone, Idle
    <3> QED BY <3>1 DEF Exclusive
  <2> QED BY <2>2, <2>3
<1> QED BY <1>1, <1>2, <1>3, <1>4 DEF WarmActs

\* Between a Load that failed half way and the next that succeeds nothing runs.
LEMMA StaleStep ==
  ASSUME TypeInv, LoadsAlone, WarmInv, NEW g \in Goroutine, WarmActs(g)
  PROVE  StaleInv'
<1>a. /\ \A h \in Goroutine \ {g} : pc'[h] = pc[h] /\ frame'[h] = frame[h]
      /\ \A l, f1 : Goto(g, l, f1) => pc'[g] = l /\ frame'[g] = f1
  BY WarmActsAct
<1>b. /\ stale => warmed = {}
      /\ stale => \A h \in Goroutine : pc[h] # "idle" => frame[h].req = LoadRequest
      /\ \A h \in Goroutine : frame[h].req = LoadRequest => pc[h] \in {"idle", "load"} \/ stale
      /\ RegistersOK(pc[g], frame[g])
  BY DEF WarmInv, StaleInv, TypeInv, Registers
<1>c. \A q : NewFrame(q).req = q
  BY DEF NewFrame
<1>1. CASE Step(g)
  <2>1. pc[g] # "idle" /\ (pc'[g] = "idle" \/ frame'[g].req = frame[g].req) /\ stale' = stale
    BY <1>1, StepRequest, StepGrows
  <2>2. pc[g] # "load"
    BY <1>1 DEF Step, ParseHit, ParseMiss, ParseDone, Look, InternUnit, InternName, ReadName,
       DimEmpty, DimCheck, DimRead, DimWalked, DimWrite, DimStore, Dispatch, Validate, Compare,
       FactorCheck, RootEmpty, RootCheck, RootWalked, RootStore, FactorStore, Return
  <2>3. Return(g) => frame[g].req # LoadRequest
    BY <1>b DEF Return, RegistersOK
  <2>4. stale => warmed' = warmed
    BY <1>1, <1>b, <2>1, <2>3, StepGrows
  <2> QED BY <1>a, <1>b, <2>1, <2>2, <2>4 DEF StaleInv
<1>2. ASSUME NEW c \in Catalog, LoadApply(g, c)
      PROVE  StaleInv'
  <2>1. LoadStep(g) /\ pc'[g] # "idle"
    <3>1. pc'[g] \in {"loadend", "dread"}
      BY <1>2, <1>a DEF LoadApply
    <3> QED BY <1>2, <3>1 DEF LoadStep
  <2>2. frame'[g].req = LoadRequest
    BY <2>1, StepRequest, LoadAlone
  <2>3. \A h \in Goroutine \ {g} : pc'[h] = "idle"
    BY <2>1, LoadAlone
  <2> QED BY <1>2, <2>2, <2>3 DEF StaleInv, LoadApply
<1>3. CASE LoadSucceed(g) \/ LoadFail(g)
  <2>1. LoadStep(g) /\ pc'[g] = "idle"
    BY <1>3, <1>a DEF LoadStep, LoadSucceed, LoadFail
  <2>2. \A h \in Goroutine : pc'[h] = "idle"
    BY <2>1, LoadAlone
  <2>3. stale' => stale /\ warmed' = warmed
    BY <1>3 DEF LoadSucceed, LoadFail, history
  <2> QED BY <1>b, <2>2, <2>3 DEF StaleInv
<1>4. CASE LoadBegin(g)
  <2>1. /\ pc'[g] = "load" /\ frame'[g].req = LoadRequest /\ warmed' = warmed /\ stale' = stale
        /\ \A h \in Goroutine \ {g} : pc'[h] = "idle"
    BY <1>4, <1>a, <1>c DEF LoadBegin, Idle
  <2> QED BY <1>b, <2>1 DEF StaleInv
<1>5. ASSUME NEW q \in Request, MayBegin(g, q), Begin(g, q)
      PROVE  StaleInv'
  <2>1. /\ frame'[g].req = q /\ q # LoadRequest /\ warmed' = warmed /\ stale' = stale /\ ~stale
    BY <1>5, <1>a, <1>c, LoadIsNoRequest DEF Begin, history, MayBegin
  <2> QED BY <1>a, <1>b, <2>1 DEF StaleInv
<1> QED BY <1>1, <1>2, <1>3, <1>4, <1>5 DEF WarmActs, LoadStep

\* A step of a call that is not its return leaves the call as it should be.
LEMMA CallStep ==
  ASSUME TypeInv, FactorInv, WarmInv, NEW g \in Goroutine, Step(g), frame[g].req \in Request,
         ~Return(g)
  PROVE  CallOK(pc[g], frame[g])'
<1>1. /\ Before /\ pc[g] # "idle"
  BY StepGrows, StepRequest DEF Before
<1>2. PICK l, f : l = pc[g] /\ f = frame[g]
  OBVIOUS
<1>3. InCall(g, l, f)
  BY <1>1, <1>2 DEF InCall, TypeInv, Registers, WarmInv, CallsInv
<1>4. \E m, f1 : Goto(g, m, f1) /\ CallOK(m, f1)'
  BY <1>1, <1>3, ParseSteps, WalkSteps, DimSteps, PairSteps, FactorSteps DEF Step
<1>5. PICK m, f1 : Goto(g, m, f1) /\ CallOK(m, f1)'
  BY <1>4
<1>6. pc'[g] = m /\ frame'[g] = f1
  BY <1>5, GotoEffect
<1> QED BY <1>5, <1>6

\* A step that leaves the catalog and the caches alone leaves what is known.
LEMMA KnownQuiet ==
  ASSUME TypeInv, KnownInv, UNCHANGED <<defs, maps, caches, stale, warmed>>
  PROVE  Grows /\ KnownInv'
<1>1. Grows /\ warmed \subseteq Request
  BY DEF Grows, maps, caches, TypeInv, TypeOK
<1>2. \A q \in warmed : ~stale => Known(q)'
  BY <1>1, KnownGrows DEF KnownInv
<1>3. /\ \A u : DimIs(u)' = DimIs(u)
      /\ \A u, v : FactorKnown(u, v)' <=> FactorKnown(u, v)
  BY DEF DimIs, FactorKnown, caches
<1> QED BY <1>1, <1>2, <1>3 DEF KnownInv, caches

\* What was answered stays known until the catalog changes.
LEMMA KnownStep ==
  ASSUME TypeInv, LoadsAlone, FactorInv, WarmInv, NEW g \in Goroutine, WarmActs(g)
  PROVE  KnownInv'
<1> DEFINE f == frame[g]
<1>b. /\ f \in Frame /\ RegistersOK(pc[g], f) /\ warmed \subseteq Request
      /\ dimCache \in [Container -> Dim \cup {Absent}]
      /\ convCache \in [Container \X Container -> Factor \cup {Absent}]
      /\ ~stale /\ pc[g] # "idle" => f.req # LoadRequest \/ pc[g] = "load"
      /\ KnownInv /\ CallsInv
      /\ stale => warmed = {}
  BY DEF TypeInv, TypeOK, Registers, WarmInv, StaleInv
<1>c. f.arg \in Container /\ f.a \in Container /\ f.b \in Container
  BY <1>b, FrameFields
<1> HIDE DEF f
<1>1. ASSUME Step(g), ~stale
      PROVE  KnownInv'
  <2>1. /\ Grows /\ stale' = stale /\ (warmed' = warmed \/ Return(g)) /\ pc[g] # "idle"
        /\ f.req \in Request
    <3>1. Grows /\ stale' = stale /\ (warmed' = warmed \/ Return(g)) /\ pc[g] # "idle"
      BY <1>1, StepGrows, StepRequest
    <3>2. pc[g] # "load"
      BY <1>1 DEF Step, ParseHit, ParseMiss, ParseDone, Look, InternUnit, InternName, ReadName,
         DimEmpty, DimCheck, DimRead, DimWalked, DimWrite, DimStore, Dispatch, Validate, Compare,
         FactorCheck, RootEmpty, RootCheck, RootWalked, RootStore, FactorStore, Return
    <3>3. f.req # LoadRequest
      BY <1>1, <1>b, <3>1, <3>2
    <3> QED BY <1>b, <3>1, <3>3 DEF RegistersOK
  <2>2. CallOK(pc[g], f)
    BY <1>b, <2>1 DEF CallsInv, f
  <2>3. ASSUME NEW u \in Container
        PROVE  dimCache'[u] \in {Absent, DimIs(u)'}
    <3>1. DimIs(u)' = DimIs(u) /\ dimCache[u] \in {Absent, DimIs(u)}
      BY <1>1, <1>b, <2>1, CatalogStays DEF KnownInv
    <3>2. CASE DimWrite(g) \/ DimStore(g)
      <4>1. /\ dimCache' = [dimCache EXCEPT ![f.arg] = f.val] /\ pc[g] \in {"dwrite", "dstore"}
        BY <3>2 DEF DimWrite, DimStore, f
      <4>2. f.val = DimIs(f.arg)
        BY <2>2, <4>1 DEF CallOK, DimPart
      <4> QED BY <1>b, <1>c, <3>1, <4>1, <4>2
    <3>3. CASE ~(DimWrite(g) \/ DimStore(g))
      <4>1. dimCache' = dimCache
        BY <1>1, <3>3 DEF Step, ParseHit, ParseMiss, ParseDone, Look, InternUnit, InternName,
           ReadName, DimEmpty, DimCheck, DimRead, DimWalked, Dispatch, Validate, Compare,
           FactorCheck, RootEmpty, RootCheck, RootWalked, RootStore, FactorStore, Return, caches
      <4> QED BY <3>1, <4>1
    <3> QED BY <3>2, <3>3
  <2>4. ASSUME NEW u \in Container, NEW v \in Container, FactorKnown(u, v)'
        PROVE  DimIs(u)' = DimIs(v)'
    <3>1. /\ DimIs(u)' = DimIs(u) /\ DimIs(v)' = DimIs(v)
          /\ FactorKnown(u, v) => DimIs(u) = DimIs(v)
      BY <1>1, <1>b, <2>1, CatalogStays DEF KnownInv
    <3>2. CASE FactorStore(g)
      <4>1. convCache' = [convCache EXCEPT ![<<f.a, f.b>>] = f.val] /\ pc[g] = "fstore"
        BY <3>2 DEF FactorStore, FactorKey, f
      <4>2. DimIs(f.a) = DimIs(f.b)
        BY <2>2, <4>1 DEF CallOK, PairPart, Converting, Rooting
      <4>3. CASE u = f.a /\ v = f.b
        BY <3>1, <4>2, <4>3
      <4>4. CASE ~(u = f.a /\ v = f.b)
        <5>1. convCache'[<<u, v>>] = convCache[<<u, v>>]
          BY <1>b, <1>c, <4>1, <4>4
        <5> QED BY <2>4, <3>1, <5>1 DEF FactorKnown
      <4> QED BY <4>3, <4>4
    <3>3. CASE ~FactorStore(g)
      <4>1. convCache' = convCache
        BY <1>1, <3>3 DEF Step, ParseHit, ParseMiss, ParseDone, Look, InternUnit, InternName,
           ReadName, DimEmpty, DimCheck, DimRead, DimWalked, DimWrite, DimStore, Dispatch, Validate,
           Compare, FactorCheck, RootEmpty, RootCheck, RootWalked, RootStore, Return, caches
      <4> QED BY <2>4, <3>1, <4>1 DEF FactorKnown
    <3> QED BY <3>2, <3>3
  <2>5. ASSUME NEW q \in warmed'
        PROVE  Known(q)'
    <3>1. CASE q \in warmed
      BY <1>1, <1>b, <2>1, <3>1, KnownGrows DEF KnownInv
    <3>2. CASE q \notin warmed
      <4>1. Return(g) /\ q = f.req
        BY <2>1, <2>5, <3>2 DEF Return, f
      <4>2. Known(q)
        BY <2>2, <4>1 DEF CallOK, ReturnPart, Return
      <4> QED BY <2>1, <4>1, <4>2, KnownGrows
    <3> QED BY <3>1, <3>2
  <2> QED BY <2>3, <2>4, <2>5 DEF KnownInv
<1>2. CASE Step(g) /\ stale
  BY <1>2, StepGrows DEF KnownInv
<1>3. ASSUME NEW c \in Catalog, LoadApply(g, c) PROVE KnownInv'
  BY <1>3 DEF LoadApply, KnownInv
<1>4. CASE LoadSucceed(g) \/ LoadFail(g)
  <2>1. stale /\ warmed = {}
    <3>1. pc[g] = "loadend" /\ f.req = LoadRequest
      BY <1>4, LoadAlone DEF LoadStep, LoadSucceed, LoadFail, f
    <3> QED BY <1>b, <3>1
  <2>2. CASE LoadSucceed(g)
    <3>1. /\ \A u \in Container : dimCache'[u] = Absent
          /\ \A u, v \in Container : convCache'[<<u, v>>] = Absent
          /\ warmed' = {}
      BY <2>1, <2>2 DEF LoadSucceed, BuildCaches, EmptyCache, EmptyConvCache
    <3>2. \A u, v \in Container : ~FactorKnown(u, v)'
      BY <3>1 DEF FactorKnown
    <3> QED BY <3>1, <3>2 DEF KnownInv
  <2>3. CASE LoadFail(g)
    BY <2>1, <2>3 DEF LoadFail, KnownInv, history
  <2> QED BY <1>4, <2>2, <2>3
<1>5. CASE LoadBegin(g) \/ \E q \in Request : Begin(g, q)
  <2>1. UNCHANGED <<defs, maps, caches, stale, warmed>>
    BY <1>5 DEF LoadBegin, Begin, history
  <2> QED BY <1>b, <2>1, KnownQuiet
<1> QED BY <1>1, <1>2, <1>3, <1>4, <1>5 DEF WarmActs, LoadStep

\* And every call in flight stays where its registers say it is.
LEMMA CallsStep ==
  ASSUME TypeInv, LoadsAlone, FactorInv, WarmInv, NEW g \in Goroutine, WarmActs(g)
  PROVE  CallsInv'
<1>a. /\ \A h \in Goroutine \ {g} : pc'[h] = pc[h] /\ frame'[h] = frame[h]
      /\ \A l, f1 : Goto(g, l, f1) => pc'[g] = l /\ frame'[g] = f1
      /\ Acts(g)
  BY WarmActsAct
<1>b. /\ \A h \in Goroutine : pc[h] # "idle" =>
           /\ WalkPart(pc[h], frame[h])
           /\ frame[h].req \in Request => CallOK(pc[h], frame[h])
      /\ \A h \in Goroutine : frame[h] \in Frame /\ RegistersOK(pc[h], frame[h])
  BY DEF WarmInv, CallsInv, TypeInv, TypeOK, Registers
<1>1. ASSUME NEW h \in Goroutine, pc'[h] # "idle"
      PROVE  WalkPart(pc[h], frame[h])'
  <2>1. CASE h = g
    BY <1>1, <1>a, <2>1, WalkPartStep
  <2>2. CASE h # g
    <3>1. byName \subseteq byName'
      BY <1>a, InternedStep
    <3> QED BY <1>1, <1>a, <1>b, <2>2, <3>1 DEF WalkPart
  <2> QED BY <2>1, <2>2
<1>2. ASSUME NEW h \in Goroutine, h # g, pc'[h] # "idle", frame'[h].req \in Request,
             Grows, frame[h].req \in warmed' => frame[h].req \in warmed
      PROVE  CallOK(pc[h], frame[h])'
  <2>1. PICK l, f : l = pc[h] /\ f = frame[h]
    OBVIOUS
  <2>2. pc'[h] = l /\ frame'[h] = f /\ f \in Frame /\ f.req \in Request /\ CallOK(l, f)
    BY <1>2, <1>a, <1>b, <2>1
  <2>3. CallOK(l, f)'
    BY <1>2, <2>1, <2>2, CarriedOver
  <2> QED BY <2>2, <2>3
<1>3. ASSUME NEW h \in Goroutine, pc'[h] # "idle", frame'[h].req \in Request
      PROVE  CallOK(pc[h], frame[h])'
  <2>1. CASE Step(g)
    <3>1. /\ Grows /\ pc[g] # "idle" /\ (pc'[g] = "idle" \/ frame'[g].req = frame[g].req)
      BY <2>1, StepGrows, StepRequest
    <3>2. CASE h = g
      <4>1. ~Return(g) /\ frame[g].req \in Request
        BY <1>3, <1>a, <3>1, <3>2 DEF Return
      <4> QED BY <2>1, <3>2, <4>1, CallStep
    <3>3. CASE h # g
      <4>1. frame[h].req \in warmed
        BY <1>3, <1>a, <3>1, <3>3 DEF WarmInv, Exclusive
      <4> QED BY <1>2, <1>3, <3>1, <3>3, <4>1
    <3> QED BY <3>2, <3>3
  <2>2. CASE LoadStep(g)
    <3>1. h = g /\ frame[g].req = LoadRequest
      BY <1>3, <2>2, LoadAlone
    <3>2. frame'[g].req = LoadRequest
      BY <1>3, <2>2, <3>1, StepRequest
    <3> QED BY <1>3, <3>1, <3>2, LoadIsNoRequest
  <2>3. CASE LoadBegin(g)
    <3>1. frame'[g].req = LoadRequest /\ \A k \in Goroutine \ {g} : pc'[k] = "idle"
      BY <1>a, <2>3 DEF LoadBegin, Idle, NewFrame
    <3> QED BY <1>3, <3>1, LoadIsNoRequest
  <2>4. ASSUME NEW q \in Request, MayBegin(g, q), Begin(g, q)
        PROVE  CallOK(pc[h], frame[h])'
    <3>1. Grows /\ warmed' = warmed
      BY <2>4 DEF Begin, Grows, maps, caches, history
    <3>2. CASE h = g
      <4>1. pc'[g] = "parse" /\ frame'[g] = NewFrame(q)
        BY <1>a, <2>4 DEF Begin
      <4>2. PICK f1 : f1 = NewFrame(q)
        OBVIOUS
      <4>3. f1.side = "src"
        BY <4>2 DEF NewFrame
      <4>4. CallOK("parse", f1)'
        BY <4>3 DEF CallOK, ParsePart, AnswerPart, PairPart, DimPart, ReturnPart, WarmPart,
           Parsing, Measuring, Rooting, Converting, Walk
      <4> QED BY <3>2, <4>1, <4>2, <4>4
    <3>3. CASE h # g
      BY <1>2, <1>3, <3>1, <3>3
    <3> QED BY <3>2, <3>3
  <2> QED BY <2>1, <2>2, <2>3, <2>4 DEF WarmActs
<1> QED BY <1>1, <1>3 DEF CallsInv

-----------------------------------------------------------------------------
(* The theorems *)

\* A registry that was never called is warm for no call.
LEMMA WarmInit == Init => WarmInv
<1> SUFFICES ASSUME Init PROVE WarmInv
  OBVIOUS
<1>1. /\ \A g \in Goroutine : pc[g] = "idle" /\ frame[g].req = NoRequest
      /\ ~crashed /\ ~stale /\ warmed = {} /\ units = {} /\ byName = {}
  BY DEF Init, NewFrame
<1>2. NoRequest # LoadRequest
  BY DEF NoRequest, LoadRequest
<1>3. KnownInv
  BY <1>1 DEF Init, KnownInv, EmptyCache, EmptyConvCache, FactorKnown
<1> QED BY <1>1, <1>2, <1>3 DEF WarmInv, Exclusive, Interned, StaleInv, CallsInv

\* The stronger contract only forbids steps of the documented one.
LEMMA WarmNextIsNext == [WarmNext]_vars => [Next]_vars
BY DEF WarmNext, Next

\* The invariant is inductive, with those of ConversionCachesProofs.
LEMMA WarmStep ==
  TypeInv /\ LoadsAlone /\ FactorInv /\ WarmInv /\ [WarmNext]_vars => WarmInv'
<1> SUFFICES ASSUME TypeInv, LoadsAlone, FactorInv, WarmInv, [WarmNext]_vars
             PROVE  WarmInv'
  OBVIOUS
<1>1. CASE UNCHANGED vars
  <2>1. Grows /\ KnownInv'
    <3>1. UNCHANGED <<defs, maps, caches, stale, warmed>>
      BY <1>1 DEF vars, maps, caches
    <3> QED BY <3>1, KnownQuiet DEF WarmInv
  <2>2. ~crashed' /\ Exclusive' /\ Interned' /\ StaleInv'
    BY <1>1 DEF vars, maps, WarmInv, Exclusive, Interned, StaleInv, Key
  <2>3. ASSUME NEW h \in Goroutine, pc'[h] # "idle"
        PROVE  /\ WalkPart(pc[h], frame[h])'
               /\ frame'[h].req \in Request => CallOK(pc[h], frame[h])'
    <3>1. PICK l, f : l = pc[h] /\ f = frame[h]
      OBVIOUS
    <3>2. pc'[h] = l /\ frame'[h] = f /\ byName' = byName /\ warmed' = warmed
      BY <1>1, <3>1 DEF vars, maps
    <3>3. f \in Frame /\ WalkPart(l, f) /\ (f.req \in Request => CallOK(l, f))
      BY <2>3, <3>1, <3>2 DEF WarmInv, CallsInv, TypeInv, TypeOK
    <3>4. WalkPart(l, f)'
      BY <3>2, <3>3 DEF WalkPart
    <3>5. f.req \in Request => CallOK(l, f)'
      BY <2>1, <3>2, <3>3, CarriedOver
    <3> QED BY <3>2, <3>4, <3>5
  <2> QED BY <2>1, <2>2, <2>3 DEF WarmInv, CallsInv
<1>2. CASE MapFault
  BY <1>2, RaceFree DEF MapFault, NoDataRace
<1>3. ASSUME NEW g \in Goroutine, WarmActs(g)
      PROVE  WarmInv'
  <2>1. ~crashed'
    BY <1>3 DEF WarmInv, WarmActs, Step, LoadStep, Begin, LoadBegin, LoadApply, LoadSucceed,
       LoadFail, ParseHit, ParseMiss, ParseDone, Look, InternUnit, InternName, ReadName, DimEmpty,
       DimCheck, DimRead, DimWalked, DimWrite, DimStore, Dispatch, Validate, Compare, FactorCheck,
       RootEmpty, RootCheck, RootWalked, RootStore, FactorStore, Return, history
  <2>2. Interned'
    BY <1>3, WarmActsAct, InternedStep
  <2> QED BY <1>3, <2>1, <2>2, ExclusiveStep, StaleStep, KnownStep, CallsStep DEF WarmInv
<1> QED BY <1>1, <1>2, <1>3 DEF WarmNext, WarmActs

\* It holds of every state the stronger contract reaches.
LEMMA WarmInvariant == WarmSpec => [](TypeInv /\ LoadsAlone /\ FactorInv /\ WarmInv)
<1>1. Init => TypeInv /\ LoadsAlone /\ FactorInv /\ WarmInv
  BY TypeInit, SafetyInit, WarmInit
<1>2. TypeInv /\ LoadsAlone /\ FactorInv /\ WarmInv /\ [WarmNext]_vars
        => (TypeInv /\ LoadsAlone /\ FactorInv /\ WarmInv)'
  BY TypeStep, SafetyStep, WarmStep, WarmNextIsNext
<1> QED BY <1>1, <1>2, PTL DEF WarmSpec

\* Callers that let the first call of each kind run alone never have two goroutines on a
\* Go map of the registry, one of them writing, without r.mu between them.
THEOREM WarmCallsNeverRace == WarmSpec => []NoDataRace
BY WarmInvariant, RaceFree, PTL

\* Then dimCache, which races can spoil, agrees with the catalog.
THEOREM DimsStayCoherent == WarmSpec => []DimsCoherent
<1>1. WarmInv => DimsCoherent
  BY DEF WarmInv, KnownInv, DimsCoherent, DimIs
<1> QED BY <1>1, WarmInvariant, PTL

\* And every call is about to return what the catalog in force says.
THEOREM AnswersStayCorrect == WarmSpec => []AnswersCorrect
<1>1. TypeInv /\ WarmInv => AnswersCorrect
  <2> SUFFICES ASSUME TypeInv, WarmInv, NEW g \in Goroutine, pc[g] = "return"
               PROVE  frame[g].ans = Expected(defs, frame[g].req)
    BY DEF AnswersCorrect
  <2>1. frame[g].req \in Request
    BY DEF TypeInv, Registers, RegistersOK
  <2> QED BY <2>1 DEF WarmInv, CallsInv, CallOK, ReturnPart
<1> QED BY <1>1, WarmInvariant, PTL

-----------------------------------------------------------------------------
(* The refinement *)

Asked(g) == IF InFlight(g) THEN frame[g].req ELSE Absent
Replied(g) == IF InFlight(g) /\ pc[g] = "return" THEN frame[g].ans ELSE Absent

\* A goroutine that is not named in a step of the service keeps its call and its answer.
LEMMA OthersKeep ==
  ASSUME TypeInv, NEW g \in Goroutine, WarmActs(g)
  PROVE  \A h \in Goroutine \ {g} : Asked(h)' = Asked(h) /\ Replied(h)' = Replied(h)
BY WarmActsAct DEF Asked, Replied, InFlight, Idle

\* No answer looks like the absence of one.
LEMMA AnswerIsSomething ==
  ASSUME TypeInv, NEW q \in Request
  PROVE  Expected(defs, q) # Absent
<1>1. /\ defs \in Catalog /\ q.from \in Expr /\ q.to \in Expr
      /\ ParseOf[defs][q.from] \in Container \cup {Undefined}
      /\ ParseOf[defs][q.to] \in Container \cup {Undefined}
  BY TableTypes
<1>2. \A u \in Container : DimOf[defs][u][{}] \in Dim
  BY <1>1, TableTypes DEF DimIs
<1>3. \A u \in Container : FactorOf[defs][u] \in Factor /\ RefOf[defs][u] \in Container
  BY <1>1, TableAssumption
<1>4. \A u, v \in Container : FactorOf[defs][Ratio[u][v]] \in Factor
  BY <1>3, TableTypes
<1>5. \A u, v \in Container : ConvertAnswer(defs, q.op, u, v) # Absent
  BY <1>3, <1>4, DistinctAssumption DEF ConvertAnswer
<1> QED BY <1>1, <1>2, <1>5, DistinctAssumption DEF Expected

\* A call ends by returning.
LEMMA StepMoves ==
  ASSUME TypeInv, NEW g \in Goroutine, Step(g), ~Return(g)
  PROVE  pc'[g] # "idle"
<1>a. \A l, f1 : Goto(g, l, f1) => pc'[g] = l
  BY GotoEffect
<1>1. CASE Look(g) \/ InternUnit(g) \/ InternName(g) \/ ReadName(g)
  <2>1. \E l \in {"read", "put1", "put2", "look", "return"} : pc'[g] = l
    BY <1>1, <1>a DEF Look, InternUnit, InternName, ReadName, Answer
  <2> QED BY <2>1
<1>2. CASE ~(Look(g) \/ InternUnit(g) \/ InternName(g) \/ ReadName(g))
  <2>1. ~LoadSucceed(g) /\ ~LoadFail(g)
    BY DEF Step, LoadSucceed, LoadFail, ParseHit,
       ParseMiss, ParseDone, Look, InternUnit, InternName, ReadName, DimEmpty, DimCheck, DimRead,
       DimWalked, DimWrite, DimStore, Dispatch, Validate, Compare, FactorCheck, RootEmpty,
       RootCheck, RootWalked, RootStore, FactorStore, Return
  <2> QED BY <1>2, <1>a, <2>1, StepOnward DEF Onward
<1> QED BY <1>1, <1>2

\* Begin asks, the step to its answer replies, Return leaves, a Load changes the catalog,
\* and everything else stutters.
LEMMA ServiceStep ==
  ASSUME TypeInv, LoadsAlone, FactorInv, WarmInv, WarmInv', NEW g \in Goroutine, WarmActs(g)
  PROVE  [Service!Next]_(Service!vars)
<1>a. /\ \A h \in Goroutine \ {g} : Asked(h)' = Asked(h) /\ Replied(h)' = Replied(h)
      /\ \A l, f1 : Goto(g, l, f1) => pc'[g] = l /\ frame'[g] = f1
      /\ RegistersOK(pc[g], frame[g]) /\ defs \in Catalog
  BY OthersKeep, WarmActsAct DEF TypeInv, TypeOK, Registers
<1>b. Absent \notin Request /\ LoadRequest \notin Request /\ NoRequest \notin Request
  BY LoadIsNoRequest, DistinctAssumption
<1>c. \A q : NewFrame(q).req = q
  BY DEF NewFrame
<1>keep. ASSUME Asked(g)' = Asked(g), Replied(g)' = Replied(g), defs' = defs
         PROVE  UNCHANGED Service!vars
  <2>1. \A h \in Goroutine : Asked(h)' = Asked(h) /\ Replied(h)' = Replied(h)
    BY <1>a, <1>keep
  <2> QED BY <1>keep, <2>1 DEF Service!vars, Asked, Replied
<1>1. ASSUME NEW q \in Request, Begin(g, q)
      PROVE  Service!Ask(g)
  <2>1. Asked(g) = Absent /\ Asked(g)' = q /\ Replied(g)' = Replied(g) /\ defs' = defs
    BY <1>1, <1>a, <1>c DEF Begin, Idle, Asked, Replied, InFlight
  <2> QED BY <1>a, <2>1 DEF Service!Ask, Asked, Replied
<1>2. CASE Return(g)
  <2>1. frame[g].req \in Request /\ defs' = defs /\ pc[g] = "return"
    BY <1>2, <1>a DEF Return, RegistersOK
  <2>2. Replied(g) # Absent
    <3>1. frame[g].ans = Expected(defs, frame[g].req)
      BY <2>1 DEF WarmInv, CallsInv, CallOK, ReturnPart
    <3> QED BY <2>1, <3>1, AnswerIsSomething DEF Replied, InFlight, Idle
  <2>3. Asked(g)' = Absent /\ Replied(g)' = Absent
    BY <1>2, <1>a DEF Return, Asked, Replied, InFlight, Idle
  <2>4. Service!Leave(g)
    BY <1>a, <2>1, <2>2, <2>3 DEF Service!Leave, Asked, Replied
  <2> QED BY <2>4 DEF Service!Next
<1>3. CASE Step(g) /\ ~Return(g)
  <2>1. pc[g] # "idle" /\ pc[g] # "return" /\ defs' = defs
    BY <1>3, StepGrows DEF Grows, Step, ParseHit, ParseMiss, ParseDone, Look, InternUnit,
       InternName, ReadName, DimEmpty, DimCheck, DimRead, DimWalked, DimWrite, DimStore, Dispatch,
       Validate, Compare, FactorCheck, RootEmpty, RootCheck, RootWalked, RootStore, FactorStore
  <2>2. Replied(g) = Absent /\ Asked(g) = IF frame[g].req \in Request THEN frame[g].req ELSE Absent
    BY <2>1 DEF Replied, Asked, InFlight, Idle
  <2>3. pc'[g] # "idle" /\ frame'[g].req = frame[g].req
    BY <1>3, <1>a, StepMoves, StepRequest
  <2>4. Asked(g)' = Asked(g)
    BY <2>2, <2>3 DEF Asked, InFlight, Idle
  <2>5. CASE frame[g].req \in Request /\ pc'[g] = "return"
    <3>1. CallOK(pc[g], frame[g])'
      BY <1>3, <2>5, CallStep
    <3>2. Replied(g)' = Expected(defs, frame[g].req)
      BY <2>1, <2>3, <2>5, <3>1 DEF CallOK, ReturnPart, Replied, InFlight, Idle
    <3>3. Asked(g) # Absent /\ Asked(g) = frame[g].req
      BY <1>b, <2>2, <2>5
    <3>4. Service!Reply(g)
      BY <1>a, <2>1, <2>2, <2>4, <3>2, <3>3 DEF Service!Reply, Asked, Replied
    <3> QED BY <3>4 DEF Service!Next
  <2>6. CASE ~(frame[g].req \in Request /\ pc'[g] = "return")
    <3>1. Replied(g)' = Replied(g)
      BY <2>2, <2>3, <2>6 DEF Replied, InFlight
    <3> QED BY <1>keep, <2>1, <2>4, <3>1
  <2> QED BY <2>5, <2>6
<1>4. CASE LoadStep(g) \/ LoadBegin(g)
  <2>1. /\ \A h \in Goroutine : Asked(h) = Absent
        /\ Asked(g)' = Absent /\ Replied(g)' = Absent /\ Replied(g) = Absent
    <3>1. CASE LoadStep(g)
      <4>1. /\ frame[g].req = LoadRequest /\ \A h \in Goroutine \ {g} : pc[h] = "idle"
            /\ pc'[g] = "idle" \/ frame'[g].req = LoadRequest
        BY <3>1, LoadAlone, StepRequest
      <4> QED BY <1>b, <4>1 DEF Asked, Replied, InFlight, Idle
    <3>2. CASE LoadBegin(g)
      <4>1. /\ \A h \in Goroutine : pc[h] = "idle"
            /\ frame'[g].req = LoadRequest
        BY <1>a, <1>c, <3>2 DEF LoadBegin, Idle
      <4> QED BY <1>b, <4>1 DEF Asked, Replied, InFlight, Idle
    <3> QED BY <1>4, <3>1, <3>2
  <2>2. defs' \in Catalog
    BY <1>4, <1>a DEF LoadStep, LoadApply, LoadSucceed, LoadFail, LoadBegin
  <2>3. Service!Change
    BY <1>a, <2>1, <2>2 DEF Service!Change, Asked, Replied
  <2> QED BY <2>3 DEF Service!Next
<1> QED BY <1>1, <1>2, <1>3, <1>4 DEF WarmActs, Service!Next

\* Callers that keep the stronger contract cannot tell the cached, concurrent registry
\* from one that computes every answer from the catalog, alone.
THEOREM RegistryImplementsService == WarmSpec => ImplementsService
<1>1. Init => Service!Init
  <2> SUFFICES ASSUME Init PROVE Service!Init
    OBVIOUS
  <2>1. \A g \in Goroutine : Asked(g) = Absent /\ Replied(g) = Absent
    BY DEF Init, Asked, Replied, InFlight, Idle
  <2> QED BY <2>1 DEF Init, Service!Init, Asked, Replied
<1>2. TypeInv /\ LoadsAlone /\ FactorInv /\ WarmInv /\ WarmInv' /\ [WarmNext]_vars
        => [Service!Next]_(Service!vars)
  <2> SUFFICES ASSUME TypeInv, LoadsAlone, FactorInv, WarmInv, WarmInv', [WarmNext]_vars
               PROVE  [Service!Next]_(Service!vars)
    OBVIOUS
  <2>1. CASE UNCHANGED vars \/ MapFault
    BY <2>1 DEF vars, MapFault, Service!vars, InFlight, Idle
  <2> QED BY <2>1, ServiceStep DEF WarmNext, WarmActs
<1> QED BY <1>1, <1>2, WarmInvariant, PTL DEF WarmSpec, ImplementsService, Service!Spec
=============================================================================
