----------------------- MODULE ConversionCachesProofs -----------------------
(***************************************************************************)
(* Theorems about ConversionCaches, for any number of goroutines, any      *)
(* catalogs and any calls.                                                 *)
(***************************************************************************)
EXTENDS ConversionCaches, TLAPS

\* What the program counter says of a goroutine's registers.
RegistersOK(l, f) ==
  /\ l \in PC /\ f \in Frame
  /\ l \in {"put1", "put2", "read"} => f.todo # << >>
  /\ f.req = LoadRequest =>
       \/ l \in {"idle", "load"}
       \/ l \in {"dread", "look", "put1", "put2", "read", "dwrite", "loadend"}
          /\ f.kind = "load"
  /\ f.req # LoadRequest /\ l # "idle" =>
       /\ f.req \in Request /\ l \notin {"load", "loadend"}
       /\ l \in {"dread", "look", "put1", "put2", "read", "dwrite"} => f.kind # "load"
  /\ l \in {"dread", "dwrite"} => f.kind \in {"dim", "load"}
  /\ l \in {"dwrite", "dstore"} => f.val \in Dim
  /\ l \in {"rstore", "fstore"} => f.val \in Factor
  /\ l \in {"look", "put1", "put2", "read"} /\ f.kind = "root" => f.arg = Ratio[f.a][f.b]
  /\ l = "rstore" => f.arg = Ratio[f.a][f.b]

Registers == \A g \in Goroutine : RegistersOK(pc[g], frame[g])

TypeInv == TypeOK /\ Registers

-----------------------------------------------------------------------------
(* Goto changes one goroutine and leaves the others alone. *)

LEMMA GotoEffect ==
  ASSUME TypeInv, NEW g \in Goroutine, NEW l, NEW f, Goto(g, l, f)
  PROVE  /\ pc'[g] = l /\ frame'[g] = f
         /\ \A h \in Goroutine \ {g} : pc'[h] = pc[h] /\ frame'[h] = frame[h]
BY DEF Goto, TypeInv, TypeOK

LEMMA GotoType ==
  ASSUME TypeInv, NEW g \in Goroutine, NEW l, NEW f, Goto(g, l, f), RegistersOK(l, f)
  PROVE  /\ pc' \in [Goroutine -> PC] /\ frame' \in [Goroutine -> Frame]
         /\ \A h \in Goroutine : pc'[h] \in {"put1", "put2", "read"} => frame'[h].todo # << >>
         /\ Registers'
<1>1. /\ pc \in [Goroutine -> PC] /\ frame \in [Goroutine -> Frame]
      /\ l \in PC /\ f \in Frame
  BY DEF TypeInv, TypeOK, RegistersOK
<1>2. /\ pc' \in [Goroutine -> PC] /\ frame' \in [Goroutine -> Frame]
  BY <1>1 DEF Goto
<1>3. \A h \in Goroutine : RegistersOK(pc'[h], frame'[h])
  BY GotoEffect DEF TypeInv, Registers
<1> QED
  BY <1>2, <1>3 DEF Registers, RegistersOK

LEMMA NewFrameType ==
  ASSUME NEW q \in Request \cup {NoRequest, LoadRequest}
  PROVE  NewFrame(q) \in Frame
BY TableAssumption DEF NewFrame, Frame, Result

LEMMA LoadIsNoRequest == LoadRequest \notin Request /\ NoRequest \notin Request
BY TableAssumption DEF LoadRequest, NoRequest, Ops

\* The registers of a goroutine in a state where TypeInv holds.
LEMMA FrameFields ==
  ASSUME NEW f \in Frame
  PROVE  /\ f.req \in Request \cup {NoRequest, LoadRequest}
         /\ f.src \in Container /\ f.dst \in Container /\ f.a \in Container
         /\ f.b \in Container /\ f.arg \in Container /\ f.todo \in Seq(Name)
         /\ f.skipped \in SUBSET Name /\ f.sd \in Dim \cup {Absent}
         /\ f.dd \in Dim \cup {Absent} /\ f.val \in Dim \cup Factor \cup {Absent}
         /\ f.ans \in Result /\ f.side \in {"src", "dst"} /\ f.rounds \in {0, 1}
         /\ f.kind \in {"parse", "dim", "root", "load"}
         /\ f.phase \in {"answer", "factor", "path", "affine"}
BY DEF Frame

LEMMA AnswerRegisters ==
  ASSUME NEW f \in Frame, f.req \in Request, NEW x \in Result
  PROVE  RegistersOK("return", [f EXCEPT !.ans = x])
BY LoadIsNoRequest DEF RegistersOK, Frame, PC

LEMMA ParsedRegisters ==
  ASSUME NEW f \in Frame, f.req \in Request, NEW u \in Container, NEW g \in Goroutine,
         TypeInv, Parsed(g, f, u)
  PROVE  \E l, f1 : Goto(g, l, f1) /\ RegistersOK(l, f1)
<1>1. CASE f.req.op = "dimensionality"
  <2> DEFINE f1 == [f EXCEPT !.arg = u, !.phase = "answer"]
  <2>1. RegistersOK("dcheck", f1)
    BY LoadIsNoRequest DEF RegistersOK, Frame, PC
  <2> QED BY <1>1, <2>1 DEF Parsed
<1>2. CASE f.req.op # "dimensionality" /\ f.side = "src"
  <2> DEFINE f1 == [f EXCEPT !.src = u, !.a = u, !.side = "dst"]
  <2>1. RegistersOK("parse", f1)
    BY LoadIsNoRequest DEF RegistersOK, Frame, PC
  <2> QED BY <1>2, <2>1 DEF Parsed
<1>3. CASE f.req.op # "dimensionality" /\ f.side # "src"
  <2> DEFINE f1 == [f EXCEPT !.dst = u, !.b = u]
  <2>1. RegistersOK("mult", f1) /\ f1 \in Frame /\ f1.req \in Request
    BY LoadIsNoRequest DEF RegistersOK, Frame, PC
  <2>2. RegistersOK("return", [f1 EXCEPT !.ans = Identity])
    BY <2>1, AnswerRegisters DEF Result
  <2> HIDE DEF f1
  <2>3. IF f.src = u THEN Answer(g, f1, Identity) ELSE Goto(g, "mult", f1)
    BY <1>3 DEF Parsed, f1
  <2> QED BY <2>1, <2>2, <2>3 DEF Answer
<1> QED BY <1>1, <1>2, <1>3

LEMMA OperandType ==
  ASSUME NEW f \in Frame, f.req \in Request
  PROVE  Operand(f) \in Expr
BY TableAssumption DEF Operand, Frame

LEMMA MeasuredRegisters ==
  ASSUME NEW f \in Frame, f.req \in Request, NEW d \in Dim, NEW g \in Goroutine,
         Measured(g, f, d)
  PROVE  \E l, f1 : Goto(g, l, f1) /\ RegistersOK(l, f1)
<1>1. CASE f.phase = "answer"
  <2>1. RegistersOK("return", [f EXCEPT !.ans = d])
    BY AnswerRegisters DEF Result
  <2> QED BY <1>1, <2>1 DEF Measured, Answer
<1>2. CASE f.phase # "answer" /\ f.side = "src"
  <2> DEFINE f1 == [f EXCEPT !.sd = d, !.side = "dst",
                      !.arg = IF f.phase = "factor" THEN f.b ELSE f.dst]
  <2>1. f1 \in Frame /\ f1.req = f.req
    BY DEF Frame
  <2>2. RegistersOK("dcheck", f1)
    BY <2>1, LoadIsNoRequest DEF RegistersOK, PC
  <2> QED BY <1>2, <2>2 DEF Measured
<1>3. CASE f.phase # "answer" /\ f.side # "src"
  <2>1. RegistersOK("compare", [f EXCEPT !.dd = d])
    BY LoadIsNoRequest DEF RegistersOK, Frame, PC
  <2> QED BY <1>3, <2>1 DEF Measured
<1> QED BY <1>1, <1>2, <1>3

LEMMA FactoredRegisters ==
  ASSUME NEW f \in Frame, f.req \in Request, NEW x \in Factor, NEW g \in Goroutine,
         Factored(g, f, x)
  PROVE  \E l, f1 : Goto(g, l, f1) /\ RegistersOK(l, f1)
<1>1. CASE LastRound(f)
  <2>1. RegistersOK("return", [f EXCEPT !.ans = x])
    BY AnswerRegisters DEF Result
  <2> QED BY <1>1, <2>1 DEF Factored, Answer
<1>2. CASE ~LastRound(f)
  <2>1. RegistersOK("check", [f EXCEPT !.rounds = 1])
    BY LoadIsNoRequest DEF RegistersOK, Frame, PC
  <2> QED BY <1>2, <2>1 DEF Factored
<1> QED BY <1>1, <1>2

LEMMA MeasureBothRegisters ==
  ASSUME NEW f \in Frame, f.req \in Request, NEW u \in Container,
         NEW p \in {"factor", "path", "affine"}
  PROVE  RegistersOK("dcheck", MeasureBoth(f, p, u))
BY LoadIsNoRequest DEF RegistersOK, Frame, PC, MeasureBoth

-----------------------------------------------------------------------------
(* Every step leaves registers that fit the place it goes to. *)

LEMMA StepRegisters ==
  ASSUME TypeInv, NEW g \in Goroutine, Step(g)
  PROVE  \E l, f1 : Goto(g, l, f1) /\ RegistersOK(l, f1)
<1> DEFINE f == frame[g]
<1>0. /\ f \in Frame /\ RegistersOK(pc[g], f)
      /\ defs \in Catalog
      /\ parseCache \in [Expr -> Container \cup {Absent}]
      /\ dimCache \in [Container -> Dim \cup {Absent}]
      /\ rootCache \in [Container -> Factor \cup {Absent}]
      /\ convCache \in [Container \X Container -> Factor \cup {Absent}]
  BY DEF TypeInv, TypeOK, Registers
<1>req. ASSUME pc[g] \notin {"idle", "load", "loadend"}, f.kind # "load" \/
               pc[g] \notin {"dread", "look", "put1", "put2", "read", "dwrite"}
        PROVE  f.req \in Request
  <2> HIDE DEF f
  <2>1. f.req # LoadRequest
    BY <1>0, <1>req DEF RegistersOK
  <2> QED
    BY <1>0, <1>req, <2>1 DEF RegistersOK
<1> HIDE DEF f
<1>1. CASE ParseHit(g)
  <2>1. f.req \in Request
    BY <1>1, <1>req DEF ParseHit
  <2>2. parseCache[Operand(f)] \in Container
    BY <1>0, <1>1, <2>1, OperandType DEF ParseHit, f
  <2> QED BY <1>0, <1>1, <2>1, <2>2, ParsedRegisters DEF ParseHit, f
<1>2. CASE ParseMiss(g)
  <2>1. f.req \in Request
    BY <1>2, <1>req DEF ParseMiss, Lock
  <2> DEFINE f1 == [f EXCEPT !.kind = "parse", !.skipped = {},
                             !.todo = InternsOf[defs][Operand(f)]]
  <2>2. InternsOf[defs][Operand(f)] \in Seq(Name)
    BY <1>0, <2>1, OperandType, TableAssumption
  <2>3. f1 \in Frame /\ f1.req = f.req /\ f1.kind = "parse"
    BY <1>0, <2>1, <2>2 DEF Frame
  <2>4. RegistersOK("look", f1) /\ Goto(g, "look", f1)
    <3>1. Goto(g, "look", f1)
      BY <1>2 DEF ParseMiss, Lock, f
    <3> HIDE DEF f1
    <3> QED BY <2>1, <2>3, <3>1, LoadIsNoRequest DEF RegistersOK, PC
  <2> QED BY <2>4
<1>3. CASE ParseDone(g)
  <2>1. f.req \in Request
    BY <1>3, <1>req DEF ParseDone, f
  <2>2. ParseOf[defs][Operand(f)] \in Container \cup {Undefined}
    BY <1>0, <2>1, OperandType, TableAssumption
  <2>3. CASE ParseOf[defs][Operand(f)] = Undefined
    <3>1. RegistersOK("return", [f EXCEPT !.ans = Undefined])
      BY <1>0, <2>1, AnswerRegisters DEF Result
    <3>2. Goto(g, "return", [f EXCEPT !.ans = Undefined])
      BY <1>3, <2>3 DEF ParseDone, f, Answer
    <3> QED BY <3>1, <3>2
  <2>4. CASE ParseOf[defs][Operand(f)] # Undefined
    <3>1. Parsed(g, f, ParseOf[defs][Operand(f)])
      BY <1>3, <2>4 DEF ParseDone, f
    <3> QED BY <1>0, <2>1, <2>2, <2>4, <3>1, ParsedRegisters
  <2> QED BY <2>3, <2>4
<1>4. CASE Look(g)
  <2>1. \A l \in {"read", "put1"} : RegistersOK(l, f)
    BY <1>0, <1>4 DEF Look, RegistersOK, PC, f
  <2>2. \E l \in {"read", "put1"} : Goto(g, l, f)
    BY <1>4 DEF Look, f
  <2> QED BY <2>1, <2>2
<1>5. CASE InternUnit(g)
  <2>1. \A l \in {"read", "put2"} : RegistersOK(l, f)
    BY <1>0, <1>5 DEF InternUnit, RegistersOK, PC
  <2>2. \E l \in {"read", "put2"} : Goto(g, l, f)
    BY <1>5 DEF InternUnit, f
  <2> QED BY <2>1, <2>2
<1>6. CASE InternName(g)
  <2>1. RegistersOK("read", f)
    BY <1>0, <1>6 DEF InternName, RegistersOK, PC
  <2> QED BY <1>6, <2>1 DEF InternName, f
<1>7. CASE ReadName(g)
  <2>1. pc[g] = "read" /\ f.todo # << >>
    BY <1>0, <1>7 DEF ReadName, RegistersOK
  <2>2. f.todo \in Seq(Name) /\ Tail(f.todo) \in Seq(Name) /\ Key(g) \in Name
    BY <1>0, <2>1 DEF Frame, Key, f
  <2>3. RegistersOK("look", Forward(f))
    <3> DEFINE f1 == Forward(f)
    <3>1. f1 \in Frame /\ f1 = [f EXCEPT !.todo = Tail(f.todo)]
      BY <1>0, <2>2 DEF Frame, Forward
    <3>2. /\ f1.req = f.req /\ f1.kind = f.kind /\ f1.arg = f.arg
          /\ f1.a = f.a /\ f1.b = f.b
      BY <1>0, <3>1 DEF Frame
    <3> HIDE DEF f1
    <3>3. RegistersOK("look", f1)
      BY <1>0, <2>1, <3>1, <3>2, LoadIsNoRequest DEF RegistersOK, PC
    <3> QED BY <3>3 DEF f1
  <2>4. RegistersOK("look", [Forward(f) EXCEPT !.skipped = @ \cup {Key(g)}])
    <3> DEFINE f1 == [Forward(f) EXCEPT !.skipped = @ \cup {Key(g)}]
    <3>1. Forward(f) \in Frame
      BY <2>3 DEF RegistersOK
    <3>2. f1 \in Frame
      BY <2>2, <3>1 DEF Frame
    <3>3. /\ f1.req = Forward(f).req /\ f1.kind = Forward(f).kind
          /\ f1.arg = Forward(f).arg /\ f1.a = Forward(f).a /\ f1.b = Forward(f).b
      BY <3>1 DEF Frame
    <3> HIDE DEF f1
    <3>4. RegistersOK("look", f1)
      BY <2>3, <3>2, <3>3, LoadIsNoRequest DEF RegistersOK, PC
    <3> QED BY <3>4 DEF f1
  <2>5. ASSUME f.kind = "root" PROVE RegistersOK("return", [f EXCEPT !.ans = Undefined])
    BY <1>0, <2>1, <2>5, <1>req, AnswerRegisters DEF Result
  <2> QED BY <1>7, <2>3, <2>4, <2>5 DEF ReadName, Answer, f
<1>8. CASE DimEmpty(g)
  <2>1. f.req \in Request
    BY <1>8, <1>req DEF DimEmpty
  <2> QED BY <1>0, <1>8, <2>1, MeasuredRegisters, TableAssumption DEF DimEmpty, f
<1>9. CASE DimCheck(g)
  <2>1. f.req \in Request /\ f.arg \in Container
    BY <1>0, <1>9, <1>req, FrameFields DEF DimCheck
  <2>2. CASE dimCache[f.arg] # Absent
    <3>1. dimCache[f.arg] \in Dim /\ Measured(g, f, dimCache[f.arg])
      BY <1>0, <1>9, <2>1, <2>2 DEF DimCheck, f
    <3> QED BY <1>0, <2>1, <3>1, MeasuredRegisters
  <2>3. CASE dimCache[f.arg] = Absent
    <3> DEFINE f1 == [f EXCEPT !.kind = "dim"]
    <3>1. f1 \in Frame /\ f1.req = f.req /\ f1.kind = "dim"
      BY <1>0 DEF Frame
    <3>2. Goto(g, "dread", f1)
      BY <1>9, <2>3 DEF DimCheck, f
    <3> HIDE DEF f1
    <3>3. RegistersOK("dread", f1)
      BY <2>1, <3>1, LoadIsNoRequest DEF RegistersOK, PC
    <3> QED BY <3>2, <3>3
  <2> QED BY <2>2, <2>3
<1>10. CASE DimRead(g)
  <2>1. pc[g] = "dread" /\ f.kind \in {"dim", "load"} /\ f.arg \in Container
    BY <1>0, <1>10, FrameFields DEF DimRead, RegistersOK
  <2>2. CASE dimCache[f.arg] = Absent
    <3> DEFINE f1 == [f EXCEPT !.todo = WalkOf[defs][f.arg], !.skipped = {}]
    <3>1. WalkOf[defs][f.arg] \in Seq(Name)
      BY <1>0, <2>1, TableAssumption
    <3>2. RegistersOK("look", f1)
      BY <1>0, <2>1, <3>1, LoadIsNoRequest DEF RegistersOK, Frame, PC
    <3> QED BY <1>10, <2>2, <3>2 DEF DimRead, f
  <2>3. CASE dimCache[f.arg] # Absent
    <3> DEFINE l == IF f.kind = "load" THEN "loadend" ELSE "dstore"
               f1 == [f EXCEPT !.val = dimCache[f.arg]]
    <3>1. dimCache[f.arg] \in Dim
      BY <1>0, <2>1, <2>3
    <3>2. RegistersOK(l, f1)
      BY <1>0, <2>1, <3>1, LoadIsNoRequest DEF RegistersOK, Frame, PC
    <3>3. Goto(g, l, f1)
      BY <1>10, <2>3 DEF DimRead, f
    <3> QED BY <3>2, <3>3
  <2> QED BY <2>2, <2>3
<1>11. CASE DimWalked(g)
  <2>1. f.skipped \in SUBSET Name /\ f.arg \in Container
    BY <1>0, FrameFields
  <2>2. DimOf[defs][f.arg][f.skipped] \in Dim
    BY <1>0, <2>1, TableAssumption
  <2>3. RegistersOK("dwrite", [f EXCEPT !.val = DimOf[defs][f.arg][f.skipped]])
    BY <1>0, <1>11, <2>2, LoadIsNoRequest DEF DimWalked, RegistersOK, Frame, PC, f
  <2> QED BY <1>11, <2>3 DEF DimWalked, f
<1>12. CASE DimWrite(g)
  <2> DEFINE l == IF f.kind = "load" THEN "loadend" ELSE "dstore"
  <2>1. RegistersOK(l, f)
    BY <1>0, <1>12, LoadIsNoRequest DEF DimWrite, RegistersOK, PC
  <2>2. Goto(g, l, f)
    BY <1>12 DEF DimWrite, f
  <2> QED BY <2>1, <2>2
<1>13. CASE DimStore(g)
  <2>1. f.req \in Request /\ f.val \in Dim
    BY <1>0, <1>13, <1>req DEF DimStore, RegistersOK
  <2> QED BY <1>0, <1>13, <2>1, MeasuredRegisters DEF DimStore, f
<1>14. CASE Dispatch(g)
  <2>1. pc[g] = "mult" /\ f.req \in Request
    BY <1>14, <1>req DEF Dispatch
  <2>2. RegistersOK("return", [f EXCEPT !.ans = Compiled])
    BY <1>0, <2>1, AnswerRegisters DEF Result
  <2>3. RegistersOK("fcheck", f) /\ RegistersOK("check", f)
    BY <1>0, <2>1, LoadIsNoRequest DEF RegistersOK, PC
  <2> QED BY <1>14, <2>2, <2>3 DEF Dispatch, Answer, f
<1>15. CASE Validate(g)
  <2>1. f.req \in Request /\ f.src \in Container
    BY <1>0, <1>15, <1>req, FrameFields DEF Validate
  <2>2. RegistersOK("return", [f EXCEPT !.ans = Mismatch])
    BY <1>0, <2>1, AnswerRegisters DEF Result
  <2>3. RegistersOK("dcheck", MeasureBoth(f, "affine", f.src))
    BY <1>0, <2>1, MeasureBothRegisters
  <2> QED BY <1>15, <2>2, <2>3 DEF Validate, Answer, f
<1>16. CASE Compare(g)
  <2>1. f.req \in Request /\ f.src \in Container /\ f.dst \in Container
    BY <1>0, <1>16, <1>req, FrameFields DEF Compare
  <2>2. RegistersOK("return", [f EXCEPT !.ans = Mismatch])
    BY <1>0, <2>1, AnswerRegisters DEF Result
  <2>3. RegistersOK("dcheck", MeasureBoth(f, "path", f.src))
    BY <1>0, <2>1, MeasureBothRegisters
  <2>4. RegistersOK("rcheck", f)
    BY <1>0, <2>1, LoadIsNoRequest DEF RegistersOK, PC
  <2>5. RefOf[defs][f.src] \in Container /\ RefOf[defs][f.dst] \in Container
    BY <1>0, <2>1, TableAssumption
  <2>6. RegistersOK("fcheck", References(f))
    BY <1>0, <2>1, <2>5, LoadIsNoRequest DEF RegistersOK, Frame, PC, References
  <2>7. \/ Goto(g, "rcheck", f)
        \/ Goto(g, "dcheck", MeasureBoth(f, "path", f.src))
        \/ Goto(g, "fcheck", References(f))
        \/ Goto(g, "return", [f EXCEPT !.ans = Mismatch])
    BY <1>16 DEF Compare, Answer, f
  <2> QED BY <2>2, <2>3, <2>4, <2>6, <2>7
<1>17. CASE FactorCheck(g)
  <2>1. f.req \in Request /\ f.a \in Container /\ f.b \in Container
    BY <1>0, <1>17, <1>req, FrameFields DEF FactorCheck
  <2>2. CASE convCache[<<f.a, f.b>>] # Absent
    <3>1. convCache[<<f.a, f.b>>] \in Factor /\ Factored(g, f, convCache[<<f.a, f.b>>])
      BY <1>0, <1>17, <2>1, <2>2 DEF FactorCheck, FactorKey, f
    <3> QED BY <1>0, <2>1, <3>1, FactoredRegisters
  <2>3. CASE convCache[<<f.a, f.b>>] = Absent
    <3>1. RegistersOK("dcheck", MeasureBoth(f, "factor", f.a))
      BY <1>0, <2>1, MeasureBothRegisters
    <3> QED BY <1>17, <2>3, <3>1 DEF FactorCheck, FactorKey, f
  <2> QED BY <2>2, <2>3
<1>18. CASE RootEmpty(g)
  <2>1. f.req \in Request /\ FactorOf[defs][Empty] \in Factor
    BY <1>0, <1>18, <1>req, TableAssumption DEF RootEmpty
  <2>2. RegistersOK("fstore", [f EXCEPT !.val = FactorOf[defs][Empty]])
    BY <1>0, <2>1, LoadIsNoRequest DEF RegistersOK, Frame, PC
  <2> QED BY <1>18, <2>2 DEF RootEmpty, f
<1>19. CASE RootCheck(g)
  <2> DEFINE r == Ratio[f.a][f.b]
  <2>1. f.req \in Request /\ r \in Container
    BY <1>0, <1>19, <1>req, FrameFields, TableAssumption DEF RootCheck
  <2>2. rootCache[r] \in Factor \cup {Absent} /\ WalkOf[defs][r] \in Seq(Name)
    BY <1>0, <2>1, TableAssumption
  <2>3. CASE rootCache[r] # Absent
    <3>1. RegistersOK("fstore", [f EXCEPT !.val = rootCache[r]])
      BY <1>0, <2>1, <2>2, <2>3, LoadIsNoRequest DEF RegistersOK, Frame, PC
    <3> QED BY <1>19, <2>3, <3>1 DEF RootCheck, f
  <2>4. CASE rootCache[r] = Absent
    <3> DEFINE f1 == [f EXCEPT !.kind = "root", !.arg = r, !.todo = WalkOf[defs][r],
                               !.skipped = {}]
    <3>1. f1 \in Frame /\ f1.arg = r /\ f1.a = f.a /\ f1.b = f.b /\ f1.kind = "root"
          /\ f1.req = f.req
      BY <1>0, <2>1, <2>2 DEF Frame
    <3>2. RegistersOK("look", f1)
      BY <2>1, <3>1, LoadIsNoRequest DEF RegistersOK, PC
    <3> QED BY <1>19, <2>4, <3>2 DEF RootCheck, f
  <2> QED BY <2>3, <2>4
<1>20. CASE RootWalked(g)
  <2>1. f.req \in Request /\ f.arg \in Container /\ f.arg = Ratio[f.a][f.b]
    BY <1>0, <1>20, <1>req, FrameFields DEF RootWalked, RegistersOK, f
  <2>2. FactorOf[defs][f.arg] \in Factor
    BY <1>0, <2>1, TableAssumption
  <2> DEFINE f1 == [f EXCEPT !.val = FactorOf[defs][f.arg]]
  <2>3. f1 \in Frame /\ f1.arg = f.arg /\ f1.a = f.a /\ f1.b = f.b /\ f1.req = f.req
        /\ f1.val = FactorOf[defs][f.arg]
    BY <1>0, <2>2 DEF Frame
  <2>4. RegistersOK("rstore", f1)
    BY <2>1, <2>2, <2>3, LoadIsNoRequest DEF RegistersOK, PC
  <2> QED BY <1>20, <2>4 DEF RootWalked, f
<1>21. CASE RootStore(g)
  <2>1. RegistersOK("fstore", f)
    BY <1>0, <1>21, LoadIsNoRequest DEF RootStore, RegistersOK, PC
  <2> QED BY <1>21, <2>1 DEF RootStore, f
<1>22. CASE FactorStore(g)
  <2>1. f.req \in Request /\ f.val \in Factor
    BY <1>0, <1>22, <1>req DEF FactorStore, RegistersOK
  <2> QED BY <1>0, <1>22, <2>1, FactoredRegisters DEF FactorStore, FactorKey, f
<1>23. CASE Return(g)
  <2>1. RegistersOK("idle", NewFrame(NoRequest))
    BY NewFrameType, LoadIsNoRequest DEF RegistersOK, PC, NewFrame, NoRequest, LoadRequest
  <2> QED BY <1>23, <2>1 DEF Return
<1> QED
  BY <1>1, <1>2, <1>3, <1>4, <1>5, <1>6, <1>7, <1>8, <1>9, <1>10, <1>11, <1>12, <1>13,
     <1>14, <1>15, <1>16, <1>17, <1>18, <1>19, <1>20, <1>21, <1>22, <1>23 DEF Step

LEMMA LoadStepRegisters ==
  ASSUME TypeInv, NEW g \in Goroutine, LoadStep(g)
  PROVE  \E l, f1 : Goto(g, l, f1) /\ RegistersOK(l, f1)
<1> DEFINE f == frame[g]
<1>0. f \in Frame /\ RegistersOK(pc[g], f)
  BY DEF TypeInv, TypeOK, Registers
<1>1. ASSUME NEW c \in Catalog, LoadApply(g, c)
      PROVE  \E l, f1 : Goto(g, l, f1) /\ RegistersOK(l, f1)
  <2> HIDE DEF f
  <2> DEFINE f1 == [f EXCEPT !.kind = "load", !.arg = HeaderOf[c]]
  <2>1. f.req = LoadRequest
    BY <1>0, <1>1 DEF LoadApply, RegistersOK
  <2>2. HeaderOf[c] \in Container
    BY TableAssumption
  <2>3. \A l \in {"dread", "loadend"} : RegistersOK(l, f1)
    BY <1>0, <2>1, <2>2, LoadIsNoRequest DEF RegistersOK, Frame, PC
  <2>4. \E l \in {"dread", "loadend"} : Goto(g, l, f1)
    BY <1>1 DEF LoadApply, f
  <2> QED BY <2>3, <2>4
<1>2. RegistersOK("idle", NewFrame(NoRequest))
  BY NewFrameType, LoadIsNoRequest DEF RegistersOK, PC, NewFrame, NoRequest, LoadRequest
<1>3. CASE LoadSucceed(g) \/ LoadFail(g)
  BY <1>2, <1>3 DEF LoadSucceed, LoadFail
<1> QED BY <1>1, <1>3 DEF LoadStep

LEMMA BeginRegisters ==
  ASSUME TypeInv, NEW g \in Goroutine,
         LoadBegin(g) \/ \E q \in Request : Begin(g, q)
  PROVE  \E l, f1 : Goto(g, l, f1) /\ RegistersOK(l, f1)
<1>1. RegistersOK("load", NewFrame(LoadRequest))
  BY NewFrameType, LoadIsNoRequest DEF RegistersOK, PC, NewFrame
<1>2. ASSUME NEW q \in Request PROVE RegistersOK("parse", NewFrame(q))
  BY NewFrameType, LoadIsNoRequest DEF RegistersOK, PC, NewFrame
<1> QED BY <1>1, <1>2 DEF LoadBegin, Begin

-----------------------------------------------------------------------------
(* Typing of what goroutines share. *)

Shared ==
  /\ lock \in Goroutine \cup {Free} /\ defs \in Catalog
  /\ units \subseteq Name /\ byName \subseteq Name
  /\ parseCache \in [Expr -> Container \cup {Absent}]
  /\ dimCache \in [Container -> Dim \cup {Absent}]
  /\ rootCache \in [Container -> Factor \cup {Absent}]
  /\ convCache \in [Container \X Container -> Factor \cup {Absent}]
  /\ loads \in 0..MaxLoads /\ stale \in BOOLEAN /\ crashed \in BOOLEAN
  /\ warmed \subseteq Request

LEMMA EmptyCachesType ==
  /\ EmptyParseCache \in [Expr -> Container \cup {Absent}]
  /\ EmptyCache \in [Container -> Dim \cup {Absent}]
  /\ EmptyCache \in [Container -> Factor \cup {Absent}]
  /\ EmptyConvCache \in [Container \X Container -> Factor \cup {Absent}]
BY DEF EmptyParseCache, EmptyCache, EmptyConvCache

LEMMA KeyType ==
  ASSUME TypeInv, NEW g \in Goroutine, frame[g].todo # << >>
  PROVE  Key(g) \in Name
BY DEF TypeInv, TypeOK, Frame, Key

LEMMA StepShared ==
  ASSUME TypeInv, NEW g \in Goroutine, Step(g)
  PROVE  Shared'
<1> DEFINE f == frame[g]
<1>0. Shared /\ f \in Frame /\ RegistersOK(pc[g], f)
  BY DEF TypeInv, TypeOK, Shared, Registers
<1> HIDE DEF f
<1> USE DEF vars, maps, caches, history
<1>1. CASE ParseHit(g) \/ Look(g) \/ ReadName(g) \/ DimEmpty(g) \/ DimCheck(g)
           \/ DimRead(g) \/ DimWalked(g) \/ Dispatch(g) \/ Validate(g) \/ Compare(g)
           \/ FactorCheck(g) \/ RootEmpty(g) \/ RootCheck(g) \/ RootWalked(g)
  BY <1>0, <1>1 DEF Shared, ParseHit, Look, ReadName, DimEmpty, DimCheck, DimRead, DimWalked,
     Dispatch, Validate, Compare, FactorCheck, RootEmpty, RootCheck, RootWalked
<1>2. CASE ParseMiss(g)
  BY <1>0, <1>2 DEF Shared, ParseMiss, Lock
<1>3. CASE ParseDone(g)
  <2>1. f.req \in Request
    BY <1>0, <1>3 DEF ParseDone, RegistersOK, f
  <2>2. Operand(f) \in Expr /\ ParseOf[defs][Operand(f)] \in Container \cup {Undefined}
    BY <1>0, <2>1, OperandType, TableAssumption DEF Shared
  <2>3. parseCache' \in [Expr -> Container \cup {Absent}]
    BY <1>0, <1>3, <2>2 DEF ParseDone, Shared, f
  <2> QED BY <1>0, <1>3, <2>3 DEF Shared, ParseDone, Unlock
<1>4. CASE InternUnit(g)
  <2>1. Key(g) \in Name
    BY <1>0, <1>4, KeyType DEF InternUnit, RegistersOK, f
  <2> QED BY <1>0, <1>4, <2>1 DEF Shared, InternUnit
<1>5. CASE InternName(g)
  <2>1. Key(g) \in Name
    BY <1>0, <1>5, KeyType DEF InternName, RegistersOK, f
  <2> QED BY <1>0, <1>5, <2>1 DEF Shared, InternName
<1>6. CASE DimWrite(g) \/ DimStore(g)
  <2>1. f.val \in Dim /\ f.arg \in Container
    BY <1>0, <1>6, FrameFields DEF DimWrite, DimStore, RegistersOK
  <2>2. dimCache' = [dimCache EXCEPT ![f.arg] = f.val]
    BY <1>6 DEF DimWrite, DimStore, f
  <2> QED BY <1>0, <1>6, <2>1, <2>2 DEF Shared, DimWrite, DimStore
<1>7. CASE RootStore(g)
  <2>1. f.val \in Factor /\ f.arg \in Container
    BY <1>0, <1>7, FrameFields DEF RootStore, RegistersOK
  <2>2. rootCache' = [rootCache EXCEPT ![f.arg] = f.val]
    BY <1>7 DEF RootStore, f
  <2> QED BY <1>0, <1>7, <2>1, <2>2 DEF Shared, RootStore
<1>8. CASE FactorStore(g)
  <2>1. f.val \in Factor /\ f.a \in Container /\ f.b \in Container
    BY <1>0, <1>8, FrameFields DEF FactorStore, RegistersOK
  <2>2. convCache' = [convCache EXCEPT ![<<f.a, f.b>>] = f.val]
    BY <1>8 DEF FactorStore, FactorKey, f
  <2>3. convCache' \in [Container \X Container -> Factor \cup {Absent}]
    BY <1>0, <2>1, <2>2 DEF Shared
  <2> QED BY <1>0, <1>8, <2>3 DEF Shared, FactorStore
<1>9. CASE Return(g)
  <2>1. f.req \in Request
    BY <1>0, <1>9 DEF Return, RegistersOK
  <2> QED BY <1>0, <1>9, <2>1 DEF Shared, Return, f
<1> QED
  BY <1>1, <1>2, <1>3, <1>4, <1>5, <1>6, <1>7, <1>8, <1>9 DEF Step

LEMMA OtherShared ==
  ASSUME TypeInv, NEW g \in Goroutine,
         LoadStep(g) \/ LoadBegin(g) \/ \E q \in Request : Begin(g, q)
  PROVE  Shared'
<1>0. Shared
  BY DEF TypeInv, TypeOK, Shared
<1> USE DEF maps, caches, history
<1>1. ASSUME NEW c \in Catalog, LoadApply(g, c) PROVE Shared'
  BY <1>0, <1>1 DEF Shared, LoadApply, Lock
<1>2. CASE LoadSucceed(g)
  BY <1>0, <1>2, EmptyCachesType DEF Shared, LoadSucceed, Unlock, BuildCaches
<1>3. CASE LoadFail(g)
  BY <1>0, <1>3 DEF Shared, LoadFail, Unlock
<1>4. CASE LoadBegin(g)
  BY <1>0, <1>4, TableAssumption DEF Shared, LoadBegin
<1>5. ASSUME NEW q \in Request, Begin(g, q) PROVE Shared'
  BY <1>0, <1>5 DEF Shared, Begin
<1> QED BY <1>1, <1>2, <1>3, <1>4, <1>5 DEF LoadStep

\* A step of a goroutine: one of the four kinds.
Acts(g) == \/ \E q \in Request : Begin(g, q)
           \/ Step(g) \/ LoadBegin(g) \/ LoadStep(g)

LEMMA TypeInit == Init => TypeInv
<1> SUFFICES ASSUME Init PROVE TypeInv
  OBVIOUS
<1>1. NewFrame(NoRequest) \in Frame
  BY NewFrameType
<1>2. RegistersOK("idle", NewFrame(NoRequest))
  BY <1>1, LoadIsNoRequest DEF RegistersOK, PC, NewFrame, NoRequest, LoadRequest
<1>3. /\ pc \in [Goroutine -> PC] /\ frame \in [Goroutine -> Frame]
      /\ \A g \in Goroutine : pc[g] = "idle"
  BY <1>1 DEF Init, PC
<1>4. Shared
  <2>1. loads \in 0..MaxLoads
    BY TableAssumption DEF Init
  <2>2. stale \in BOOLEAN /\ crashed \in BOOLEAN
    BY DEF Init
  <2>3. /\ parseCache = EmptyParseCache /\ dimCache = EmptyCache
        /\ rootCache = EmptyCache /\ convCache = EmptyConvCache
        /\ lock = Free /\ defs \in Catalog /\ units = {} /\ byName = {} /\ warmed = {}
    BY DEF Init
  <2> QED BY <2>1, <2>2, <2>3, EmptyCachesType DEF Shared
<1>5. TypeOK
  BY <1>3, <1>4 DEF TypeOK, Shared
<1> QED BY <1>2, <1>5 DEF Init, TypeInv, Registers

LEMMA TypeStep == TypeInv /\ [Next]_vars => TypeInv'
<1> SUFFICES ASSUME TypeInv, [Next]_vars PROVE TypeInv'
  OBVIOUS
<1>1. ASSUME NEW g \in Goroutine, Acts(g) PROVE TypeInv'
  <2>1. Shared'
    BY <1>1, StepShared, OtherShared DEF Acts
  <2>2. PICK l, f1 : Goto(g, l, f1) /\ RegistersOK(l, f1)
    BY <1>1, StepRegisters, LoadStepRegisters, BeginRegisters DEF Acts
  <2> QED BY <2>1, <2>2, GotoType DEF TypeInv, TypeOK, Shared
<1>2. CASE MapFault
  BY <1>2 DEF MapFault, TypeInv, TypeOK, Registers, maps, caches
<1>3. CASE UNCHANGED vars
  BY <1>3 DEF vars, TypeInv, TypeOK, Registers
<1> QED BY <1>1, <1>2, <1>3 DEF Next, Acts

\* Registers and maps hold values of their kinds for ever, whatever the
\* goroutines do to one another.
THEOREM TypeCorrect == Spec => []TypeOK
<1>1. TypeInv => TypeOK
  BY DEF TypeInv
<1> QED BY TypeInit, TypeStep, <1>1, PTL DEF Spec

-----------------------------------------------------------------------------
(* r.mu *)

\* The places where a goroutine is inside a critical section of several steps.
Owns(l, f) == \/ l \in {"look", "put1", "put2", "read"} /\ f.kind \in {"parse", "load"}
              \/ l \in {"dread", "dwrite"} /\ f.kind \in {"parse", "load"}
              \/ l = "loadend"

LockInv == \A g \in Goroutine : lock = g <=> Owns(pc[g], frame[g])

LEMMA LockInvIsLockOwned == LockInv <=> LockOwned
BY DEF LockInv, LockOwned, Owns, HoldsLock

\* A step of g keeps LockInv when it keeps lock and stays on its side of it, or
\* takes a free lock and enters, or releases its own and leaves.
LEMMA LockMove ==
  ASSUME TypeInv, LockInv, NEW g \in Goroutine, NEW l, NEW f, Goto(g, l, f),
         \/ lock' = lock /\ (Owns(l, f) <=> Owns(pc[g], frame[g]))
         \/ lock = Free /\ lock' = g /\ Owns(l, f)
         \/ lock = g /\ lock' = Free /\ ~Owns(l, f)
  PROVE  LockInv'
<1>1. \A h \in Goroutine \ {g} : lock' = h <=> lock = h
  BY DistinctAssumption
<1>2. \A h \in Goroutine \ {g} : lock' = h <=> Owns(pc'[h], frame'[h])
  BY <1>1, GotoEffect DEF LockInv
<1>3. lock' = g <=> Owns(pc'[g], frame'[g])
  BY GotoEffect, DistinctAssumption DEF LockInv
<1> QED BY <1>2, <1>3 DEF LockInv

LEMMA LockStep ==
  ASSUME TypeInv, LockInv, NEW g \in Goroutine, Acts(g)
  PROVE  LockInv'
<1> DEFINE f == frame[g]
<1>0. f \in Frame /\ RegistersOK(pc[g], f)
  BY DEF TypeInv, TypeOK, Registers
<1> HIDE DEF f
<1>1. CASE ParseHit(g) \/ DimEmpty(g) \/ Dispatch(g) \/ Validate(g) \/ Compare(g)
           \/ FactorCheck(g) \/ RootEmpty(g) \/ FactorStore(g) \/ DimStore(g)
           \/ RootStore(g) \/ Return(g) \/ LoadBegin(g) \/ \E q \in Request : Begin(g, q)
  <2>1. ~Owns(pc[g], f) /\ lock' = lock
    BY <1>1 DEF Owns, ParseHit, DimEmpty, Dispatch, Validate, Compare, FactorCheck, RootEmpty,
       FactorStore, DimStore, RootStore, Return, LoadBegin, Begin, Idle
  <2>2. \E l \in {"dcheck", "parse", "return", "mult", "compare", "fcheck", "check", "rcheck",
                  "fstore", "idle", "load"} : \E f1 : Goto(g, l, f1)
    BY <1>1 DEF ParseHit, DimEmpty, Dispatch, Validate, Compare, FactorCheck, RootEmpty,
       FactorStore, DimStore, RootStore, Return, LoadBegin, Begin, Parsed, Measured,
            Factored, Answer
  <2>3. \A l \in {"dcheck", "parse", "return", "mult", "compare", "fcheck", "check", "rcheck",
                  "fstore", "idle", "load"} : \A f1 : ~Owns(l, f1)
    BY DEF Owns
  <2> QED BY <2>1, <2>2, <2>3, LockMove DEF f
<1>2. CASE ParseMiss(g)
  <2> DEFINE f1 == [f EXCEPT !.kind = "parse", !.skipped = {},
                             !.todo = InternsOf[defs][Operand(f)]]
  <2>1. Owns("look", f1)
    BY <1>0 DEF Owns, Frame
  <2>2. lock = Free /\ lock' = g /\ Goto(g, "look", f1)
    BY <1>2 DEF ParseMiss, Lock, f
  <2> QED BY <2>1, <2>2, LockMove
<1>3. CASE ParseDone(g)
  <2>1. lock = g /\ lock' = Free
    BY <1>3 DEF ParseDone, LockInv, Owns, Unlock
  <2>2. \E l \in {"dcheck", "parse", "return", "mult"} : \E f1 : Goto(g, l, f1)
    BY <1>3 DEF ParseDone, Parsed, Answer
  <2>3. \A l \in {"dcheck", "parse", "return", "mult"} : \A f1 : ~Owns(l, f1)
    BY DEF Owns
  <2> QED BY <2>1, <2>2, <2>3, LockMove
<1>4. CASE Look(g) \/ InternUnit(g) \/ InternName(g)
  <2>1. lock' = lock /\ pc[g] \in {"look", "put1", "put2"}
    BY <1>4 DEF Look, InternUnit, InternName
  <2>2. \E l \in {"read", "put1", "put2"} : Goto(g, l, f)
    BY <1>4 DEF Look, InternUnit, InternName, f
  <2>3. \A l \in {"read", "put1", "put2"} : Owns(l, f) <=> Owns(pc[g], f)
    BY <2>1 DEF Owns
  <2> QED BY <2>1, <2>2, <2>3, LockMove DEF f
<1>5. CASE ReadName(g)
  <2>1. lock' = lock /\ pc[g] = "read"
    BY <1>5 DEF ReadName
  <2>2. \/ \E f1 \in {Forward(f), [Forward(f) EXCEPT !.skipped = @ \cup {Key(g)}]} :
             Goto(g, "look", f1)
        \/ f.kind = "root" /\ \E f1 : Goto(g, "return", f1)
    BY <1>5 DEF ReadName, Answer, f
  <2>3. \A f1 \in {Forward(f), [Forward(f) EXCEPT !.skipped = @ \cup {Key(g)}]} :
          Owns("look", f1) <=> Owns("read", f)
    BY <1>0 DEF Owns, Forward, Frame
  <2>4. \A f1 : f.kind = "root" => ~Owns("return", f1) /\ ~Owns("read", f)
    BY DEF Owns
  <2> QED BY <2>1, <2>2, <2>3, <2>4, LockMove DEF f
<1>6. CASE DimCheck(g)
  <2>1. lock' = lock /\ ~Owns(pc[g], f)
    BY <1>6 DEF DimCheck, Owns
  <2>2. \/ \E l \in {"return", "dcheck", "compare"} : \E f1 : Goto(g, l, f1)
        \/ Goto(g, "dread", [f EXCEPT !.kind = "dim"])
    BY <1>6 DEF DimCheck, Measured, Answer, f
  <2>3. ~Owns("dread", [f EXCEPT !.kind = "dim"])
    BY <1>0 DEF Owns, Frame
  <2>4. \A l \in {"return", "dcheck", "compare"} : \A f1 : ~Owns(l, f1)
    BY DEF Owns
  <2> QED BY <2>1, <2>2, <2>3, <2>4, LockMove DEF f
<1>7. CASE DimRead(g)
  <2> DEFINE f1 == [f EXCEPT !.todo = WalkOf[defs][f.arg], !.skipped = {}]
             f2 == [f EXCEPT !.val = dimCache[f.arg]]
             l2 == IF f.kind = "load" THEN "loadend" ELSE "dstore"
  <2>1. lock' = lock /\ pc[g] = "dread" /\ f.kind \in {"dim", "load"}
    BY <1>0, <1>7 DEF DimRead, RegistersOK
  <2>2. Goto(g, "look", f1) \/ Goto(g, l2, f2)
    BY <1>7 DEF DimRead, f
  <2>3. f1.kind = f.kind /\ f2.kind = f.kind
    BY <1>0 DEF Frame
  <2>4. (Owns("look", f1) <=> Owns("dread", f)) /\ (Owns(l2, f2) <=> Owns("dread", f))
    BY <2>1, <2>3 DEF Owns
  <2> QED BY <2>1, <2>2, <2>4, LockMove DEF f
<1>8. CASE DimWalked(g)
  <2> DEFINE f1 == [f EXCEPT !.val = DimOf[defs][f.arg][f.skipped]]
  <2>1. lock' = lock /\ pc[g] = "look" /\ Goto(g, "dwrite", f1)
    BY <1>8 DEF DimWalked, f
  <2>2. Owns("dwrite", f1) <=> Owns("look", f)
    BY <1>0 DEF Owns, Frame
  <2> QED BY <2>1, <2>2, LockMove DEF f
<1>9. CASE DimWrite(g)
  <2> DEFINE l1 == IF f.kind = "load" THEN "loadend" ELSE "dstore"
  <2>1. lock' = lock /\ pc[g] = "dwrite" /\ f.kind \in {"dim", "load"} /\ Goto(g, l1, f)
    BY <1>0, <1>9 DEF DimWrite, RegistersOK, f
  <2>2. Owns(l1, f) <=> Owns("dwrite", f)
    BY <2>1 DEF Owns
  <2> QED BY <2>1, <2>2, LockMove DEF f
<1>10. CASE RootCheck(g)
  <2> DEFINE f1 == [f EXCEPT !.kind = "root", !.arg = Ratio[f.a][f.b],
                             !.todo = WalkOf[defs][Ratio[f.a][f.b]], !.skipped = {}]
  <2>1. lock' = lock /\ ~Owns(pc[g], f)
    BY <1>10 DEF RootCheck, Owns
  <2>2. (\E f2 : Goto(g, "fstore", f2)) \/ Goto(g, "look", f1)
    BY <1>10 DEF RootCheck, f
  <2>3. ~Owns("look", f1) /\ \A f2 : ~Owns("fstore", f2)
    BY <1>0 DEF Owns, Frame
  <2> QED BY <2>1, <2>2, <2>3, LockMove DEF f
<1>11. CASE RootWalked(g)
  <2>1. lock' = lock /\ ~Owns(pc[g], f) /\ \E f1 : Goto(g, "rstore", f1)
    BY <1>11 DEF RootWalked, Owns, f
  <2>2. \A f1 : ~Owns("rstore", f1)
    BY DEF Owns
  <2> QED BY <2>1, <2>2, LockMove DEF f
<1>12. CASE LoadStep(g)
  <2>1. ASSUME NEW c \in Catalog, LoadApply(g, c) PROVE LockInv'
    <3> DEFINE f1 == [f EXCEPT !.kind = "load", !.arg = HeaderOf[c]]
    <3>1. lock = Free /\ lock' = g /\ \E l \in {"loadend", "dread"} : Goto(g, l, f1)
      BY <2>1 DEF LoadApply, Lock, f
    <3>2. \A l \in {"loadend", "dread"} : Owns(l, f1)
      BY <1>0 DEF Owns, Frame
    <3> QED BY <3>1, <3>2, LockMove
  <2>2. CASE LoadSucceed(g) \/ LoadFail(g)
    <3>1. lock = g /\ lock' = Free /\ \E f1 : Goto(g, "idle", f1)
      BY <2>2 DEF LoadSucceed, LoadFail, LockInv, Owns, Unlock
    <3>2. \A f1 : ~Owns("idle", f1)
      BY DEF Owns
    <3> QED BY <3>1, <3>2, LockMove
  <2> QED BY <1>12, <2>1, <2>2 DEF LoadStep
<1> QED
  BY <1>1, <1>2, <1>3, <1>4, <1>5, <1>6, <1>7, <1>8, <1>9, <1>10, <1>11, <1>12 DEF Acts, Step

\* Whoever is inside a critical section holds r.mu, and nobody else is inside one.
THEOREM LockCorrect == Spec => []LockOwned
<1>1. Init => LockInv
  BY DistinctAssumption DEF Init, LockInv, Owns
<1>2. TypeInv /\ LockInv /\ [Next]_vars => LockInv'
  <2> SUFFICES ASSUME TypeInv, LockInv, [Next]_vars PROVE LockInv'
    OBVIOUS
  <2>1. CASE UNCHANGED vars \/ MapFault
    BY <2>1 DEF LockInv, MapFault, vars
  <2> QED BY <2>1, LockStep DEF Next, Acts
<1> QED BY <1>1, <1>2, TypeInit, TypeStep, LockInvIsLockOwned, PTL DEF Spec

-----------------------------------------------------------------------------
(* Load runs alone *)

LoadsAlone ==
  \A g, h \in Goroutine :
    g # h /\ frame[g].req = LoadRequest /\ pc[g] # "idle" => pc[h] = "idle"

LEMMA ParsedRequest ==
  ASSUME NEW f \in Frame, NEW u, NEW g \in Goroutine, Parsed(g, f, u)
  PROVE  \E l, f1 : Goto(g, l, f1) /\ f1.req = f.req
<1>1. /\ [f EXCEPT !.arg = u, !.phase = "answer"].req = f.req
      /\ [f EXCEPT !.src = u, !.a = u, !.side = "dst"].req = f.req
      /\ [f EXCEPT !.dst = u, !.b = u].req = f.req
      /\ [[f EXCEPT !.dst = u, !.b = u] EXCEPT !.ans = Identity].req = f.req
  BY DEF Frame
<1> QED BY <1>1 DEF Parsed, Answer

LEMMA MeasuredRequest ==
  ASSUME NEW f \in Frame, NEW d, NEW g \in Goroutine, Measured(g, f, d)
  PROVE  \E l, f1 : Goto(g, l, f1) /\ f1.req = f.req
<1>1. /\ [f EXCEPT !.ans = d].req = f.req
      /\ [f EXCEPT !.sd = d, !.side = "dst",
            !.arg = IF f.phase = "factor" THEN f.b ELSE f.dst].req = f.req
      /\ [f EXCEPT !.dd = d].req = f.req
  BY DEF Frame
<1> QED BY <1>1 DEF Measured, Answer

LEMMA FactoredRequest ==
  ASSUME NEW f \in Frame, NEW x, NEW g \in Goroutine, Factored(g, f, x)
  PROVE  \E l, f1 : Goto(g, l, f1) /\ f1.req = f.req
<1>1. [f EXCEPT !.ans = x].req = f.req /\ [f EXCEPT !.rounds = 1].req = f.req
  BY DEF Frame
<1> QED BY <1>1 DEF Factored, Answer

LEMMA StepRequest ==
  ASSUME TypeInv, NEW g \in Goroutine, Step(g) \/ LoadStep(g)
  PROVE  pc[g] # "idle" /\ (pc'[g] = "idle" \/ frame'[g].req = frame[g].req)
<1> DEFINE f == frame[g]
<1>0. f \in Frame
  BY DEF TypeInv, TypeOK
<1> HIDE DEF f
<1>a. \A l, f1 : Goto(g, l, f1) => pc'[g] = l /\ frame'[g] = f1
  BY GotoEffect
<1>1. CASE ParseHit(g)
  BY <1>0, <1>1, <1>a, ParsedRequest DEF ParseHit, f
<1>2. CASE ParseMiss(g)
  <2>1. [f EXCEPT !.kind = "parse", !.skipped = {},
                  !.todo = InternsOf[defs][Operand(f)]].req = f.req
    BY <1>0 DEF Frame
  <2> QED BY <1>2, <1>a, <2>1 DEF ParseMiss, Lock, f
<1>3. CASE ParseDone(g)
  <2>1. [f EXCEPT !.ans = Undefined].req = f.req
    BY <1>0 DEF Frame
  <2> QED BY <1>0, <1>3, <1>a, <2>1, ParsedRequest DEF ParseDone, Answer, f
<1>4. CASE Look(g)
  BY <1>0, <1>4, <1>a DEF Look, Frame, f
<1>5. CASE InternUnit(g)
  BY <1>0, <1>5, <1>a DEF InternUnit, Frame, f
<1>6. CASE InternName(g)
  BY <1>0, <1>6, <1>a DEF InternName, Frame, f
<1>7. CASE ReadName(g)
  <2>1. /\ Forward(f).req = f.req /\ [f EXCEPT !.ans = Undefined].req = f.req
        /\ [Forward(f) EXCEPT !.skipped = @ \cup {Key(g)}].req = f.req
    BY <1>0 DEF Forward, Frame
  <2> QED BY <1>7, <1>a, <2>1 DEF ReadName, Answer, f
<1>8. CASE DimEmpty(g)
  BY <1>0, <1>8, <1>a, MeasuredRequest DEF DimEmpty, f
<1>9. CASE DimCheck(g)
  <2>1. [f EXCEPT !.kind = "dim"].req = f.req
    BY <1>0 DEF Frame
  <2> QED BY <1>0, <1>9, <1>a, <2>1, MeasuredRequest DEF DimCheck, f
<1>10. CASE DimRead(g)
  <2>1. /\ [f EXCEPT !.todo = WalkOf[defs][f.arg], !.skipped = {}].req = f.req
        /\ [f EXCEPT !.val = dimCache[f.arg]].req = f.req
    BY <1>0 DEF Frame
  <2> QED BY <1>10, <1>a, <2>1 DEF DimRead, f
<1>11. CASE DimWalked(g)
  BY <1>0, <1>11, <1>a DEF DimWalked, Frame, f
<1>12. CASE DimWrite(g)
  BY <1>0, <1>12, <1>a DEF DimWrite, Frame, f
<1>13. CASE DimStore(g)
  BY <1>0, <1>13, <1>a, MeasuredRequest DEF DimStore, f
<1>14. CASE Dispatch(g)
  BY <1>0, <1>14, <1>a DEF Dispatch, Answer, Frame, f
<1>15. CASE Validate(g)
  <2>1. /\ MeasureBoth(f, "affine", f.src).req = f.req
        /\ [f EXCEPT !.ans = Mismatch].req = f.req
    BY <1>0 DEF MeasureBoth, Frame
  <2> QED BY <1>15, <1>a, <2>1 DEF Validate, Answer, f
<1>16. CASE Compare(g)
  <2>1. /\ MeasureBoth(f, "path", f.src).req = f.req
        /\ References(f).req = f.req
        /\ [f EXCEPT !.ans = Mismatch].req = f.req
    BY <1>0 DEF MeasureBoth, References, Frame
  <2> QED BY <1>16, <1>a, <2>1 DEF Compare, Answer, f
<1>17. CASE FactorCheck(g)
  <2>1. MeasureBoth(f, "factor", f.a).req = f.req
    BY <1>0 DEF MeasureBoth, Frame
  <2> QED BY <1>0, <1>17, <1>a, <2>1, FactoredRequest DEF FactorCheck, f
<1>18. CASE FactorStore(g)
  BY <1>0, <1>18, <1>a, FactoredRequest DEF FactorStore, f
<1>19. CASE RootEmpty(g)
  BY <1>0, <1>19, <1>a DEF RootEmpty, Frame, f
<1>20. CASE RootCheck(g)
  <2> DEFINE r == Ratio[f.a][f.b]
             hit == [f EXCEPT !.val = rootCache[r]]
             miss == [f EXCEPT !.kind = "root", !.arg = r,
                               !.todo = WalkOf[defs][r], !.skipped = {}]
  <2>1. hit.req = f.req /\ miss.req = f.req
    BY <1>0 DEF Frame
  <2>2. pc[g] # "idle" /\ (Goto(g, "fstore", hit) \/ Goto(g, "look", miss))
    BY <1>20 DEF RootCheck, f
  <2> HIDE DEF hit, miss
  <2> QED BY <1>a, <2>1, <2>2 DEF f
<1>21. CASE RootWalked(g)
  BY <1>0, <1>21, <1>a DEF RootWalked, Frame, f
<1>22. CASE RootStore(g)
  BY <1>0, <1>22, <1>a DEF RootStore, Frame, f
<1>23. CASE Return(g) \/ LoadSucceed(g) \/ LoadFail(g)
  BY <1>23, <1>a DEF Return, LoadSucceed, LoadFail
<1>24. ASSUME NEW c \in Catalog, LoadApply(g, c)
      PROVE  pc[g] # "idle" /\ frame'[g].req = frame[g].req
  <2>1. [f EXCEPT !.kind = "load", !.arg = HeaderOf[c]].req = f.req
    BY <1>0 DEF Frame
  <2> QED BY <1>24, <1>a, <2>1 DEF LoadApply, f
<1> QED BY <1>1, <1>2, <1>3, <1>4, <1>5, <1>6, <1>7, <1>8, <1>9, <1>10, <1>11, <1>12, <1>13,
     <1>14, <1>15, <1>16, <1>17, <1>18, <1>19, <1>20, <1>21, <1>22, <1>23, <1>24 DEF Step,
     LoadStep

LEMMA LoadsAloneStep ==
  ASSUME TypeInv, LoadsAlone, NEW g \in Goroutine, Acts(g)
  PROVE  LoadsAlone'
<1>0. \A h \in Goroutine \ {g} : pc'[h] = pc[h] /\ frame'[h] = frame[h]
  BY StepRegisters, LoadStepRegisters, BeginRegisters, GotoEffect DEF Acts
<1>1. CASE Step(g) \/ LoadStep(g)
  <2>1. pc[g] # "idle" /\ (pc'[g] = "idle" \/ frame'[g].req = frame[g].req)
    BY <1>1, StepRequest
  <2> QED BY <1>0, <2>1 DEF LoadsAlone
<1>2. CASE LoadBegin(g)
  <2>1. \A h \in Goroutine : pc[h] = "idle"
    BY <1>2 DEF LoadBegin, Idle
  <2> QED BY <1>0, <2>1 DEF LoadsAlone
<1>3. ASSUME NEW q \in Request, Begin(g, q) PROVE LoadsAlone'
  <2>1. frame'[g].req = q
    BY <1>3, GotoEffect DEF Begin, NewFrame
  <2>2. \A h \in Goroutine : frame[h].req = LoadRequest => pc[h] = "idle"
    BY <1>3 DEF Begin, Loading, Idle
  <2> QED BY <1>0, <2>1, <2>2, LoadIsNoRequest DEF LoadsAlone
<1> QED BY <1>1, <1>2, <1>3 DEF Acts

-----------------------------------------------------------------------------
(* The caches that races cannot spoil *)

\* A factor on its way to a cache is the one the catalog gives: a root walk
\* either finds every name or gives up.
FactorInHand(l, f) ==
  /\ l = "rstore" => f.val = FactorOf[defs][f.arg]
  /\ l = "fstore" => f.val = FactorOf[defs][Ratio[f.a][f.b]]

FactorInv ==
  /\ FactorsCoherent
  /\ ~stale => \A g \in Goroutine : FactorInHand(pc[g], frame[g])

LEMMA FactorStep ==
  ASSUME TypeInv, LoadsAlone, FactorInv, NEW g \in Goroutine, Acts(g)
  PROVE  FactorInv'
<1> DEFINE f == frame[g]
<1>0. f \in Frame /\ RegistersOK(pc[g], f) /\ defs \in Catalog
  BY DEF TypeInv, TypeOK, Registers
<1>a. \A l, f1 : Goto(g, l, f1) => pc'[g] = l /\ frame'[g] = f1
  BY GotoEffect
<1>b. \A h \in Goroutine \ {g} : pc'[h] = pc[h] /\ frame'[h] = frame[h]
  BY StepRegisters, LoadStepRegisters, BeginRegisters, GotoEffect DEF Acts
<1>c. /\ parseCache \in [Expr -> Container \cup {Absent}]
      /\ rootCache \in [Container -> Factor \cup {Absent}]
      /\ convCache \in [Container \X Container -> Factor \cup {Absent}]
  BY DEF TypeInv, TypeOK
<1> HIDE DEF f
<1>keep. ASSUME defs' = defs, stale' = stale,
                parseCache' = parseCache, rootCache' = rootCache, convCache' = convCache,
                pc'[g] \notin {"rstore", "fstore"}
         PROVE  FactorInv'
  <2>1. \A h \in Goroutine : ~stale => FactorInHand(pc[h], frame[h])
    BY DEF FactorInv
  <2>2. \A h \in Goroutine : (~stale => FactorInHand(pc[h], frame[h]))'
    BY <1>b, <1>keep, <2>1 DEF FactorInHand
  <2>3. FactorsCoherent'
    BY <1>keep DEF FactorInv, FactorsCoherent
  <2> QED BY <2>2, <2>3 DEF FactorInv
<1>1. CASE ParseHit(g) \/ ParseMiss(g) \/ Look(g) \/ InternUnit(g) \/ InternName(g) \/
     ReadName(g)
  <2>1. pc'[g] \notin {"rstore", "fstore"}
    BY <1>1, <1>a DEF ParseHit, ParseMiss, Parsed, Answer, Look, InternUnit, InternName,
         ReadName
  <2> QED BY <1>1, <2>1, <1>keep DEF ParseHit, ParseMiss, Look, InternUnit, InternName,
       ReadName,
             caches, history
<1>2. CASE DimEmpty(g) \/ DimCheck(g) \/ DimRead(g) \/ DimWalked(g) \/ DimWrite(g) \/
     DimStore(g)
  <2>1. pc'[g] \notin {"rstore", "fstore"}
    BY <1>2, <1>a DEF DimEmpty, DimCheck, DimRead, DimWalked, DimWrite, DimStore, Measured,
         Answer
  <2> QED BY <1>2, <2>1, <1>keep DEF DimEmpty, DimCheck, DimRead, DimWalked, DimWrite, DimStore,
             caches, history
<1>3. CASE Dispatch(g) \/ Validate(g) \/ Compare(g) \/ FactorCheck(g) \/ Return(g) \/
     LoadBegin(g)
  <2>1. pc'[g] \notin {"rstore", "fstore"}
    BY <1>3, <1>a DEF Dispatch, Validate, Compare, FactorCheck, Factored, Return, LoadBegin,
         Answer
  <2> QED BY <1>3, <2>1, <1>keep DEF Dispatch, Validate, Compare, FactorCheck, Return,
       LoadBegin,
             caches, history
<1>4. ASSUME NEW q \in Request, Begin(g, q) PROVE FactorInv'
  <2>1. pc'[g] \notin {"rstore", "fstore"}
    BY <1>4, <1>a DEF Begin
  <2> QED BY <1>4, <2>1, <1>keep DEF Begin, caches, history
<1>5. CASE ParseDone(g)
  <2>1. f.req \in Request
    BY <1>0, <1>5 DEF ParseDone, RegistersOK, f
  <2>2. Operand(f) \in Expr
    BY <1>0, <2>1, OperandType
  <2>3. pc'[g] \notin {"rstore", "fstore"}
    BY <1>5, <1>a DEF ParseDone, Parsed, Answer
  <2>4. CASE ParseOf[defs][Operand(f)] = Undefined
    BY <1>5, <2>3, <2>4, <1>keep DEF ParseDone, history, f
  <2>5. CASE ParseOf[defs][Operand(f)] # Undefined
    <3>1. parseCache' = [parseCache EXCEPT ![Operand(f)] = ParseOf[defs][Operand(f)]]
      BY <1>5, <2>5 DEF ParseDone, f
    <3>2. FactorsCoherent'
      BY <1>c, <1>5, <2>2, <3>1 DEF FactorInv, FactorsCoherent, ParseDone, history
    <3>3. \A h \in Goroutine : (~stale => FactorInHand(pc[h], frame[h]))'
      BY <1>5, <1>b, <2>3 DEF FactorInv, FactorInHand, ParseDone, history
    <3> QED BY <3>2, <3>3 DEF FactorInv
  <2> QED BY <2>4, <2>5
<1>6. CASE RootEmpty(g) \/ RootCheck(g) \/ RootWalked(g)
  <2>1. /\ defs' = defs /\ stale' = stale /\ parseCache' = parseCache
        /\ rootCache' = rootCache /\ convCache' = convCache
    BY <1>6 DEF RootEmpty, RootCheck, RootWalked, caches, history
  <2>2. ~stale => FactorInHand(pc'[g], frame'[g])
    <3>1. CASE RootEmpty(g)
      BY <1>0, <1>a, <3>1 DEF RootEmpty, FactorInHand, Frame, f
    <3>2. CASE RootCheck(g)
      <4>1. f.a \in Container /\ f.b \in Container /\ Ratio[f.a][f.b] \in Container
        BY <1>0, FrameFields, TableAssumption
      <4>2. ~stale => rootCache[Ratio[f.a][f.b]] \in {Absent, FactorOf[defs][Ratio[f.a][f.b]]}
        BY <4>1 DEF FactorInv, FactorsCoherent
      <4> DEFINE r == Ratio[f.a][f.b]
                 hit == [f EXCEPT !.val = rootCache[r]]
      <4>3. hit.val = rootCache[r] /\ hit.a = f.a /\ hit.b = f.b
        BY <1>0 DEF Frame
      <4>4. CASE rootCache[r] # Absent
        <5>1. Goto(g, "fstore", hit)
          BY <3>2, <4>4 DEF RootCheck, f
        <5> HIDE DEF hit
        <5> QED BY <1>a, <4>2, <4>3, <4>4, <5>1 DEF FactorInHand
      <4>5. CASE rootCache[r] = Absent
        BY <1>a, <3>2, <4>5 DEF RootCheck, FactorInHand, f
      <4> QED BY <4>4, <4>5
    <3>3. CASE RootWalked(g)
      BY <1>0, <1>a, <3>3 DEF RootWalked, FactorInHand, Frame, f
    <3> QED BY <1>6, <3>1, <3>2, <3>3
  <2>3. \A h \in Goroutine : (~stale => FactorInHand(pc[h], frame[h]))'
    BY <1>b, <2>1, <2>2 DEF FactorInv, FactorInHand
  <2>4. FactorsCoherent'
    BY <2>1 DEF FactorInv, FactorsCoherent
  <2> QED BY <2>3, <2>4 DEF FactorInv
<1>7. CASE RootStore(g)
  <2>1. f.arg \in Container /\ f.arg = Ratio[f.a][f.b]
     /\ (~stale => f.val = FactorOf[defs][f.arg])
    BY <1>0, <1>7, FrameFields DEF RootStore, RegistersOK, FactorInv, FactorInHand, f
  <2>2. rootCache' = [rootCache EXCEPT ![f.arg] = f.val] /\ pc'[g] = "fstore" /\ frame'[g] = f
    BY <1>7, <1>a DEF RootStore, f
  <2>3. /\ defs' = defs /\ stale' = stale /\ parseCache' = parseCache /\ convCache' = convCache
    BY <1>7 DEF RootStore, history
  <2>4. FactorsCoherent'
    BY <1>c, <2>1, <2>2, <2>3 DEF FactorInv, FactorsCoherent
  <2>5. ~stale => FactorInHand(pc'[g], frame'[g])
    BY <2>1, <2>2 DEF FactorInHand
  <2>6. \A h \in Goroutine : (~stale => FactorInHand(pc[h], frame[h]))'
    BY <1>b, <2>3, <2>5 DEF FactorInv, FactorInHand
  <2> QED BY <2>4, <2>6 DEF FactorInv
<1>8. CASE FactorStore(g)
  <2>1. /\ f.a \in Container /\ f.b \in Container
        /\ ~stale => f.val = FactorOf[defs][Ratio[f.a][f.b]]
    BY <1>0, <1>8, FrameFields DEF FactorStore, FactorInv, FactorInHand, f
  <2>2. convCache' = [convCache EXCEPT ![<<f.a, f.b>>] = f.val]
    BY <1>8 DEF FactorStore, FactorKey, f
  <2>3. pc'[g] \notin {"rstore", "fstore"}
    BY <1>8, <1>a DEF FactorStore, Factored, Answer
  <2>4. /\ defs' = defs /\ stale' = stale /\ parseCache' = parseCache /\ rootCache' = rootCache
    BY <1>8 DEF FactorStore, history
  <2>5. ASSUME ~stale, NEW u \in Container, NEW v \in Container
        PROVE  convCache'[<<u, v>>] \in {Absent, FactorOf[defs][Ratio[u][v]]}
    <3>1. CASE u = f.a /\ v = f.b
      BY <1>c, <2>1, <2>2, <2>5, <3>1
    <3>2. CASE ~(u = f.a /\ v = f.b)
      <4>1. convCache'[<<u, v>>] = convCache[<<u, v>>]
        BY <1>c, <2>2, <3>2
      <4> QED BY <2>5, <4>1 DEF FactorInv, FactorsCoherent
    <3> QED BY <3>1, <3>2
  <2>6. FactorsCoherent'
    BY <2>4, <2>5 DEF FactorInv, FactorsCoherent
  <2>7. \A h \in Goroutine : (~stale => FactorInHand(pc[h], frame[h]))'
    BY <1>b, <2>3, <2>4 DEF FactorInv, FactorInHand
  <2> QED BY <2>6, <2>7 DEF FactorInv
<1>9. ASSUME NEW c \in Catalog, LoadApply(g, c) PROVE FactorInv'
  BY <1>9 DEF LoadApply, FactorInv, FactorsCoherent
<1>10. CASE LoadFail(g)
  <2>1. pc'[g] \notin {"rstore", "fstore"}
    BY <1>10, <1>a DEF LoadFail
  <2> QED BY <1>10, <2>1, <1>keep DEF LoadFail, caches, history
<1>11. CASE LoadSucceed(g)
  <2>1. FactorsCoherent'
    BY <1>11 DEF LoadSucceed, BuildCaches, FactorsCoherent, EmptyParseCache, EmptyCache,
         EmptyConvCache
  <2>2. f.req = LoadRequest /\ pc[g] = "loadend"
    BY <1>0, <1>11 DEF LoadSucceed, RegistersOK
  <2>3. \A h \in Goroutine : pc'[h] = "idle"
    BY <1>11, <1>a, <1>b, <2>2 DEF LoadSucceed, LoadsAlone, f
  <2> QED BY <2>1, <2>3 DEF FactorInv, FactorInHand
<1> QED
  BY <1>1, <1>2, <1>3, <1>4, <1>5, <1>6, <1>7, <1>8, <1>9, <1>10, <1>11 DEF Acts, Step, LoadStep

LEMMA SafetyInit == Init => LoadsAlone /\ FactorInv
<1> SUFFICES ASSUME Init PROVE LoadsAlone /\ FactorInv
  OBVIOUS
<1>1. \A g \in Goroutine : pc[g] = "idle"
  BY DEF Init
<1>2. FactorsCoherent
  BY DEF Init, FactorsCoherent, EmptyParseCache, EmptyCache, EmptyConvCache
<1> QED BY <1>1, <1>2 DEF LoadsAlone, FactorInv, FactorInHand

LEMMA SafetyStep ==
  TypeInv /\ LoadsAlone /\ FactorInv /\ [Next]_vars => LoadsAlone' /\ FactorInv'
<1> SUFFICES ASSUME TypeInv, LoadsAlone, FactorInv, [Next]_vars PROVE LoadsAlone' /\ FactorInv'
  OBVIOUS
<1>1. CASE UNCHANGED vars \/ MapFault
  BY <1>1 DEF LoadsAlone, FactorInv, FactorsCoherent, FactorInHand, MapFault, vars, caches
<1> QED BY <1>1, LoadsAloneStep, FactorStep DEF Next, Acts

\* Under the documented contract, and through every data race the code has, the
\* parse, root and conversion caches agree with the catalog.
THEOREM FactorsStayCoherent == Spec => []FactorsCoherent
<1>1. FactorInv => FactorsCoherent
  BY DEF FactorInv
<1> QED BY TypeInit, TypeStep, SafetyInit, SafetyStep, <1>1, PTL DEF Spec
=============================================================================
