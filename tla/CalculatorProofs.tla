--------------------------- MODULE CalculatorProofs ---------------------------
(***************************************************************************)
(* The expression parser, for texts of any length.                         *)
(*                                                                         *)
(* First, its call stack explains the text that it has read: every open    *)
(* parenthesis is a pending call and no accepted text had an error or a    *)
(* parenthesis left.                                                       *)
(*                                                                         *)
(* Then, it computes the grammar.  A call that is pending takes the values *)
(* that may be returned to it, told by the place of the word ahead, to     *)
(* those that it returns (Through); the loop of parseExpr is one such step *)
(* (Exits), and from the values of a unary it comes to those of the rule   *)
(* that its least binding power stands for (ExitsRule).  The invariant is  *)
(* that the pending calls, applied from the innermost to the outermost,    *)
(* make of what the parser is about to return the values that the grammar  *)
(* gives every text that begins with what is read (Explains).  When the    *)
(* text has ended, that is the text itself.                                *)
(***************************************************************************)
EXTENDS Calculator, FiniteSetTheorems, SequenceTheorems, NaturalsInduction, WellFoundedInduction, TLAPS

AnyToken == Token \cup {EOF, Bad}

\* How many tokens of a kind the text has, and whether the next one is of it.
At(s, k) == {i \in DOMAIN s : s[i].kind = k}
Count(k) == Cardinality(At(text, k))
Ahead(k) == IF Tok.kind = k THEN 1 ELSE 0

\* How many pending calls wait for a closing parenthesis.
Waiting(s) == {i \in DOMAIN s : s[i].call = "paren"}
Pending(s) == Cardinality(Waiting(s))

Frames(s) == \E T : s \in Seq(T) /\ \A f \in T : "call" \in DOMAIN f

\* The parentheses that the tokens read so far leave open.
Open == (Count("(") - Ahead("(")) - (Count(")") - Ahead(")"))

\* Inductive: what the places in the code know besides.
IInv ==
  /\ text \in Seq(AnyToken) /\ err \in BOOLEAN /\ Frames(stack)
  /\ at = "start" => text = << >> /\ ~err /\ stack = << >>
  /\ at = "first" => stack = <<ExprCall(0)>> /\ (text = <<EOF>> => ~err)
  /\ at = "infix" => stack # << >> /\ Top.call = "expr"
  /\ at \in {"first", "unary", "infix", "return"} => Pending(stack) = Open
  /\ at = "accepted" => ~err /\ Count("(") = Count(")")

-----------------------------------------------------------------------------
(* Counting *)

\* A set of indices, with or without the next one.
LEMMA CountNext ==
  ASSUME NEW n \in Nat, NEW I \in SUBSET (1..n)
  PROVE  /\ Cardinality(I) \in Nat
         /\ Cardinality(I \cup {n + 1}) = Cardinality(I) + 1
  <1>1. IsFiniteSet(I)
    <2>1. 1 \in Int /\ n \in Int
      OBVIOUS
    <2>2. IsFiniteSet(1..n)
      BY <2>1, FS_Interval
    <2> QED
      BY <2>2, FS_Subset
  <1>2. n + 1 \notin I
    OBVIOUS
  <1> QED
    BY <1>1, <1>2, FS_AddElement, FS_CardinalityType

LEMMA CountAppended ==
  ASSUME NEW S, NEW s \in Seq(S), NEW t \in S, NEW k
  PROVE  /\ Cardinality(At(s, k)) \in Nat
         /\ Cardinality(At(Append(s, t), k)) =
              Cardinality(At(s, k)) + IF t.kind = k THEN 1 ELSE 0
  <1>1. Len(s) \in Nat /\ At(s, k) \in SUBSET (1..Len(s))
    BY DEF At
  <1>2. At(Append(s, t), k) = IF t.kind = k THEN At(s, k) \cup {Len(s) + 1} ELSE At(s, k)
    BY DEF At
  <1>3. /\ Cardinality(At(s, k)) \in Nat
        /\ Cardinality(At(s, k) \cup {Len(s) + 1}) = Cardinality(At(s, k)) + 1
    BY <1>1, CountNext
  <1>4. CASE t.kind = k
    BY <1>2, <1>3, <1>4
  <1>5. CASE t.kind # k
    BY <1>2, <1>3, <1>5
  <1> QED
    BY <1>4, <1>5

LEMMA PendingPushed ==
  ASSUME NEW s, Frames(s), NEW f, "call" \in DOMAIN f
  PROVE  /\ Frames(Append(s, f))
         /\ Pending(s) \in Nat
         /\ Pending(Append(s, f)) = Pending(s) + IF f.call = "paren" THEN 1 ELSE 0
         /\ Append(s, f) # << >> /\ Append(s, f)[Len(Append(s, f))] = f
  <1>1. PICK T : s \in Seq(T) /\ \A g \in T : "call" \in DOMAIN g
    BY DEF Frames
  <1> DEFINE U == T \cup {f}
  <1>2. s \in Seq(U) /\ Append(s, f) \in Seq(U) /\ \A g \in U : "call" \in DOMAIN g
    BY <1>1
  <1>3. Len(s) \in Nat /\ Waiting(s) \in SUBSET (1..Len(s))
    BY <1>2 DEF Waiting
  <1>4. Waiting(Append(s, f)) = IF f.call = "paren" THEN Waiting(s) \cup {Len(s) + 1}
                                ELSE Waiting(s)
    BY <1>2 DEF Waiting
  <1>5. Append(s, f) # << >> /\ Append(s, f)[Len(Append(s, f))] = f
    BY <1>2
  <1>6. /\ Pending(s) \in Nat
        /\ Cardinality(Waiting(s) \cup {Len(s) + 1}) = Pending(s) + 1
    BY <1>3, CountNext DEF Pending
  <1>7. Pending(Append(s, f)) = Pending(s) + IF f.call = "paren" THEN 1 ELSE 0
    <2>1. CASE f.call = "paren"
      BY <1>4, <1>6, <2>1 DEF Pending
    <2>2. CASE f.call # "paren"
      BY <1>4, <1>6, <2>2 DEF Pending
    <2> QED
      BY <2>1, <2>2
  <1>8. Frames(Append(s, f))
    BY <1>2 DEF Frames
  <1> QED
    BY <1>5, <1>6, <1>7, <1>8

LEMMA CallPushed ==
  ASSUME NEW s, Frames(s), NEW f, "call" \in DOMAIN f, f.call # "paren"
  PROVE  Frames(Append(s, f)) /\ Pending(Append(s, f)) = Pending(s)
BY PendingPushed

LEMMA PendingPopped ==
  ASSUME NEW s, Frames(s), s # << >>
  PROVE  LET p == SubSeq(s, 1, Len(s) - 1)
             f == s[Len(s)]
         IN  /\ Frames(p) /\ "call" \in DOMAIN f
             /\ Pending(p) \in Nat
             /\ Pending(s) = Pending(p) + IF f.call = "paren" THEN 1 ELSE 0
  <1> DEFINE p == SubSeq(s, 1, Len(s) - 1)
             f == s[Len(s)]
  <1>1. PICK T : s \in Seq(T) /\ \A g \in T : "call" \in DOMAIN g
    BY DEF Frames
  <1>2. p \in Seq(T) /\ f \in T
    BY <1>1
  <1>3. s = Append(p, f)
    BY <1>1, <1>2
  <1>4. Frames(p) /\ "call" \in DOMAIN f
    BY <1>1, <1>2 DEF Frames
  <1> QED
    BY <1>3, <1>4, PendingPushed

\* A token is read: the one that was ahead counts from now on.
LEMMA LexReads ==
  ASSUME text \in Seq(AnyToken), ~err, Lex, NEW k \in {"(", ")"}
  PROVE  /\ text' \in Seq(AnyToken) /\ err' \in BOOLEAN
         /\ Count(k) \in Nat /\ Count(k)' - Ahead(k)' = Count(k)
  <1>1. PICK t \in AnyToken : text' = Append(text, t) /\ err' = (err \/ t = Bad)
    BY DEF Lex, AnyToken
  <1>2. /\ text' \in Seq(AnyToken) /\ text' # << >> /\ text'[Len(text')] = t
    BY <1>1
  <1>3. /\ Count(k) \in Nat
        /\ Count(k)' = Count(k) + IF t.kind = k THEN 1 ELSE 0
    BY <1>1, CountAppended DEF Count
  <1>4. t = Bad => Count(k)' - Ahead(k)' = Count(k)
    <2> HAVE t = Bad
    <2>1. Tok' = EOF /\ t.kind # k
      BY <1>1 DEF Tok, Bad
    <2>2. Ahead(k)' = 0
      BY <2>1 DEF Ahead, EOF
    <2> QED
      BY <1>3, <2>1, <2>2
  <1>5. t # Bad => Count(k)' - Ahead(k)' = Count(k)
    <2> HAVE t # Bad
    <2>1. Tok' = t
      BY <1>1, <1>2 DEF Tok
    <2>2. Ahead(k)' = IF t.kind = k THEN 1 ELSE 0
      BY <2>1 DEF Ahead
    <2>3. Count(k)' = Count(k) + Ahead(k)' /\ Ahead(k)' \in Nat
      <3>1. CASE t.kind = k
        BY <1>3, <2>2, <3>1
      <3>2. CASE t.kind # k
        BY <1>3, <2>2, <3>2
      <3> QED
        BY <3>1, <3>2
    <2> QED
      BY <1>3, <2>3
  <1>6. err' \in BOOLEAN
    BY <1>1
  <1> QED
    BY <1>2, <1>3, <1>4, <1>5, <1>6

\* Only the end of the text is seen after an error.
LEMMA NoTokenAfterError == err => Tok.kind = "EOF" /\ ~Continues
BY DEF Tok, EOF, Continues, IsInfix, Implicit, Operator

LEMMA LexOpens ==
  ASSUME text \in Seq(AnyToken), ~err, Lex
  PROVE  /\ text' \in Seq(AnyToken) /\ err' \in BOOLEAN
         /\ Open' = Count("(") - Count(")")
BY LexReads DEF Open

LEMMA TextStays ==
  ASSUME UNCHANGED <<text, err>>
  PROVE  Open' = Open /\ Tok' = Tok /\ \A k : Count(k)' = Count(k)
BY DEF Open, Count, At, Ahead, Tok

\* What is open by the token ahead.
LEMMA OpenAhead ==
  ASSUME text \in Seq(AnyToken)
  PROVE  /\ Tok.kind \notin {"(", ")"} => Open = Count("(") - Count(")")
         /\ Tok.kind = "(" => Open = Count("(") - Count(")") - 1
         /\ Tok.kind = ")" => Open = Count("(") - Count(")") + 1
  <1>1. EOF \in AnyToken
    BY DEF AnyToken
  <1>2. Count("(") \in Nat /\ Count(")") \in Nat
    BY <1>1, CountAppended DEF Count
  <1> QED
    BY <1>2 DEF Open, Ahead

\* Tokens and the kinds they have.
LEMMA TokenKinds ==
  /\ Tok \in Operand => Tok.kind \in {"number", "ident"}
  /\ Tok \in Operator => Tok.kind \in {"+", "-", "*", "/", "**"}
  /\ EOF.kind = "EOF"
BY DEF Operand, Operator, EOF

LEMMA NothingPending ==
  /\ Frames(<< >>) /\ Pending(<< >>) = 0
  /\ Frames(<<ExprCall(0)>>) /\ Pending(<<ExprCall(0)>>) = 0
  <1>1. Frames(<< >>) /\ Pending(<< >>) = 0
    <2>1. Waiting(<< >>) = {} /\ << >> \in Seq({})
      BY DEF Waiting
    <2> QED
      BY <2>1, FS_EmptySet DEF Frames, Pending
  <1>2. /\ "call" \in DOMAIN ExprCall(0) /\ ExprCall(0).call = "expr"
        /\ <<ExprCall(0)>> = Append(<< >>, ExprCall(0))
    BY DEF ExprCall
  <1>3. /\ Frames(Append(<< >>, ExprCall(0)))
        /\ Pending(Append(<< >>, ExprCall(0))) = Pending(<< >>) + 0
    <2>1. ExprCall(0).call # "paren"
      BY <1>2
    <2> QED
      BY <1>1, <1>2, <2>1, PendingPushed
  <1> QED
    BY <1>1, <1>2, <1>3

-----------------------------------------------------------------------------
(* The parser *)

LEMMA StartKeeps == IInv /\ Start => IInv'
  <1> SUFFICES ASSUME IInv, Start PROVE IInv'
    OBVIOUS
  <1>1. /\ text = << >> /\ ~err /\ text \in Seq(AnyToken)
        /\ Lex /\ stack' = <<ExprCall(0)>> /\ at' = "first"
    BY DEF IInv, Start
  <1>2. text' \in Seq(AnyToken) /\ err' \in BOOLEAN /\ Open' = Count("(") - Count(")")
    BY <1>1, LexOpens
  <1>3. Count("(") = 0 /\ Count(")") = 0
    <2>1. At(text, "(") = {} /\ At(text, ")") = {}
      BY <1>1 DEF At
    <2> QED
      BY <2>1, FS_EmptySet DEF Count
  <1>4. text' = <<EOF>> => ~err'
    <2>1. PICK t \in AnyToken : text' = Append(text, t) /\ err' = (err \/ t = Bad)
      BY <1>1 DEF Lex, AnyToken
    <2>2. text' = <<EOF>> => t = EOF
      BY <1>1, <2>1
    <2>3. EOF # Bad
      BY DEF EOF, Bad
    <2> QED
      BY <1>1, <2>1, <2>2, <2>3
  <1>5. Frames(stack') /\ Pending(stack') = 0
    BY <1>1, NothingPending
  <1> QED
    BY <1>1, <1>2, <1>3, <1>4, <1>5 DEF IInv

LEMMA FirstKeeps == IInv /\ First => IInv'
  <1> SUFFICES ASSUME IInv, First PROVE IInv'
    OBVIOUS
  <1>1. /\ text \in Seq(AnyToken) /\ err \in BOOLEAN /\ UNCHANGED <<text, err>>
        /\ stack = <<ExprCall(0)>> /\ (text = <<EOF>> => ~err) /\ Pending(stack) = Open
    BY DEF IInv, First
  <1>2. Open' = Open /\ Count("(")' = Count("(") /\ Count(")")' = Count(")")
    BY <1>1, TextStays
  <1>3. stack' \in {<<ExprCall(0)>>, << >>} /\ (at' = "unary" => stack' = stack)
    BY <1>1 DEF First
  <1>4. Frames(stack')
    BY <1>3, NothingPending
  <1>5. text = <<EOF>> => Count("(") = Count(")")
    <2> HAVE text = <<EOF>>
    <2>1. At(text, "(") = {} /\ At(text, ")") = {}
      BY TokenKinds DEF At
    <2> QED
      BY <2>1 DEF Count
  <1>6. \/ at' = "accepted" /\ text = <<EOF>>
        \/ at' = "refused"
        \/ at' = "unary" /\ stack' = stack
    BY <1>1 DEF First
  <1> QED
    BY <1>1, <1>2, <1>4, <1>5, <1>6 DEF IInv

\* A token that is not the end of the text has no error before it.
LEMMA UnaryReads ==
  ASSUME IInv, at = "unary", Tok.kind # "EOF", Lex
  PROVE  /\ text' \in Seq(AnyToken) /\ err' \in BOOLEAN /\ ~err
         /\ Open' = Count("(") - Count(")") /\ Pending(stack) = Open
         /\ text \in Seq(AnyToken) /\ Frames(stack) /\ Pending(stack) \in Nat
  <1>1. /\ text \in Seq(AnyToken) /\ Frames(stack) /\ Pending(stack) = Open /\ err \in BOOLEAN
    BY DEF IInv
  <1>2. ~err
    BY NoTokenAfterError
  <1>3. Pending(stack) \in Nat
    <2>1. "call" \in DOMAIN NegCall
      BY DEF NegCall, ExprCall
    <2> QED
      BY <1>1, <2>1, PendingPushed
  <1> QED
    BY <1>1, <1>2, <1>3, LexOpens

LEMMA PlusSignKeeps == IInv /\ PlusSign => IInv'
  <1> SUFFICES ASSUME IInv, PlusSign PROVE IInv'
    OBVIOUS
  <1>1. at = "unary" /\ at' = "unary" /\ stack' = stack /\ Tok.kind = "+" /\ Lex
    BY DEF PlusSign
  <1>2. /\ text' \in Seq(AnyToken) /\ err' \in BOOLEAN /\ text \in Seq(AnyToken)
        /\ Open' = Count("(") - Count(")") /\ Pending(stack) = Open /\ Frames(stack)
    BY <1>1, UnaryReads
  <1>3. Open' = Open
    BY <1>1, <1>2, OpenAhead
  <1> QED
    BY <1>1, <1>2, <1>3 DEF IInv

LEMMA MinusSignKeeps == IInv /\ MinusSign => IInv'
  <1> SUFFICES ASSUME IInv, MinusSign PROVE IInv'
    OBVIOUS
  <1>1. /\ at = "unary" /\ at' = "unary" /\ Tok.kind = "-" /\ Lex
        /\ stack' = Append(stack, NegCall)
    BY DEF MinusSign
  <1>2. /\ text' \in Seq(AnyToken) /\ err' \in BOOLEAN /\ text \in Seq(AnyToken)
        /\ Open' = Count("(") - Count(")") /\ Pending(stack) = Open /\ Frames(stack)
        /\ Pending(stack) \in Nat
    BY <1>1, UnaryReads
  <1>3. Open' = Open
    BY <1>1, <1>2, OpenAhead
  <1>4. Frames(stack') /\ Pending(stack') = Pending(stack)
    <2>1. "call" \in DOMAIN NegCall /\ NegCall.call = "neg"
      BY DEF NegCall, ExprCall
    <2> QED
      BY <1>1, <1>2, <2>1, PendingPushed
  <1> QED
    BY <1>1, <1>2, <1>3, <1>4 DEF IInv

LEMMA ReadOperandKeeps == IInv /\ ReadOperand => IInv'
  <1> SUFFICES ASSUME IInv, ReadOperand PROVE IInv'
    OBVIOUS
  <1>1. /\ at = "unary" /\ at' = "return" /\ stack' = stack /\ Lex
        /\ Tok.kind \in {"number", "ident"}
    BY TokenKinds DEF ReadOperand
  <1>2. /\ text' \in Seq(AnyToken) /\ err' \in BOOLEAN /\ text \in Seq(AnyToken)
        /\ Open' = Count("(") - Count(")") /\ Pending(stack) = Open /\ Frames(stack)
    BY <1>1, UnaryReads
  <1>3. Open' = Open
    BY <1>1, <1>2, OpenAhead
  <1> QED
    BY <1>1, <1>2, <1>3 DEF IInv

LEMMA OpenParenKeeps == IInv /\ OpenParen => IInv'
  <1> SUFFICES ASSUME IInv, OpenParen PROVE IInv'
    OBVIOUS
  <1>1. /\ at = "unary" /\ at' = "unary" /\ Tok.kind = "(" /\ Lex
        /\ stack' = stack \o <<ParenCall, ExprCall(0)>>
    BY DEF OpenParen
  <1>2. /\ text' \in Seq(AnyToken) /\ err' \in BOOLEAN /\ text \in Seq(AnyToken)
        /\ Open' = Count("(") - Count(")") /\ Pending(stack) = Open /\ Frames(stack)
        /\ Pending(stack) \in Nat
    BY <1>1, UnaryReads
  <1>3. Open' = Open + 1
    <2>1. Open = Count("(") - Count(")") - 1
      BY <1>1, <1>2, OpenAhead
    <2>2. Count("(") - Count(")") \in Int
      BY <1>2, UnaryReads, CountAppended DEF Count
    <2> QED
      BY <1>2, <2>1, <2>2
  <1>4. Frames(stack') /\ Pending(stack') = Pending(stack) + 1
    <2> DEFINE p == Append(stack, ParenCall)
    <2>1. /\ "call" \in DOMAIN ParenCall /\ ParenCall.call = "paren"
          /\ "call" \in DOMAIN ExprCall(0) /\ ExprCall(0).call = "expr"
      BY DEF ParenCall, ExprCall
    <2>2. Frames(p) /\ Pending(p) = Pending(stack) + 1 /\ Pending(p) \in Nat
      BY <1>2, <2>1, PendingPushed
    <2>3. stack' = Append(p, ExprCall(0))
      BY <1>1, <1>2 DEF Frames
    <2> HIDE DEF p
    <2>4. Frames(stack') /\ Pending(stack') = Pending(p)
      BY <2>1, <2>2, <2>3, CallPushed
    <2> QED
      BY <2>2, <2>4
  <1> QED
    BY <1>1, <1>2, <1>3, <1>4 DEF IInv

\* A value is returned to a call.
LEMMA Returning ==
  ASSUME IInv, at = "return"
  PROVE  /\ text \in Seq(AnyToken) /\ err \in BOOLEAN /\ Frames(stack)
         /\ Pending(stack) = Open
         /\ stack # << >> =>
              /\ Frames(Pop) /\ "call" \in DOMAIN Top /\ Pending(Pop) \in Nat
              /\ Pending(stack) = Pending(Pop) + IF Top.call = "paren" THEN 1 ELSE 0
  <1>1. /\ text \in Seq(AnyToken) /\ err \in BOOLEAN /\ Frames(stack)
        /\ Pending(stack) = Open
    BY DEF IInv
  <1> QED
    BY <1>1, PendingPopped DEF Pop, Top

LEMMA NegReturnKeeps == IInv /\ NegReturn => IInv'
  <1> SUFFICES ASSUME IInv, NegReturn PROVE IInv'
    OBVIOUS
  <1>1. /\ at = "return" /\ at' = "return" /\ stack # << >> /\ Top.call = "neg"
        /\ stack' = Pop /\ UNCHANGED <<text, err>>
    BY DEF NegReturn
  <1>2. /\ text \in Seq(AnyToken) /\ err \in BOOLEAN /\ Pending(stack) = Open
        /\ Frames(Pop) /\ Pending(Pop) \in Nat /\ Pending(stack) = Pending(Pop)
    BY <1>1, Returning
  <1>3. Open' = Open
    BY <1>1, TextStays
  <1> QED
    BY <1>1, <1>2, <1>3 DEF IInv

LEMMA RefuseKeeps ==
  ASSUME IInv, Refuse
  PROVE  IInv'
  <1>1. /\ at' = "refused" /\ stack' = << >> /\ UNCHANGED <<text, err>>
        /\ text \in Seq(AnyToken) /\ err \in BOOLEAN
    BY DEF IInv, Refuse
  <1> QED
    BY <1>1, NothingPending DEF IInv

LEMMA ParenReturnKeeps == IInv /\ ParenReturn => IInv'
  <1> SUFFICES ASSUME IInv, ParenReturn PROVE IInv'
    OBVIOUS
  <1>1. at = "return" /\ stack # << >> /\ Top.call = "paren"
    BY DEF ParenReturn
  <1>2. CASE Tok.kind = ")"
    <2>1. Lex /\ stack' = Pop /\ at' = "return"
      BY <1>1, <1>2 DEF ParenReturn
    <2>2. /\ text \in Seq(AnyToken) /\ err \in BOOLEAN /\ Pending(stack) = Open
          /\ Frames(Pop) /\ Pending(Pop) \in Nat /\ Pending(stack) = Pending(Pop) + 1
      BY <1>1, Returning
    <2>3. ~err
      BY <1>2, NoTokenAfterError
    <2>4. text' \in Seq(AnyToken) /\ err' \in BOOLEAN /\ Open' = Count("(") - Count(")")
      BY <2>1, <2>2, <2>3, LexOpens
    <2>5. Count("(") \in Nat /\ Count(")") \in Nat
      BY <2>1, <2>2, <2>3, LexReads
    <2>6. Open = Count("(") - Count(")") + 1
      BY <1>2, <2>2, OpenAhead
    <2>7. Pending(Pop) = Open'
      <3>1. Count("(") - Count(")") \in Int
        BY <2>5
      <3>2. Pending(Pop) + 1 = Count("(") - Count(")") + 1
        BY <2>2, <2>6
      <3>3. Pending(Pop) = Count("(") - Count(")")
        BY <2>2, <3>1, <3>2
      <3> QED
        BY <2>4, <3>3
    <2> QED
      BY <2>1, <2>2, <2>4, <2>7 DEF IInv
  <1>3. CASE Tok.kind # ")"
    BY <1>3, RefuseKeeps DEF ParenReturn
  <1> QED
    BY <1>2, <1>3

\* The loop of parseExpr: its frame is on top of the stack before and after.
LEMMA FrameReplaced ==
  ASSUME IInv, at \in {"return", "infix"}, stack # << >>, Top.call = "expr",
         NEW f, "call" \in DOMAIN f, f.call = "expr"
  PROVE  /\ Frames(Append(Pop, f)) /\ Pending(Append(Pop, f)) = Pending(stack)
         /\ Append(Pop, f) # << >>
         /\ Append(Pop, f)[Len(Append(Pop, f))] = f
  <1>1. /\ Frames(Pop) /\ Pending(Pop) \in Nat
        /\ Pending(stack) = Pending(Pop) + IF Top.call = "paren" THEN 1 ELSE 0
    BY PendingPopped DEF IInv, Pop, Top
  <1>2. Pending(stack) = Pending(Pop)
    BY <1>1
  <1> QED
    BY <1>1, <1>2, CallPushed, PendingPushed

LEMMA FirstOperandKeeps == IInv /\ FirstOperand => IInv'
  <1> SUFFICES ASSUME IInv, FirstOperand PROVE IInv'
    OBVIOUS
  <1> DEFINE f == [Top EXCEPT !.left = val]
  <1>1. /\ at = "return" /\ at' = "infix" /\ stack # << >> /\ Top.call = "expr"
        /\ stack' = Append(Pop, f) /\ UNCHANGED <<text, err>>
    BY DEF FirstOperand
  <1>2. /\ text \in Seq(AnyToken) /\ err \in BOOLEAN /\ Pending(stack) = Open
        /\ "call" \in DOMAIN Top
    BY <1>1, Returning
  <1>3. "call" \in DOMAIN f /\ f.call = "expr"
    BY <1>1, <1>2
  <1> HIDE DEF f
  <1>4. /\ Frames(stack') /\ Pending(stack') = Pending(stack)
        /\ stack' # << >> /\ Top' = f
    BY <1>1, <1>3, FrameReplaced DEF Top
  <1>5. Open' = Open
    BY <1>1, TextStays
  <1> QED
    BY <1>1, <1>2, <1>3, <1>4, <1>5 DEF IInv

LEMMA RightOperandKeeps == IInv /\ RightOperand => IInv'
  <1> SUFFICES ASSUME IInv, RightOperand PROVE IInv'
    OBVIOUS
  <1> DEFINE f == [Top EXCEPT !.left = Apply(Top.op, Top.left, val), !.op = "none"]
  <1>1. at = "return" /\ stack # << >> /\ Top.call = "expr"
    BY DEF RightOperand
  <1>2. CASE Accepts(Top.op, Top.left, val) /\ ~err
    <2>1. at' = "infix" /\ stack' = Append(Pop, f) /\ UNCHANGED <<text, err>>
      BY <1>2 DEF RightOperand
    <2>2. /\ text \in Seq(AnyToken) /\ err \in BOOLEAN /\ Pending(stack) = Open
          /\ "call" \in DOMAIN Top
      BY <1>1, Returning
    <2>3. "call" \in DOMAIN f /\ f.call = "expr"
      BY <1>1, <2>2
    <2> HIDE DEF f
    <2>4. /\ Frames(stack') /\ Pending(stack') = Pending(stack)
          /\ stack' # << >> /\ Top' = f
      BY <1>1, <2>1, <2>3, FrameReplaced DEF Top
    <2>5. Open' = Open
      BY <2>1, TextStays
    <2> QED
      BY <2>1, <2>2, <2>3, <2>4, <2>5 DEF IInv
  <1>3. CASE ~(Accepts(Top.op, Top.left, val) /\ ~err)
    BY <1>3, RefuseKeeps DEF RightOperand
  <1> QED
    BY <1>2, <1>3

LEMMA InfixKeeps == IInv /\ Infix => IInv'
  <1> SUFFICES ASSUME IInv, Infix PROVE IInv'
    OBVIOUS
  <1> DEFINE f == [Top EXCEPT !.op = InfixOp(Tok)]
             g == ExprCall(RightBP(InfixOp(Tok)))
  <1>1. /\ at = "infix" /\ at' = "unary" /\ Continues /\ stack' = Append(Pop, f) \o <<g>>
        /\ IF Implicit(Tok) THEN UNCHANGED <<text, err>> ELSE Lex
    BY DEF Infix
  <1>2. /\ text \in Seq(AnyToken) /\ err \in BOOLEAN /\ Frames(stack) /\ Pending(stack) = Open
        /\ stack # << >> /\ Top.call = "expr"
    BY <1>1 DEF IInv
  <1>3. /\ "call" \in DOMAIN f /\ f.call = "expr"
        /\ "call" \in DOMAIN g /\ g.call = "expr"
    <2>1. "call" \in DOMAIN Top
      BY <1>2, PendingPopped DEF Top
    <2> QED
      BY <1>2, <2>1 DEF ExprCall
  <1> DEFINE p == Append(Pop, f)
  <1>4. Frames(p) /\ Pending(p) = Pending(stack)
    <2> HIDE DEF f, g
    <2> QED
      BY <1>1, <1>2, <1>3, FrameReplaced
  <1>5. Frames(stack') /\ Pending(stack') = Pending(stack)
    <2> HIDE DEF p, f, g
    <2>1. stack' = Append(p, g)
      BY <1>1, <1>4 DEF p, Frames
    <2> QED
      BY <1>3, <1>4, <2>1, CallPushed
  <1>6. text' \in Seq(AnyToken) /\ err' \in BOOLEAN /\ Open' = Open
    <2>1. CASE Implicit(Tok)
      BY <1>1, <1>2, <2>1, TextStays
    <2>2. CASE ~Implicit(Tok)
      <3>1. ~err /\ Lex
        BY <1>1, <2>2, NoTokenAfterError
      <3>2. Tok.kind \notin {"(", ")"}
        BY <1>1, <2>2, TokenKinds DEF Continues, IsInfix
      <3> QED
        BY <1>2, <3>1, <3>2, LexOpens, OpenAhead
    <2> QED
      BY <2>1, <2>2
  <1> HIDE DEF f, g
  <1> QED
    BY <1>1, <1>2, <1>5, <1>6 DEF IInv

LEMMA LeaveKeeps == IInv /\ Leave => IInv'
  <1> SUFFICES ASSUME IInv, Leave PROVE IInv'
    OBVIOUS
  <1>1. /\ at = "infix" /\ at' = "return" /\ stack' = Pop /\ UNCHANGED <<text, err>>
    BY DEF Leave
  <1>2. /\ text \in Seq(AnyToken) /\ err \in BOOLEAN /\ Frames(stack) /\ Pending(stack) = Open
        /\ stack # << >> /\ Top.call = "expr"
    BY <1>1 DEF IInv
  <1>3. /\ Frames(Pop) /\ Pending(Pop) \in Nat
        /\ Pending(stack) = Pending(Pop) + IF Top.call = "paren" THEN 1 ELSE 0
    BY <1>2, PendingPopped DEF Pop, Top
  <1>4. Pending(Pop) = Pending(stack) /\ Open' = Open
    BY <1>1, <1>2, <1>3, TextStays
  <1> QED
    BY <1>1, <1>2, <1>3, <1>4 DEF IInv

LEMMA FinishKeeps == IInv /\ Finish => IInv'
  <1> SUFFICES ASSUME IInv, Finish PROVE IInv'
    OBVIOUS
  <1>1. /\ at = "return" /\ stack = << >> /\ UNCHANGED <<text, err, stack>>
        /\ at' = IF Tok = EOF /\ ~err THEN "accepted" ELSE "refused"
    BY DEF Finish
  <1>2. /\ text \in Seq(AnyToken) /\ err \in BOOLEAN /\ Frames(stack) /\ Pending(stack) = Open
    BY <1>1 DEF IInv
  <1>3. Tok = EOF => Count("(") = Count(")")
    <2> HAVE Tok = EOF
    <2>1. Open = 0
      BY <1>1, <1>2, NothingPending
    <2>2. Open = Count("(") - Count(")")
      BY <1>2, OpenAhead, TokenKinds
    <2>3. EOF \in AnyToken
      BY DEF AnyToken
    <2>4. Count("(") \in Nat /\ Count(")") \in Nat
      BY <1>2, <2>3, CountAppended DEF Count
    <2> QED
      BY <2>1, <2>2, <2>4
  <1>4. Count("(")' = Count("(") /\ Count(")")' = Count(")")
    BY <1>1, TextStays
  <1> QED
    BY <1>1, <1>2, <1>3, <1>4 DEF IInv

LEMMA ParserKeeps == IInv /\ ParserNext => IInv'
  <1>1. IInv /\ NoOperand => IInv'
    BY RefuseKeeps DEF NoOperand
  <1> QED
    BY <1>1, StartKeeps, FirstKeeps, PlusSignKeeps, MinusSignKeeps, ReadOperandKeeps,
       OpenParenKeeps, NegReturnKeeps, ParenReturnKeeps, FirstOperandKeeps, RightOperandKeeps,
       InfixKeeps, LeaveKeeps, FinishKeeps
    DEF ParserNext

-----------------------------------------------------------------------------
(* The rest of Calculator reads the text at its end or leaves the parser alone. *)

LEMMA ReadKeeps ==
  ASSUME IInv, NEW quantities, Read(quantities)
  PROVE  IInv'
  <1>1. text' = << >> /\ at' = "read" /\ UNCHANGED <<err, stack>>
    BY DEF Read
  <1>2. << >> \in Seq(AnyToken)
    OBVIOUS
  <1> QED
    BY <1>1, <1>2 DEF IInv

LEMMA QuietKeeps ==
  ASSUME IInv, UNCHANGED <<text, err, stack, at>>
  PROVE  IInv'
  <1>1. Open' = Open /\ Count("(")' = Count("(") /\ Count(")")' = Count(")")
    BY TextStays
  <1>2. Top' = Top
    BY DEF Top
  <1> QED
    BY <1>1, <1>2 DEF IInv

LEMMA OperationKeeps ==
  ASSUME IInv, Ready
  PROVE  IInv'
BY QuietKeeps DEF Ready, parserVars

LEMMA StepKeeps == IInv /\ [Next]_vars => IInv'
  <1> SUFFICES ASSUME IInv, [Next]_vars PROVE IInv'
    OBVIOUS
  <1>1. CASE Parsing
    BY <1>1, ParserKeeps DEF Parsing
  <1>2. CASE Calculating
    <2>1. ReadQuantity \/ ReadUnits => IInv'
      BY ReadKeeps DEF ReadQuantity, ReadUnits
    <2>2. To \/ ConvertCompiled \/ Root \/ Compact \/ AddOrSub \/ MulOrDiv => Ready
      BY DEF To, ConvertCompiled, Root, Compact, AddOrSub, MulOrDiv, Operation
    <2>3. Raise \/ Negate \/ Multiple \/ Equal \/ Analyse => Ready
      BY DEF Raise, Negate, Multiple, Equal, Analyse, Operation
    <2> QED
      BY <1>2, <2>1, <2>2, <2>3, OperationKeeps DEF Calculating
  <1>3. CASE UNCHANGED vars
    BY <1>3, QuietKeeps DEF vars, parserVars
  <1> QED
    BY <1>1, <1>2, <1>3 DEF Next

\* Between two tokens the call stack of the parser explains the text, whatever its length:
\* parentheses that are open are pending calls, an accepted text has none left, and an
\* error of the lexer is never lost on the way out of the recursion.
THEOREM StackAlwaysExplains == Spec => []StackExplains
  <1>1. Init => IInv
    <2> SUFFICES ASSUME Init PROVE IInv
      OBVIOUS
    <2>1. text = << >> /\ err = FALSE /\ stack = << >> /\ at = "start"
      BY DEF Init, ParserInit
    <2>2. << >> \in Seq(AnyToken)
      OBVIOUS
    <2> QED
      BY <2>1, <2>2, NothingPending DEF IInv
  <1>2. IInv => StackExplains
    BY DEF IInv, StackExplains, Open, Count, Ahead, At, Pending, Waiting
  <1> QED
    BY <1>1, <1>2, StepKeeps, PTL DEF Spec

-----------------------------------------------------------------------------
\* Induction on numbers, for a set of them.
LEMMA NumberInduction ==
  ASSUME NEW T, 0 \in T, \A n \in Nat : n \in T => n + 1 \in T
  PROVE  \A n \in Nat : n \in T
<1> SUFFICES ASSUME Nat \ T # {} PROVE FALSE
  OBVIOUS
<1>1. PICK m \in Nat \ T : \A k \in Nat \ T : ~(<<k, m>> \in OpToRel(<, Nat))
  BY NatLessThanWellFounded, WFMin, Zenon
<1>2. m # 0
  OBVIOUS
<1>3. m - 1 \in Nat /\ m - 1 < m /\ (m - 1) + 1 = m
  BY <1>2
<1>4. m - 1 \in T
  BY <1>1, <1>3 DEF OpToRel
<1> QED  BY <1>3, <1>4

-----------------------------------------------------------------------------
(* The grammar has values *)

\* A text to be read: words, and where they end.
IsText(T) ==
  /\ T \in Seq(Token \cup {EOF}) /\ Len(T) > 1 /\ T[Len(T)] = EOF
  /\ \A i \in 1..(Len(T) - 1) : T[i] \in Token

Place(T) == 1..Len(T)
Span(T) == Rule \X (1..(Len(T) + 1)) \X (0..Len(T))

\* A value comes from values of less weight: of fewer words, or of a tighter rule.
Looseness(rule) == CASE rule = "sum" -> 3 [] rule = "term" -> 2 [] rule = "power" -> 1 [] OTHER -> 0
Weight(rule, i, j) == IF i > j THEN 0 ELSE 4 * (j + 1 - i) + Looseness(rule)

\* The rules are ranked.
LEMMA Loosenesses == /\ \A rule \in Rule : Looseness(rule) \in 0..3
               /\ Looseness("sum") = 3 /\ Looseness("term") = 2 /\ Looseness("power") = 1 /\ Looseness("unary") = 0
BY DEF Looseness, Rule

\* What each rule makes of one word or more.
Signed(T, f, i, j) ==
  (IF i = j /\ T[i] \in Operand THEN {Literal(T[i])} ELSE {})
  \cup (IF T[i].kind = "+" THEN f[<<"unary", i + 1, j>>] ELSE {})
  \cup (IF T[i].kind = "-" THEN {ScaledNeg(v) : v \in f[<<"unary", i + 1, j>>]} ELSE {})
  \cup (IF T[i].kind = "(" /\ T[j].kind = ")" THEN f[<<"sum", i + 1, j - 1>>] ELSE {})
\* The cases of Derived, one by one.
LEMMA Rules ==
  ASSUME NEW T, NEW f, NEW i, NEW j, ~(i > j)
  PROVE  /\ Derived(T, f, "sum", i, j) =
              f[<<"term", i, j>>] \cup Joined(T, f, "sum", "term", {"+", "-"}, i, j)
         /\ Derived(T, f, "term", i, j) =
              f[<<"power", i, j>>] \cup Juxtaposed(T, f, i, j)
              \cup Joined(T, f, "term", "power", {"*", "/"}, i, j)
         /\ Derived(T, f, "power", i, j) =
              f[<<"unary", i, j>>] \cup Joined(T, f, "unary", "power", {"**"}, i, j)
         /\ Derived(T, f, "unary", i, j) = Signed(T, f, i, j)
<1>1. Derived(T, f, "sum", i, j) =
        f[<<"term", i, j>>] \cup Joined(T, f, "sum", "term", {"+", "-"}, i, j)
  BY DEF Derived
<1>2. Derived(T, f, "term", i, j) =
        f[<<"power", i, j>>] \cup Juxtaposed(T, f, i, j)
        \cup Joined(T, f, "term", "power", {"*", "/"}, i, j)
  BY DEF Derived
<1>3. Derived(T, f, "power", i, j) =
        f[<<"unary", i, j>>] \cup Joined(T, f, "unary", "power", {"**"}, i, j)
  BY DEF Derived
<1>4. Derived(T, f, "unary", i, j) = Signed(T, f, i, j)
  BY DEF Derived, Signed
<1> QED  BY <1>1, <1>2, <1>3, <1>4

\* What is derived depends on values of less weight only.
Agree(f, g, n, w) ==
  \A r \in Rule : \A i \in 1..(n + 1) : \A j \in 0..n :
    Weight(r, i, j) < w => f[<<r, i, j>>] = g[<<r, i, j>>]
LEMMA DerivedAgrees ==
  ASSUME NEW T, NEW n \in Nat, NEW f, NEW g, NEW rule \in Rule, NEW i \in 1..(n + 1), NEW j \in 0..n,
         Agree(f, g, n, Weight(rule, i, j))
  PROVE  Derived(T, f, rule, i, j) = Derived(T, g, rule, i, j)
<1>0. \A r \in Rule : \A a \in 1..(n + 1) : \A b \in 0..n :
        Weight(r, a, b) < Weight(rule, i, j) => f[<<r, a, b>>] = g[<<r, a, b>>]
  BY DEF Agree
<1>1. CASE i > j
  BY <1>1 DEF Derived
<1>2. CASE ~(i > j)
  <2>1. i \in 1..j /\ j \in 1..n
    BY <1>2
  <2>2. ASSUME NEW r \in Rule, NEW a \in i..(n + 1), NEW b \in 0..j, a > i \/ b < j
        PROVE  f[<<r, a, b>>] = g[<<r, a, b>>]
    <3>1. a \in 1..(n + 1) /\ b \in 0..n
      BY <2>1
    <3>2. CASE a > b
      BY <1>0, <2>1, <3>1, <3>2, Loosenesses DEF Weight
    <3>3. CASE ~(a > b)
      <4>1. b - a <= j - i - 1
        BY <2>1, <2>2
      <4>2. Looseness(r) \in 0..3 /\ Looseness(rule) \in 0..3
        BY Loosenesses
      <4>3. Weight(r, a, b) = 4 * (b + 1 - a) + Looseness(r) /\ Weight(rule, i, j) = 4 * (j + 1 - i) + Looseness(rule)
        BY <2>1, <3>3 DEF Weight
      <4>4. Weight(r, a, b) < Weight(rule, i, j)
        BY <4>1, <4>2, <4>3
      <4> QED  BY <1>0, <3>1, <4>4
    <3> QED  BY <3>2, <3>3
  <2>3. ASSUME NEW r \in Rule, Looseness(r) < Looseness(rule) PROVE f[<<r, i, j>>] = g[<<r, i, j>>]
    BY <1>0, <2>1, <2>3, Loosenesses DEF Weight
  <2>4. Rule = {"sum", "term", "power", "unary"}
    BY DEF Rule
  <2>5. ASSUME NEW left \in Rule, NEW right \in Rule, NEW ops
        PROVE  Joined(T, f, left, right, ops, i, j) = Joined(T, g, left, right, ops, i, j)
    <3>1. ASSUME NEW k \in (i + 1)..(j - 1)
          PROVE  f[<<left, i, k - 1>>] = g[<<left, i, k - 1>>] /\ f[<<right, k + 1, j>>] = g[<<right, k + 1, j>>]
      <4>1. i \in i..(n + 1) /\ k - 1 \in 0..j /\ k - 1 < j
        BY <2>1
      <4>2. k + 1 \in i..(n + 1) /\ k + 1 > i /\ j \in 0..j
        BY <2>1
      <4> QED  BY <2>2, <4>1, <4>2
    <3> QED  BY <3>1 DEF Joined
  <2>6. Juxtaposed(T, f, i, j) = Juxtaposed(T, g, i, j)
    <3>1. ASSUME NEW k \in (i + 1)..j
          PROVE  f[<<"term", i, k - 1>>] = g[<<"term", i, k - 1>>] /\ f[<<"power", k, j>>] = g[<<"power", k, j>>]
      <4>1. i \in i..(n + 1) /\ k - 1 \in 0..j /\ k - 1 < j
        BY <2>1
      <4>2. k \in i..(n + 1) /\ k > i /\ j \in 0..j
        BY <2>1
      <4> QED  BY <2>2, <2>4, <4>1, <4>2
    <3> QED  BY <3>1 DEF Juxtaposed
  <2>7. CASE rule = "sum"
    <3>1. Derived(T, f, "sum", i, j) = f[<<"term", i, j>>] \cup Joined(T, f, "sum", "term", {"+", "-"}, i, j)
      BY <1>2, Rules
    <3>2. Derived(T, g, "sum", i, j) = g[<<"term", i, j>>] \cup Joined(T, g, "sum", "term", {"+", "-"}, i, j)
      BY <1>2, Rules
    <3>3. f[<<"term", i, j>>] = g[<<"term", i, j>>]
      BY <2>3, <2>4, <2>7, Loosenesses
    <3>4. Joined(T, f, "sum", "term", {"+", "-"}, i, j) = Joined(T, g, "sum", "term", {"+", "-"}, i, j)
      BY <2>4, <2>5
    <3> QED  BY <2>7, <3>1, <3>2, <3>3, <3>4
  <2>8. CASE rule = "term"
    <3>1. Derived(T, f, "term", i, j) = f[<<"power", i, j>>] \cup Juxtaposed(T, f, i, j)
                                         \cup Joined(T, f, "term", "power", {"*", "/"}, i, j)
      BY <1>2, Rules
    <3>2. Derived(T, g, "term", i, j) = g[<<"power", i, j>>] \cup Juxtaposed(T, g, i, j)
                                         \cup Joined(T, g, "term", "power", {"*", "/"}, i, j)
      BY <1>2, Rules
    <3>3. f[<<"power", i, j>>] = g[<<"power", i, j>>]
      BY <2>3, <2>4, <2>8, Loosenesses
    <3>4. Joined(T, f, "term", "power", {"*", "/"}, i, j) = Joined(T, g, "term", "power", {"*", "/"}, i, j)
      BY <2>4, <2>5
    <3> QED  BY <2>6, <2>8, <3>1, <3>2, <3>3, <3>4
  <2>9. CASE rule = "power"
    <3>1. Derived(T, f, "power", i, j) = f[<<"unary", i, j>>] \cup Joined(T, f, "unary", "power", {"**"}, i, j)
      BY <1>2, Rules
    <3>2. Derived(T, g, "power", i, j) = g[<<"unary", i, j>>] \cup Joined(T, g, "unary", "power", {"**"}, i, j)
      BY <1>2, Rules
    <3>3. f[<<"unary", i, j>>] = g[<<"unary", i, j>>]
      BY <2>3, <2>4, <2>9, Loosenesses
    <3>4. Joined(T, f, "unary", "power", {"**"}, i, j) = Joined(T, g, "unary", "power", {"**"}, i, j)
      BY <2>4, <2>5
    <3> QED  BY <2>9, <3>1, <3>2, <3>3, <3>4
  <2>10. CASE rule = "unary"
    <3>1. f[<<"unary", i + 1, j>>] = g[<<"unary", i + 1, j>>] /\ f[<<"sum", i + 1, j - 1>>] = g[<<"sum", i + 1, j - 1>>]
      <4>1. i + 1 \in i..(n + 1) /\ i + 1 > i /\ j \in 0..j /\ j - 1 \in 0..j
        BY <2>1
      <4> QED  BY <2>2, <2>4, <4>1
    <3>2. Signed(T, f, i, j) = Signed(T, g, i, j)
      BY <3>1 DEF Signed
    <3>3. Derived(T, f, "unary", i, j) = Signed(T, f, i, j)
      BY <1>2, Rules
    <3>4. Derived(T, g, "unary", i, j) = Signed(T, g, i, j)
      BY <1>2, Rules
    <3> QED  BY <2>10, <3>2, <3>3, <3>4
  <2> QED  BY <2>4, <2>7, <2>8, <2>9, <2>10
<1> QED  BY <1>1, <1>2

\* So the values of a text are what its definition says.
LEMMA ValueDerived ==
  ASSUME NEW T, Len(T) \in Nat
  PROVE  \A rule \in Rule : \A i \in 1..(Len(T) + 1) : \A j \in 0..Len(T) :
           Value(T)[<<rule, i, j>>] = Derived(T, Value(T), rule, i, j)
<1>0. PICK n \in Nat : n = Len(T)
  OBVIOUS
<1> DEFINE below(f, w) == \A r \in Rule : \A a \in 1..(n + 1) : \A b \in 0..n :
                            Weight(r, a, b) < w => f[<<r, a, b>>] = Derived(T, f, r, a, b)
           Good == {w \in Nat : \E f : below(f, w)}
<1>1. ASSUME NEW r \in Rule, NEW a \in 1..(n + 1), NEW b \in 0..n
      PROVE  Weight(r, a, b) \in Nat /\ Weight(r, a, b) < 4 * n + 8
  <2>1. Looseness(r) \in 0..3
    BY Loosenesses
  <2> QED  BY <2>1 DEF Weight
<1>2. 0 \in Good
  <2>1. below(<< >>, 0)
    BY <1>1
  <2> HIDE DEF below
  <2> QED  BY <2>1
<1>3. ASSUME NEW w \in Nat, w \in Good PROVE w + 1 \in Good
  <2>1. PICK f : below(f, w)
    BY <1>3
  <2> DEFINE g == [c \in Span(T) |-> Derived(T, f, c[1], c[2], c[3])]
  <2>2. \A r \in Rule : \A a \in 1..(n + 1) : \A b \in 0..n : g[<<r, a, b>>] = Derived(T, f, r, a, b)
    BY <1>0 DEF Span
  <2> HIDE DEF g
  <2>3. ASSUME NEW r \in Rule, NEW a \in 1..(n + 1), NEW b \in 0..n, Weight(r, a, b) < w + 1
        PROVE  g[<<r, a, b>>] = Derived(T, g, r, a, b)
    <3>1. Agree(f, g, n, Weight(r, a, b))
      <4> SUFFICES ASSUME NEW s \in Rule, NEW c \in 1..(n + 1), NEW d \in 0..n,
                          Weight(s, c, d) < Weight(r, a, b)
                   PROVE  f[<<s, c, d>>] = g[<<s, c, d>>]
        BY DEF Agree
      <4>1. Weight(s, c, d) < w
        BY <1>1, <2>3
      <4> QED  BY <2>1, <2>2, <4>1
    <3>2. Derived(T, f, r, a, b) = Derived(T, g, r, a, b)
      BY <3>1, DerivedAgrees
    <3> QED  BY <2>2, <3>2
  <2>4. below(g, w + 1)
    BY <2>3
  <2> HIDE DEF below
  <2> QED  BY <2>4
<1>4. \A w \in Nat : w \in Good
  <2> HIDE DEF Good
  <2> QED  BY <1>2, <1>3, NumberInduction
<1>5. PICK f : below(f, 4 * n + 8)
  <2>1. 4 * n + 8 \in Nat
    OBVIOUS
  <2>2. 4 * n + 8 \in Good
    <3> HIDE DEF Good
    <3> QED  BY <1>4, <2>1
  <2> HIDE DEF below
  <2> QED  BY <2>2
<1> DEFINE g == [c \in Span(T) |-> f[c]]
<1>6. \A r \in Rule : \A a \in 1..(n + 1) : \A b \in 0..n : f[<<r, a, b>>] = g[<<r, a, b>>]
  BY <1>0 DEF Span
<1>7. \A r \in Rule : \A a \in 1..(n + 1) : \A b \in 0..n : f[<<r, a, b>>] = Derived(T, f, r, a, b)
  BY <1>1, <1>5
<1>8. ASSUME NEW c \in Span(T) PROVE g[c] = Derived(T, g, c[1], c[2], c[3])
  <2>1. PICK r \in Rule, a \in 1..(n + 1), b \in 0..n : c = <<r, a, b>>
    BY <1>0 DEF Span
  <2> HIDE DEF g
  <2>2. g[<<r, a, b>>] = Derived(T, g, r, a, b)
    <3>1. ASSUME NEW r1 \in Rule, NEW a1 \in 1..(n + 1), NEW b1 \in 0..n
          PROVE  Derived(T, f, r1, a1, b1) = Derived(T, g, r1, a1, b1)
      <4>1. Agree(f, g, n, Weight(r1, a1, b1))
        BY <1>6 DEF Agree
      <4> QED  BY <4>1, DerivedAgrees
    <3> QED  BY <1>6, <1>7, <3>1
  <2> QED  BY <2>1, <2>2
<1>9. g = [c \in Span(T) |-> Derived(T, g, c[1], c[2], c[3])]
  <2>1. g = [c \in Span(T) |-> g[c]]
    OBVIOUS
  <2> HIDE DEF g
  <2> QED  BY <1>8, <2>1
<1> HIDE DEF g
<1>10. \E h : h = [c \in Rule \X (1..(Len(T) + 1)) \X (0..Len(T)) |-> Derived(T, h, c[1], c[2], c[3])]
  BY <1>9 DEF Span
<1>11. Value(T) = [c \in Rule \X (1..(Len(T) + 1)) \X (0..Len(T)) |-> Derived(T, Value(T), c[1], c[2], c[3])]
  BY <1>10 DEF Value
<1>12. PICK v : v = Value(T)
  OBVIOUS
<1>13. v = [c \in Rule \X (1..(Len(T) + 1)) \X (0..Len(T)) |-> Derived(T, v, c[1], c[2], c[3])]
  BY <1>11, <1>12
<1>14. \A rule \in Rule : \A i \in 1..(Len(T) + 1) : \A j \in 0..Len(T) :
         v[<<rule, i, j>>] = Derived(T, v, rule, i, j)
  BY <1>13
<1> QED  BY <1>12, <1>14

-----------------------------------------------------------------------------
(* Operators *)

\* How tightly a word binds what is before it, how tightly it wants what follows it, and
\* where that begins.
Band(T, k) == IF IsInfix(T[k]) THEN BP(InfixOp(T[k])) ELSE -1
Right(T, k) == RightBP(InfixOp(T[k]))
After(T, k) == IF Implicit(T[k]) THEN k ELSE k + 1

\* The operators of a text are those of the grammar.
LEMMA Bands ==
  ASSUME NEW T, IsText(T), NEW k \in Place(T)
  PROVE  /\ T[k].kind \in {"+", "-"} <=> Band(T, k) = 10
         /\ T[k].kind \in {"*", "/"} \/ Implicit(T[k]) <=> Band(T, k) = 20
         /\ T[k].kind = "**" <=> Band(T, k) = 30
         /\ Band(T, k) \in {-1, 10, 20, 30}
         /\ Band(T, k) = 10 => Right(T, k) = 11
         /\ Band(T, k) = 20 => Right(T, k) = 21
         /\ Band(T, k) = 30 => Right(T, k) = 30
         /\ T[k].kind \in {"+", "-", "*", "/", "**"} =>
              ~Implicit(T[k]) /\ InfixOp(T[k]) = T[k].kind /\ After(T, k) = k + 1
         /\ Implicit(T[k]) => InfixOp(T[k]) = "*" /\ After(T, k) = k
         /\ After(T, k) \in k..(k + 1)
<1>1. PICK t : t = T[k]
  OBVIOUS
<1>2. t \in Token \cup {EOF}
  BY <1>1 DEF IsText, Place
<1>3. t.kind \in {"+", "-", "*", "/", "**"} => t \in Operator /\ ~Implicit(t)
  BY <1>2 DEF Token, Operand, Operator, EOF, Implicit
<1>4. t \in Operator => t.kind \in {"+", "-", "*", "/", "**"}
  BY DEF Operator
<1>5. IsInfix(t) <=> t.kind \in {"+", "-", "*", "/", "**"} \/ Implicit(t)
  BY <1>3, <1>4 DEF IsInfix
<1>6. /\ t.kind \in {"+", "-", "*", "/", "**"} => InfixOp(t) = t.kind
      /\ Implicit(t) => InfixOp(t) = "*"
  BY <1>3 DEF InfixOp
<1>7. /\ BP("+") = 10 /\ BP("-") = 10 /\ BP("*") = 20 /\ BP("/") = 20 /\ BP("**") = 30
      /\ RightBP("+") = 11 /\ RightBP("-") = 11 /\ RightBP("*") = 21 /\ RightBP("/") = 21
      /\ RightBP("**") = 30
  BY DEF BP, RightBP
<1>8. PICK b, r : b = Band(T, k) /\ r = Right(T, k)
  OBVIOUS
<1>9. b = (IF IsInfix(t) THEN BP(InfixOp(t)) ELSE -1) /\ r = RightBP(InfixOp(t))
  BY <1>1, <1>8 DEF Band, Right
<1>10. CASE t.kind \in {"+", "-"}
  <2>1. b = 10 /\ r = 11
    BY <1>5, <1>6, <1>7, <1>9, <1>10
  <2> QED  BY <1>1, <1>3, <1>6, <1>8, <1>10, <2>1 DEF After, Place
<1>11. CASE t.kind \in {"*", "/"}
  <2>1. b = 20 /\ r = 21
    BY <1>5, <1>6, <1>7, <1>9, <1>11
  <2> QED  BY <1>1, <1>3, <1>6, <1>8, <1>11, <2>1 DEF After, Place
<1>12. CASE t.kind = "**"
  <2>1. b = 30 /\ r = 30
    BY <1>5, <1>6, <1>7, <1>9, <1>12
  <2> QED  BY <1>1, <1>3, <1>6, <1>8, <1>12, <2>1 DEF After, Place
<1>13. CASE Implicit(t)
  <2>1. b = 20 /\ r = 21
    BY <1>5, <1>6, <1>7, <1>9, <1>13
  <2> QED  BY <1>1, <1>3, <1>6, <1>8, <1>13, <2>1 DEF After, Place
<1>14. CASE t.kind \notin {"+", "-", "*", "/", "**"} /\ ~Implicit(t)
  <2>1. b = -1
    BY <1>5, <1>9, <1>14
  <2> QED  BY <1>1, <1>8, <1>14, <2>1 DEF After, Place
<1> QED  BY <1>10, <1>11, <1>12, <1>13, <1>14

\* What two sets of values combine to.
LEMMA Combined ==
  ASSUME NEW op, NEW A, NEW B
  PROVE  \A x : x \in Combine(op, A, B) <=>
                \E a \in A : \E b \in B : Accepts(op, a, b) /\ x = Apply(op, a, b)
<1>1. ASSUME NEW a \in A, NEW b \in B, Accepts(op, a, b)
      PROVE  Apply(op, a, b) \in Combine(op, A, B)
  <2>1. <<a, b>> \in {y \in A \X B : Accepts(op, y[1], y[2])}
    BY <1>1
  <2>2. Apply(op, a, b) = Apply(op, <<a, b>>[1], <<a, b>>[2])
    OBVIOUS
  <2> QED  BY <2>1, <2>2 DEF Combine
<1>2. ASSUME NEW x \in Combine(op, A, B)
      PROVE  \E a \in A : \E b \in B : Accepts(op, a, b) /\ x = Apply(op, a, b)
  <2>1. PICK y \in A \X B : Accepts(op, y[1], y[2]) /\ x = Apply(op, y[1], y[2])
    BY DEF Combine
  <2>2. y[1] \in A /\ y[2] \in B
    OBVIOUS
  <2> QED  BY <2>1, <2>2
<1> QED  BY <1>1, <1>2

\* A rule of the grammar, told by how tightly its operators bind.
Level(T, v, left, right, b, i, j) ==
  UNION {Combine(InfixOp(T[k]), v[<<left, i, k - 1>>], v[<<right, After(T, k), j>>]) :
           k \in {m \in (i + 1)..j : Band(T, m) = b}}

Layered(T, v, i, j) ==
  /\ v[<<"sum", i, j>>] = v[<<"term", i, j>>] \cup Level(T, v, "sum", "term", 10, i, j)
  /\ v[<<"term", i, j>>] = v[<<"power", i, j>>] \cup Level(T, v, "term", "power", 20, i, j)
  /\ v[<<"power", i, j>>] = v[<<"unary", i, j>>] \cup Level(T, v, "unary", "power", 30, i, j)
  /\ v[<<"unary", i, j>>] = Signed(T, v, i, j)
LEMMA Levels ==
  ASSUME NEW T, IsText(T), NEW i \in 1..(Len(T) + 1), NEW j \in 0..Len(T), NEW v, v = Value(T)
  PROVE  /\ i > j => \A rule \in Rule : v[<<rule, i, j>>] = {}
         /\ i <= j => Layered(T, v, i, j)
<1>1. Len(T) \in Nat
  BY DEF IsText
<1>2. \A rule \in Rule : \A a \in 1..(Len(T) + 1) : \A b \in 0..Len(T) :
        v[<<rule, a, b>>] = Derived(T, v, rule, a, b)
  BY <1>1, ValueDerived
<1>3. \A rule \in Rule : \A a \in 1..(Len(T) + 1) : \A b \in 0..Len(T) :
        a > b => v[<<rule, a, b>>] = {}
  BY <1>2 DEF Derived
<1>4. "sum" \in Rule /\ "term" \in Rule /\ "power" \in Rule /\ "unary" \in Rule
  BY DEF Rule
<1>5. ASSUME i <= j
      PROVE  /\ v[<<"sum", i, j>>] = v[<<"term", i, j>>] \cup Level(T, v, "sum", "term", 10, i, j)
             /\ v[<<"term", i, j>>] = v[<<"power", i, j>>] \cup Level(T, v, "term", "power", 20, i, j)
             /\ v[<<"power", i, j>>] = v[<<"unary", i, j>>] \cup Level(T, v, "unary", "power", 30, i, j)
             /\ v[<<"unary", i, j>>] = Signed(T, v, i, j)
  <2>1. ~(i > j) /\ i \in 1..Len(T) /\ j \in 1..Len(T)
    BY <1>1, <1>5
  <2>2. \A k \in (i + 1)..j : k \in Place(T) /\ k \in 1..Len(T)
    BY <1>1, <2>1 DEF Place
  <2>3. ASSUME NEW left, NEW right \in Rule, NEW ops \in SUBSET {"+", "-", "*", "/", "**"}, NEW x
        PROVE  x \in Joined(T, v, left, right, ops, i, j) <=>
                 \E k \in (i + 1)..j : /\ T[k].kind \in ops
                                       /\ x \in Combine(InfixOp(T[k]), v[<<left, i, k - 1>>],
                                                         v[<<right, After(T, k), j>>])
    <3>1. ASSUME NEW k \in (i + 1)..j, T[k].kind \in ops
          PROVE  /\ Combine(InfixOp(T[k]), v[<<left, i, k - 1>>], v[<<right, After(T, k), j>>])
                      = Combine(T[k].kind, v[<<left, i, k - 1>>], v[<<right, k + 1, j>>])
                 /\ ~(k \in (i + 1)..(j - 1)) => v[<<right, k + 1, j>>] = {}
      <4>1. InfixOp(T[k]) = T[k].kind /\ After(T, k) = k + 1
        BY <2>2, <3>1, Bands
      <4>2. ~(k \in (i + 1)..(j - 1)) => k + 1 > j /\ k + 1 \in 1..(Len(T) + 1)
        BY <1>1, <2>1
      <4> QED  BY <1>3, <4>1, <4>2
    <3>2. x \in Joined(T, v, left, right, ops, i, j) <=>
            \E k \in (i + 1)..(j - 1) : /\ T[k].kind \in ops
                                        /\ x \in Combine(T[k].kind, v[<<left, i, k - 1>>],
                                                          v[<<right, k + 1, j>>])
      BY DEF Joined
    <3>3. \A k \in (i + 1)..(j - 1) : k \in (i + 1)..j
      BY <2>1
    <3>4. \A op, A, y : y \notin Combine(op, A, {})
      BY Combined
    <3>5. ASSUME x \in Joined(T, v, left, right, ops, i, j)
          PROVE  \E k \in (i + 1)..j :
                   /\ T[k].kind \in ops
                   /\ x \in Combine(InfixOp(T[k]), v[<<left, i, k - 1>>], v[<<right, After(T, k), j>>])
      <4>1. PICK k \in (i + 1)..(j - 1) :
              /\ T[k].kind \in ops
              /\ x \in Combine(T[k].kind, v[<<left, i, k - 1>>], v[<<right, k + 1, j>>])
        BY <3>2, <3>5
      <4> QED  BY <3>1, <3>3, <4>1
    <3>6. ASSUME NEW k \in (i + 1)..j, T[k].kind \in ops,
                 x \in Combine(InfixOp(T[k]), v[<<left, i, k - 1>>], v[<<right, After(T, k), j>>])
          PROVE  x \in Joined(T, v, left, right, ops, i, j)
      <4>1. x \in Combine(T[k].kind, v[<<left, i, k - 1>>], v[<<right, k + 1, j>>])
        BY <3>1, <3>6
      <4>2. k \in (i + 1)..(j - 1)
        BY <3>1, <3>4, <3>6, <4>1
      <4> QED  BY <3>2, <3>6, <4>1, <4>2
    <3> QED  BY <3>5, <3>6
  <2>4. ASSUME NEW x
        PROVE  x \in Juxtaposed(T, v, i, j) <=>
                 \E k \in (i + 1)..j : /\ Implicit(T[k])
                                       /\ x \in Combine(InfixOp(T[k]), v[<<"term", i, k - 1>>],
                                                         v[<<"power", After(T, k), j>>])
    <3>1. x \in Juxtaposed(T, v, i, j) <=>
            \E k \in (i + 1)..j : /\ Implicit(T[k])
                                  /\ x \in Combine("*", v[<<"term", i, k - 1>>], v[<<"power", k, j>>])
      BY DEF Juxtaposed
    <3>2. \A k \in (i + 1)..j : Implicit(T[k]) => InfixOp(T[k]) = "*" /\ After(T, k) = k
      BY <2>2, Bands
    <3> QED  BY <3>1, <3>2
  <2>5. ASSUME NEW left, NEW right, NEW b, NEW x
        PROVE  x \in Level(T, v, left, right, b, i, j) <=>
                 \E k \in (i + 1)..j : /\ Band(T, k) = b
                                       /\ x \in Combine(InfixOp(T[k]), v[<<left, i, k - 1>>],
                                                         v[<<right, After(T, k), j>>])
    BY DEF Level
  <2>6. \A k \in (i + 1)..j : /\ T[k].kind \in {"+", "-"} <=> Band(T, k) = 10
                              /\ T[k].kind \in {"*", "/"} \/ Implicit(T[k]) <=> Band(T, k) = 20
                              /\ T[k].kind \in {"**"} <=> Band(T, k) = 30
    BY <2>2, Bands
  <2>7. Joined(T, v, "sum", "term", {"+", "-"}, i, j) = Level(T, v, "sum", "term", 10, i, j)
    <3>1. {"+", "-"} \in SUBSET {"+", "-", "*", "/", "**"}
      OBVIOUS
    <3>2. ASSUME NEW x
          PROVE  x \in Joined(T, v, "sum", "term", {"+", "-"}, i, j) <=> x \in Level(T, v, "sum", "term", 10, i, j)
      <4>1. x \in Joined(T, v, "sum", "term", {"+", "-"}, i, j) <=>
              \E k \in (i + 1)..j :
                /\ T[k].kind \in {"+", "-"}
                /\ x \in Combine(InfixOp(T[k]), v[<<"sum", i, k - 1>>], v[<<"term", After(T, k), j>>])
        BY <1>4, <2>3, <3>1
      <4> QED  BY <2>5, <2>6, <4>1
    <3> QED  BY <3>2
  <2>8. Juxtaposed(T, v, i, j) \cup Joined(T, v, "term", "power", {"*", "/"}, i, j)
          = Level(T, v, "term", "power", 20, i, j)
    <3>1. {"*", "/"} \in SUBSET {"+", "-", "*", "/", "**"}
      OBVIOUS
    <3>2. ASSUME NEW x
          PROVE  x \in Juxtaposed(T, v, i, j) \/ x \in Joined(T, v, "term", "power", {"*", "/"}, i, j)
                   <=> x \in Level(T, v, "term", "power", 20, i, j)
      <4>1. x \in Joined(T, v, "term", "power", {"*", "/"}, i, j) <=>
              \E k \in (i + 1)..j :
                /\ T[k].kind \in {"*", "/"}
                /\ x \in Combine(InfixOp(T[k]), v[<<"term", i, k - 1>>], v[<<"power", After(T, k), j>>])
        BY <1>4, <2>3, <3>1
      <4>2. ASSUME x \in Juxtaposed(T, v, i, j) \/ x \in Joined(T, v, "term", "power", {"*", "/"}, i, j)
            PROVE  x \in Level(T, v, "term", "power", 20, i, j)
        <5>1. PICK k \in (i + 1)..j :
                /\ Implicit(T[k]) \/ T[k].kind \in {"*", "/"}
                /\ x \in Combine(InfixOp(T[k]), v[<<"term", i, k - 1>>], v[<<"power", After(T, k), j>>])
          BY <2>4, <4>1, <4>2
        <5> QED  BY <2>5, <2>6, <5>1
      <4>3. ASSUME x \in Level(T, v, "term", "power", 20, i, j)
            PROVE  x \in Juxtaposed(T, v, i, j) \/ x \in Joined(T, v, "term", "power", {"*", "/"}, i, j)
        <5>1. PICK k \in (i + 1)..j :
                /\ Band(T, k) = 20
                /\ x \in Combine(InfixOp(T[k]), v[<<"term", i, k - 1>>], v[<<"power", After(T, k), j>>])
          BY <2>5, <4>3
        <5>2. Implicit(T[k]) \/ T[k].kind \in {"*", "/"}
          BY <2>6, <5>1
        <5> QED  BY <2>4, <4>1, <5>1, <5>2
      <4> QED  BY <4>2, <4>3
    <3> QED  BY <3>2
  <2>9. Joined(T, v, "unary", "power", {"**"}, i, j) = Level(T, v, "unary", "power", 30, i, j)
    <3>1. {"**"} \in SUBSET {"+", "-", "*", "/", "**"}
      OBVIOUS
    <3>2. ASSUME NEW x
          PROVE  x \in Joined(T, v, "unary", "power", {"**"}, i, j) <=> x \in Level(T, v, "unary", "power", 30, i, j)
      <4>1. x \in Joined(T, v, "unary", "power", {"**"}, i, j) <=>
              \E k \in (i + 1)..j :
                /\ T[k].kind \in {"**"}
                /\ x \in Combine(InfixOp(T[k]), v[<<"unary", i, k - 1>>], v[<<"power", After(T, k), j>>])
        BY <1>4, <2>3, <3>1
      <4>2. ASSUME x \in Joined(T, v, "unary", "power", {"**"}, i, j)
            PROVE  x \in Level(T, v, "unary", "power", 30, i, j)
        <5>1. PICK k \in (i + 1)..j :
                /\ T[k].kind \in {"**"}
                /\ x \in Combine(InfixOp(T[k]), v[<<"unary", i, k - 1>>], v[<<"power", After(T, k), j>>])
          BY <4>1, <4>2
        <5> QED  BY <2>5, <2>6, <5>1
      <4>3. ASSUME x \in Level(T, v, "unary", "power", 30, i, j)
            PROVE  x \in Joined(T, v, "unary", "power", {"**"}, i, j)
        <5>1. PICK k \in (i + 1)..j :
                /\ Band(T, k) = 30
                /\ x \in Combine(InfixOp(T[k]), v[<<"unary", i, k - 1>>], v[<<"power", After(T, k), j>>])
          BY <2>5, <4>3
        <5> QED  BY <2>6, <4>1, <5>1
      <4> QED  BY <4>2, <4>3
    <3> QED  BY <3>2
  <2>10. v[<<"sum", i, j>>] = Derived(T, v, "sum", i, j)
    BY <1>2, <1>4
  <2>11. v[<<"term", i, j>>] = Derived(T, v, "term", i, j)
    BY <1>2, <1>4
  <2>12. v[<<"power", i, j>>] = Derived(T, v, "power", i, j)
    BY <1>2, <1>4
  <2>13. v[<<"unary", i, j>>] = Derived(T, v, "unary", i, j)
    BY <1>2, <1>4
  <2>14. /\ Derived(T, v, "sum", i, j) =
              v[<<"term", i, j>>] \cup Joined(T, v, "sum", "term", {"+", "-"}, i, j)
         /\ Derived(T, v, "term", i, j) =
              v[<<"power", i, j>>] \cup Juxtaposed(T, v, i, j)
              \cup Joined(T, v, "term", "power", {"*", "/"}, i, j)
         /\ Derived(T, v, "power", i, j) =
              v[<<"unary", i, j>>] \cup Joined(T, v, "unary", "power", {"**"}, i, j)
         /\ Derived(T, v, "unary", i, j) = Signed(T, v, i, j)
    BY <2>1, Rules
  <2>15. v[<<"term", i, j>>] = v[<<"power", i, j>>]
           \cup (Juxtaposed(T, v, i, j) \cup Joined(T, v, "term", "power", {"*", "/"}, i, j))
    BY <2>11, <2>14
  <2> QED  BY <2>7, <2>8, <2>9, <2>10, <2>12, <2>13, <2>14, <2>15
<1> QED  BY <1>3, <1>5 DEF Layered

-----------------------------------------------------------------------------
(* The loop of parseExpr *)

\* What a call yields is told by the place of the word that is ahead when it returns: at
\* each place, the values that the words before it can have.  Only(x, p): x, at p alone.
Only(T, x, p) == [e \in Place(T) |-> IF e = p THEN {x} ELSE {}]
FromRule(T, v, rule, p) == [e \in Place(T) |-> v[<<rule, p, e - 1>>]]

\* The loop goes on at a word, and with which values its left operand can stand before it,
\* when P tells those of the first operand.
Goes(T, min, e) == Band(T, e) >= min
RuleAt(min) == IF min = 0 THEN "sum" ELSE IF min = 11 THEN "term" ELSE "power"
Turn(T, v, min, P, r, e) ==
  P[e] \cup UNION {Combine(InfixOp(T[k]), r[k], v[<<RuleAt(Right(T, k)), After(T, k), e - 1>>]) :
                     k \in {m \in 1..(e - 1) : Goes(T, min, m) /\ ~Goes(T, Right(T, m), e)}}
IsReach(T, v, min, P, r) ==
  \A e \in Place(T) : r[e] = Turn(T, v, min, P, r, e)
Reach(T, v, min, P) == CHOOSE r : IsReach(T, v, min, P, r)
Exits(T, v, min, P) ==
  [e \in Place(T) |-> IF Goes(T, min, e) THEN {} ELSE Reach(T, v, min, P)[e]]

\* How a value gets before a word: it is a first operand, or an operator made it.
LEMMA Turned ==
  ASSUME NEW T, NEW v, NEW min, NEW P, NEW r, NEW e
  PROVE  \A x : x \in Turn(T, v, min, P, r, e) <=>
           \/ x \in P[e]
           \/ \E k \in 1..(e - 1) :
                /\ Goes(T, min, k) /\ ~Goes(T, Right(T, k), e)
                /\ x \in Combine(InfixOp(T[k]), r[k], v[<<RuleAt(Right(T, k)), After(T, k), e - 1>>])
BY DEF Turn

\* A turn of the loop depends on what stands before it.
LEMMA TurnAgrees ==
  ASSUME NEW T, NEW v, NEW min, NEW P, NEW r, NEW s, NEW e \in Nat,
         \A k \in 1..(e - 1) : r[k] = s[k]
  PROVE  Turn(T, v, min, P, r, e) = Turn(T, v, min, P, s, e)
BY DEF Turn

\* The loop has the values that its turns give.
LEMMA Reached ==
  ASSUME NEW T, Len(T) \in Nat, NEW v, NEW min, NEW P
  PROVE  \A e \in Place(T) :
           Reach(T, v, min, P)[e] = Turn(T, v, min, P, Reach(T, v, min, P), e)
<1> DEFINE upto(r, n) == \A e \in Place(T) : e <= n => r[e] = Turn(T, v, min, P, r, e)
           Good == {n \in Nat : \E r : upto(r, n)}
<1>1. 0 \in Good
  <2>1. upto(<< >>, 0)
    BY DEF Place
  <2> HIDE DEF upto
  <2> QED  BY <2>1
<1>2. ASSUME NEW n \in Nat, n \in Good PROVE n + 1 \in Good
  <2>1. PICK r : upto(r, n)
    BY <1>2
  <2> DEFINE g == [e \in Place(T) |-> Turn(T, v, min, P, r, e)]
  <2>2. \A e \in Place(T) : g[e] = Turn(T, v, min, P, r, e)
    OBVIOUS
  <2> HIDE DEF g
  <2>3. ASSUME NEW e \in Place(T), e <= n + 1 PROVE g[e] = Turn(T, v, min, P, g, e)
    <3>1. \A k \in 1..(e - 1) : r[k] = g[k]
      <4> TAKE k \in 1..(e - 1)
      <4>1. k \in Place(T) /\ k <= n
        BY <2>3 DEF Place
      <4> QED  BY <2>1, <2>2, <4>1
    <3>2. e \in Nat
      BY DEF Place
    <3>3. Turn(T, v, min, P, r, e) = Turn(T, v, min, P, g, e)
      BY <3>1, <3>2, TurnAgrees
    <3> QED  BY <2>2, <3>3
  <2>4. upto(g, n + 1)
    BY <2>3
  <2> HIDE DEF upto
  <2> QED  BY <2>4
<1>3. \A n \in Nat : n \in Good
  <2> HIDE DEF Good
  <2> QED  BY <1>1, <1>2, NumberInduction
<1>4. PICK r : upto(r, Len(T))
  <2>1. Len(T) \in Good
    <3> HIDE DEF Good
    <3> QED  BY <1>3
  <2> HIDE DEF upto
  <2> QED  BY <2>1
<1>5. IsReach(T, v, min, P, r)
  BY <1>4 DEF IsReach, Place
<1>6. \E x : IsReach(T, v, min, P, x)
  BY <1>5
<1>7. IsReach(T, v, min, P, Reach(T, v, min, P))
  BY <1>6 DEF Reach
<1> QED  BY <1>7 DEF IsReach

\* What a loop that starts from nothing yields is nothing.
LEMMA ExitsNothing ==
  ASSUME NEW T, Len(T) \in Nat, NEW v, NEW min, NEW P, \A e \in Place(T) : P[e] = {}
  PROVE  \A e \in Place(T) : Exits(T, v, min, P)[e] = {}
<1>0. PICK r : r = Reach(T, v, min, P)
  OBVIOUS
<1>1. \A e \in Place(T) : r[e] = Turn(T, v, min, P, r, e)
  BY <1>0, Reached
<1> DEFINE Good == {n \in Nat : \A e \in Place(T) : e <= n => r[e] = {}}
<1>2. 0 \in Good
  BY DEF Place
<1>3. ASSUME NEW n \in Nat, n \in Good PROVE n + 1 \in Good
  <2>1. ASSUME NEW e \in Place(T), e <= n + 1 PROVE r[e] = {}
    <3>1. \A k \in 1..(e - 1) : r[k] = {}
      BY <1>3, <2>1 DEF Place
    <3>2. \A op, B, y : y \notin Combine(op, {}, B)
      BY Combined
    <3>3. ASSUME NEW x \in r[e] PROVE FALSE
      <4>1. x \in Turn(T, v, min, P, r, e)
        BY <1>1
      <4>2. PICK k \in 1..(e - 1) :
              x \in Combine(InfixOp(T[k]), r[k], v[<<RuleAt(Right(T, k)), After(T, k), e - 1>>])
        BY <4>1, Turned
      <4> QED  BY <3>1, <3>2, <4>2
    <3> QED  BY <3>3
  <2> QED  BY <2>1
<1>4. \A n \in Nat : n \in Good
  <2> HIDE DEF Good
  <2> QED  BY <1>2, <1>3, NumberInduction
<1>5. \A e \in Place(T) : r[e] = {}
  BY <1>4 DEF Place
<1> QED  BY <1>0, <1>5 DEF Exits

\* A loop that does not go on yields its first operand ...
LEMMA ExitsAtOnce ==
  ASSUME NEW T, Len(T) \in Nat, NEW v, NEW min, NEW x, NEW p \in Place(T), ~Goes(T, min, p)
  PROVE  Exits(T, v, min, Only(T, x, p)) = Only(T, x, p)
<1>0. PICK P, r : P = Only(T, x, p) /\ r = Reach(T, v, min, P)
  OBVIOUS
<1>1. \A e \in Place(T) : r[e] = Turn(T, v, min, P, r, e)
  BY <1>0, Reached
<1>2. \A e \in Place(T) : P[e] = IF e = p THEN {x} ELSE {}
  BY <1>0 DEF Only
<1> DEFINE Good == {n \in Nat : \A e \in Place(T) : e <= n => r[e] = P[e]}
<1>3. 0 \in Good
  BY DEF Place
<1>4. ASSUME NEW n \in Nat, n \in Good PROVE n + 1 \in Good
  <2>1. ASSUME NEW e \in Place(T), e <= n + 1 PROVE r[e] = P[e]
    <3>1. \A k \in 1..(e - 1) : r[k] = P[k] /\ k \in Place(T)
      BY <1>4, <2>1 DEF Place
    <3>2. \A op, B, y : y \notin Combine(op, {}, B)
      BY Combined
    <3>3. ASSUME NEW y \in r[e] PROVE y \in P[e]
      <4>1. y \in Turn(T, v, min, P, r, e)
        BY <1>1
      <4>2. SUFFICES ASSUME NEW k \in 1..(e - 1), Goes(T, min, k),
                     y \in Combine(InfixOp(T[k]), r[k], v[<<RuleAt(Right(T, k)), After(T, k), e - 1>>])
                     PROVE FALSE
        BY <4>1, Turned
      <4>3. k # p
        BY <4>2
      <4>4. r[k] = {}
        BY <1>2, <3>1, <4>3
      <4> QED  BY <3>2, <4>2, <4>4
    <3>4. ASSUME NEW y \in P[e] PROVE y \in r[e]
      BY <1>1, Turned
    <3> QED  BY <3>3, <3>4
  <2> QED  BY <2>1
<1>5. \A n \in Nat : n \in Good
  <2> HIDE DEF Good
  <2> QED  BY <1>3, <1>4, NumberInduction
<1>6. \A e \in Place(T) : r[e] = P[e]
  BY <1>5 DEF Place
<1>7. \A e \in Place(T) : (IF Goes(T, min, e) THEN {} ELSE r[e]) = IF e = p THEN {x} ELSE {}
  BY <1>2, <1>6
<1>8. Exits(T, v, min, P) = [e \in Place(T) |-> IF Goes(T, min, e) THEN {} ELSE r[e]]
  BY <1>0 DEF Exits
<1>9. Exits(T, v, min, P) = [e \in Place(T) |-> IF e = p THEN {x} ELSE {}]
  BY <1>7, <1>8
<1> QED  BY <1>0, <1>9 DEF Only

\* ... and one that goes on yields what the first turn makes of it and of the values that
\* its right operand has there.
FirstTurn(T, v, x, p) ==
  [e \in Place(T) |-> IF Goes(T, Right(T, p), e) THEN {}
                      ELSE Combine(InfixOp(T[p]), {x}, v[<<RuleAt(Right(T, p)), After(T, p), e - 1>>])]
LEMMA ExitsFirst ==
  ASSUME NEW T, IsText(T), NEW v, v = Value(T), NEW min, NEW x, NEW p \in Place(T), Goes(T, min, p)
  PROVE  Exits(T, v, min, Only(T, x, p)) = Exits(T, v, min, FirstTurn(T, v, x, p))
<1>0. Len(T) \in Nat
  BY DEF IsText
<1>1. PICK P, Q, r, s : /\ P = Only(T, x, p) /\ r = Reach(T, v, min, P)
                        /\ Q = FirstTurn(T, v, x, p) /\ s = Reach(T, v, min, Q)
  OBVIOUS
<1>2. /\ \A e \in Place(T) : r[e] = Turn(T, v, min, P, r, e)
      /\ \A e \in Place(T) : s[e] = Turn(T, v, min, Q, s, e)
  BY <1>0, <1>1, Reached
<1>3. \A e \in Place(T) : P[e] = IF e = p THEN {x} ELSE {}
  BY <1>1 DEF Only
<1>4. \A e \in Place(T) :
        Q[e] = IF Goes(T, Right(T, p), e) THEN {}
               ELSE Combine(InfixOp(T[p]), {x}, v[<<RuleAt(Right(T, p)), After(T, p), e - 1>>])
  BY <1>1 DEF FirstTurn
<1>5. \A op, B, y : y \notin Combine(op, {}, B) /\ y \notin Combine(op, B, {})
  BY Combined
<1>6. ASSUME NEW e \in Place(T), e <= p PROVE Q[e] = {}
  <2>1. After(T, p) \in p..(p + 1) /\ p \in 1..Len(T) /\ e - 1 \in 0..Len(T)
    BY <1>0, Bands DEF Place
  <2>2. After(T, p) \in 1..(Len(T) + 1) /\ After(T, p) > e - 1
    BY <1>0, <1>6, <2>1
  <2>3. RuleAt(Right(T, p)) \in Rule
    BY DEF RuleAt, Rule
  <2>4. v[<<RuleAt(Right(T, p)), After(T, p), e - 1>>] = {}
    BY <2>1, <2>2, <2>3, Levels
  <2> QED  BY <1>4, <1>5, <2>4
<1> DEFINE like(e) == /\ e < p => r[e] = {} /\ s[e] = {}
                      /\ e = p => r[e] = {x} /\ s[e] = {}
                      /\ e > p => r[e] = s[e]
           Good == {n \in Nat : \A e \in Place(T) : e <= n => like(e)}
<1>7. 0 \in Good
  BY DEF Place
<1>8. ASSUME NEW n \in Nat, n \in Good PROVE n + 1 \in Good
  <2>1. ASSUME NEW e \in Place(T), e <= n + 1 PROVE like(e)
    <3>1. ASSUME NEW k \in 1..(e - 1)
          PROVE  k \in Place(T) /\ k \in Nat /\ like(k)
      <4>1. k \in Place(T) /\ k <= n /\ k \in Nat
        BY <1>8, <2>1 DEF Place
      <4> HIDE DEF like
      <4> QED  BY <1>8, <4>1
    <3>2. p \in Nat /\ e \in Nat /\ p >= 1
      BY DEF Place
    <3>3. ASSUME e <= p, NEW y PROVE y \in s[e] => FALSE
      <4> SUFFICES ASSUME y \in s[e] PROVE FALSE
        OBVIOUS
      <4>1. y \in Turn(T, v, min, Q, s, e)
        BY <1>2
      <4>2. y \notin Q[e]
        BY <1>6, <3>3
      <4>3. PICK k \in 1..(e - 1) :
              y \in Combine(InfixOp(T[k]), s[k], v[<<RuleAt(Right(T, k)), After(T, k), e - 1>>])
        BY <4>1, <4>2, Turned
      <4>4. s[k] = {}
        BY <3>1, <3>2, <3>3
      <4> QED  BY <1>5, <4>3, <4>4
    <3>4. ASSUME e <= p, NEW y PROVE y \in r[e] <=> y \in P[e]
      <4>1. ASSUME y \in r[e], y \notin P[e] PROVE FALSE
        <5>1. y \in Turn(T, v, min, P, r, e)
          BY <1>2, <4>1
        <5>2. PICK k \in 1..(e - 1) :
                y \in Combine(InfixOp(T[k]), r[k], v[<<RuleAt(Right(T, k)), After(T, k), e - 1>>])
          BY <4>1, <5>1, Turned
        <5>3. r[k] = {}
          BY <3>1, <3>2, <3>4
        <5> QED  BY <1>5, <5>2, <5>3
      <4>2. y \in P[e] => y \in r[e]
        BY <1>2, Turned
      <4> QED  BY <4>1, <4>2
    <3>5. ASSUME e > p, NEW y \in r[e] PROVE y \in s[e]
      <4>1. y \in Turn(T, v, min, P, r, e) /\ y \notin P[e]
        BY <1>2, <1>3, <3>2, <3>5
      <4>2. PICK k \in 1..(e - 1) :
              /\ Goes(T, min, k) /\ ~Goes(T, Right(T, k), e)
              /\ y \in Combine(InfixOp(T[k]), r[k], v[<<RuleAt(Right(T, k)), After(T, k), e - 1>>])
        BY <4>1, Turned
      <4>3. CASE k < p
        BY <1>5, <3>1, <4>2, <4>3
      <4>4. CASE k = p
        <5>1. r[k] = {x}
          BY <3>1, <4>4
        <5>2. y \in Q[e]
          BY <1>4, <4>2, <4>4, <5>1
        <5> QED  BY <1>2, <5>2, Turned
      <4>5. CASE k > p
        <5>1. r[k] = s[k]
          BY <3>1, <4>5
        <5>2. y \in Turn(T, v, min, Q, s, e)
          BY <4>2, <5>1, Turned
        <5> QED  BY <1>2, <5>2
      <4>6. k < p \/ k = p \/ k > p
        BY <3>1, <3>2
      <4> QED  BY <4>3, <4>4, <4>5, <4>6
    <3>6. ASSUME e > p, NEW y \in s[e] PROVE y \in r[e]
      <4>1. y \in Turn(T, v, min, Q, s, e)
        BY <1>2, <3>6
      <4>2. CASE y \in Q[e]
        <5>1. p \in 1..(e - 1) /\ r[p] = {x}
          <6>1. p \in 1..(e - 1)
            BY <3>2, <3>6
          <6> QED  BY <3>1, <6>1
        <5>2. /\ ~Goes(T, Right(T, p), e)
              /\ y \in Combine(InfixOp(T[p]), r[p], v[<<RuleAt(Right(T, p)), After(T, p), e - 1>>])
          BY <1>4, <4>2, <5>1
        <5>3. y \in Turn(T, v, min, P, r, e)
          BY <5>1, <5>2, Turned
        <5> QED  BY <1>2, <5>3
      <4>3. CASE y \notin Q[e]
        <5>1. PICK k \in 1..(e - 1) :
                /\ Goes(T, min, k) /\ ~Goes(T, Right(T, k), e)
                /\ y \in Combine(InfixOp(T[k]), s[k], v[<<RuleAt(Right(T, k)), After(T, k), e - 1>>])
          BY <4>1, <4>3, Turned
        <5>2. s[k] # {}
          BY <1>5, <5>1
        <5>3. k > p
          BY <3>1, <3>2, <5>2
        <5>4. r[k] = s[k]
          BY <3>1, <5>3
        <5>5. y \in Turn(T, v, min, P, r, e)
          BY <5>1, <5>4, Turned
        <5> QED  BY <1>2, <5>5
      <4> QED  BY <4>2, <4>3
    <3>7. e <= p => r[e] = P[e] /\ s[e] = {}
      BY <3>3, <3>4
    <3>8. e > p => r[e] = s[e]
      BY <3>5, <3>6
    <3>9. (e < p \/ e = p => e <= p) /\ ~(e > p /\ e <= p)
      BY <3>2
    <3> QED  BY <1>3, <3>2, <3>7, <3>8
  <2> HIDE DEF like
  <2> QED  BY <2>1
<1>9. \A n \in Nat : n \in Good
  <2> HIDE DEF Good
  <2> QED  BY <1>7, <1>8, NumberInduction
<1>10. \A e \in Place(T) : like(e)
  <2> HIDE DEF like
  <2>1. Len(T) \in Good
    <3> HIDE DEF Good
    <3> QED  BY <1>0, <1>9
  <2> QED  BY <2>1 DEF Place
<1>11. ASSUME NEW e \in Place(T) PROVE (IF Goes(T, min, e) THEN {} ELSE r[e]) = (IF Goes(T, min, e) THEN {} ELSE s[e])
  <2>1. e \in Nat /\ p \in Nat
    BY DEF Place
  <2>2. CASE e = p
    BY <2>2
  <2>3. CASE e # p
    BY <1>10, <2>1, <2>3
  <2> QED  BY <2>2, <2>3
<1>12. /\ Exits(T, v, min, P) = [e \in Place(T) |-> IF Goes(T, min, e) THEN {} ELSE r[e]]
       /\ Exits(T, v, min, Q) = [e \in Place(T) |-> IF Goes(T, min, e) THEN {} ELSE s[e]]
  BY <1>1 DEF Exits
<1>13. Exits(T, v, min, P) = Exits(T, v, min, Q)
  BY <1>11, <1>12
<1> QED  BY <1>1, <1>13

\* The loosest rule that a loop has applied when it is at a word, by how tightly that binds.
Loosest(min, b) ==
  IF b = 30 THEN "unary"
  ELSE IF b = 20 THEN (IF min <= 20 THEN "term" ELSE "power") ELSE RuleAt(min)
Minimum == {0, 11, 21, 30}

\* One more turn of the loop applies the rules that the word ahead lets through.
LEMMA TurnApplies ==
  ASSUME NEW T, IsText(T), NEW v, v = Value(T), NEW min \in Minimum, NEW p \in 1..(Len(T) + 1),
         NEW e \in Place(T), p <= e - 1, NEW P, P = FromRule(T, v, "unary", p), NEW r,
         \A k \in 1..(e - 1) : r[k] = v[<<Loosest(min, Band(T, k)), p, k - 1>>]
  PROVE  Turn(T, v, min, P, r, e) = v[<<Loosest(min, Band(T, e)), p, e - 1>>]
<1>0. Len(T) \in Nat /\ p \in Nat /\ e \in Nat /\ e <= Len(T)
  BY DEF IsText, Place
<1>1. PICK j : j = e - 1
  OBVIOUS
<1>2. j \in 1..Len(T) /\ p <= j /\ p \in 1..(Len(T) + 1) /\ j \in 0..Len(T) /\ p \in 1..Len(T)
  BY <1>0, <1>1
<1>3. P[e] = v[<<"unary", p, j>>]
  BY <1>1 DEF FromRule
<1>4. PICK b : b = Band(T, e)
  OBVIOUS
<1>5. b \in {-1, 10, 20, 30}
  BY <1>4, Bands
<1>6. ASSUME NEW k \in 1..j
      PROVE  /\ k \in Place(T) /\ Band(T, k) \in {-1, 10, 20, 30}
             /\ Band(T, k) = 10 => Right(T, k) = 11
             /\ Band(T, k) = 20 => Right(T, k) = 21
             /\ Band(T, k) = 30 => Right(T, k) = 30
  <2>1. k \in Place(T)
    BY <1>2 DEF Place
  <2> QED  BY <2>1, Bands
<1>7. ASSUME NEW k \in 1..j, k <= p PROVE r[k] = {}
  <2>1. Loosest(min, Band(T, k)) \in Rule
    BY DEF Loosest, RuleAt, Rule
  <2>2. k - 1 \in 0..Len(T) /\ p > k - 1
    BY <1>2, <1>7
  <2>3. v[<<Loosest(min, Band(T, k)), p, k - 1>>] = {}
    BY <1>2, <2>1, <2>2, Levels
  <2> QED  BY <1>1, <2>3
<1> DEFINE operand(k) == Combine(InfixOp(T[k]), r[k], v[<<RuleAt(Right(T, k)), After(T, k), j>>])
           level(left, right, k) == Combine(InfixOp(T[k]), v[<<left, p, k - 1>>], v[<<right, After(T, k), j>>])
           goes(k) == Goes(T, min, k) /\ ~Goes(T, Right(T, k), e)
<1>8. ASSUME NEW k \in 1..j, Band(T, k) = 30
      PROVE  (goes(k) <=> b <= 20) /\ operand(k) = level("unary", "power", k)
  <2>1. goes(k) <=> b <= 20
    BY <1>4, <1>5, <1>6, <1>8 DEF Goes, Minimum
  <2>2. r[k] = v[<<"unary", p, k - 1>>] /\ RuleAt(Right(T, k)) = "power"
    BY <1>1, <1>6, <1>8 DEF Loosest, RuleAt
  <2> QED  BY <2>1, <2>2
<1>9. ASSUME NEW k \in 1..j, Band(T, k) = 20
      PROVE  (goes(k) <=> min <= 20 /\ b <= 20) /\ (min <= 20 => operand(k) = level("term", "power", k))
  <2>1. goes(k) <=> min <= 20 /\ b <= 20
    BY <1>4, <1>5, <1>6, <1>9 DEF Goes, Minimum
  <2>2. min <= 20 => r[k] = v[<<"term", p, k - 1>>]
    BY <1>1, <1>9 DEF Loosest
  <2>3. RuleAt(Right(T, k)) = "power"
    BY <1>6, <1>9 DEF RuleAt
  <2> QED  BY <2>1, <2>2, <2>3
<1>10. ASSUME NEW k \in 1..j, Band(T, k) = 10
       PROVE  (goes(k) <=> min = 0 /\ b <= 10) /\ (min = 0 => operand(k) = level("sum", "term", k))
  <2>1. goes(k) <=> min = 0 /\ b <= 10
    BY <1>4, <1>5, <1>6, <1>10 DEF Goes, Minimum
  <2>2. min = 0 => r[k] = v[<<"sum", p, k - 1>>]
    BY <1>1, <1>10 DEF Loosest, RuleAt
  <2>3. RuleAt(Right(T, k)) = "term"
    BY <1>6, <1>10 DEF RuleAt
  <2> QED  BY <2>1, <2>2, <2>3
<1>11. ASSUME NEW k \in 1..j, Band(T, k) = -1 PROVE ~goes(k)
  BY <1>11 DEF Goes, Minimum
<1>12. ASSUME NEW left, NEW right, NEW c, NEW y
       PROVE  y \in Level(T, v, left, right, c, p, j) <=>
                \E k \in (p + 1)..j : Band(T, k) = c /\ y \in level(left, right, k)
  BY DEF Level
<1>13. ASSUME NEW y
       PROVE  y \in Turn(T, v, min, P, r, e) <=>
                \/ y \in v[<<"unary", p, j>>]
                \/ \E k \in 1..j : goes(k) /\ y \in operand(k)
  BY <1>1, <1>3, Turned
<1> DEFINE unary == v[<<"unary", p, j>>]
           L30 == Level(T, v, "unary", "power", 30, p, j)
           L20 == Level(T, v, "term", "power", 20, p, j)
           L10 == Level(T, v, "sum", "term", 10, p, j)
<1>14. ASSUME NEW y, NEW k \in 1..j, goes(k), y \in operand(k)
       PROVE  \/ b <= 20 /\ y \in L30
              \/ min <= 20 /\ b <= 20 /\ y \in L20
              \/ min = 0 /\ b <= 10 /\ y \in L10
  <2>1. k \in (p + 1)..j
    <3>1. \A op, B, x : x \notin Combine(op, {}, B)
      BY Combined
    <3>2. ~(k <= p)
      BY <1>7, <1>14, <3>1
    <3> QED  BY <1>0, <3>2
  <2>2. CASE Band(T, k) = 30
    <3>1. b <= 20 /\ y \in level("unary", "power", k)
      BY <1>8, <1>14, <2>2
    <3> QED  BY <1>12, <2>1, <2>2, <3>1
  <2>3. CASE Band(T, k) = 20
    <3>1. min <= 20 /\ b <= 20 /\ y \in level("term", "power", k)
      BY <1>9, <1>14, <2>3
    <3> QED  BY <1>12, <2>1, <2>3, <3>1
  <2>4. CASE Band(T, k) = 10
    <3>1. min = 0 /\ b <= 10 /\ y \in level("sum", "term", k)
      BY <1>10, <1>14, <2>4
    <3> QED  BY <1>12, <2>1, <2>4, <3>1
  <2> HIDE DEF goes, operand, level, L30, L20, L10
  <2> QED  BY <1>6, <1>11, <1>14, <2>2, <2>3, <2>4
<1>15. ASSUME NEW y, b <= 20, y \in L30 PROVE \E k \in 1..j : goes(k) /\ y \in operand(k)
  <2>1. PICK k \in (p + 1)..j : Band(T, k) = 30 /\ y \in level("unary", "power", k)
    BY <1>12, <1>15
  <2>2. k \in 1..j
    BY <1>0
  <2> HIDE DEF goes, operand, level, L30
  <2> QED  BY <1>8, <1>15, <2>1, <2>2
<1>16. ASSUME NEW y, min <= 20, b <= 20, y \in L20 PROVE \E k \in 1..j : goes(k) /\ y \in operand(k)
  <2>1. PICK k \in (p + 1)..j : Band(T, k) = 20 /\ y \in level("term", "power", k)
    BY <1>12, <1>16
  <2>2. k \in 1..j
    BY <1>0
  <2> HIDE DEF goes, operand, level, L20
  <2> QED  BY <1>9, <1>16, <2>1, <2>2
<1>17. ASSUME NEW y, min = 0, b <= 10, y \in L10 PROVE \E k \in 1..j : goes(k) /\ y \in operand(k)
  <2>1. PICK k \in (p + 1)..j : Band(T, k) = 10 /\ y \in level("sum", "term", k)
    BY <1>12, <1>17
  <2>2. k \in 1..j
    BY <1>0
  <2> HIDE DEF goes, operand, level, L10
  <2> QED  BY <1>10, <1>17, <2>1, <2>2
<1>18. ASSUME NEW y
       PROVE  y \in Turn(T, v, min, P, r, e) <=>
                \/ y \in unary
                \/ b <= 20 /\ y \in L30
                \/ min <= 20 /\ b <= 20 /\ y \in L20
                \/ min = 0 /\ b <= 10 /\ y \in L10
  <2> HIDE DEF goes, operand, level, L30, L20, L10
  <2> QED  BY <1>13, <1>14, <1>15, <1>16, <1>17
<1>19. /\ v[<<"sum", p, j>>] = v[<<"term", p, j>>] \cup L10
       /\ v[<<"term", p, j>>] = v[<<"power", p, j>>] \cup L20
       /\ v[<<"power", p, j>>] = unary \cup L30
  <2>1. p \in 1..(Len(T) + 1) /\ j \in 0..Len(T) /\ p <= j
    BY <1>2
  <2>2. /\ v[<<"sum", p, j>>] = v[<<"term", p, j>>] \cup Level(T, v, "sum", "term", 10, p, j)
        /\ v[<<"term", p, j>>] = v[<<"power", p, j>>] \cup Level(T, v, "term", "power", 20, p, j)
        /\ v[<<"power", p, j>>] = v[<<"unary", p, j>>] \cup Level(T, v, "unary", "power", 30, p, j)
    <3> HIDE DEF goes, operand, level, unary, L30, L20, L10
    <3>1. Layered(T, v, p, j)
      BY <2>1, Levels
    <3> QED  BY <3>1 DEF Layered
  <2> QED  BY <2>2
<1>20. PICK a10, a20, a30, a : a10 = L10 /\ a20 = L20 /\ a30 = L30 /\ a = unary
  OBVIOUS
<1>21. PICK turn : turn = Turn(T, v, min, P, r, e)
  OBVIOUS
<1>22. /\ v[<<"sum", p, j>>] = ((a \cup a30) \cup a20) \cup a10
       /\ v[<<"term", p, j>>] = (a \cup a30) \cup a20
       /\ v[<<"power", p, j>>] = a \cup a30
       /\ v[<<"unary", p, j>>] = a
  BY <1>19, <1>20
<1>23. \A y : y \in turn <=> \/ y \in a
                             \/ b <= 20 /\ y \in a30
                             \/ min <= 20 /\ b <= 20 /\ y \in a20
                             \/ min = 0 /\ b <= 10 /\ y \in a10
  <2> HIDE DEF L30, L20, L10, unary
  <2> QED  BY <1>18, <1>20, <1>21
<1> HIDE DEF L30, L20, L10, unary, goes, operand, level
<1>24. CASE b = 30
  <2>1. ~(b <= 20) /\ ~(b <= 10)
    BY <1>24
  <2>2. \A y : y \in turn <=> y \in a
    BY <1>23, <2>1
  <2>3. turn = a
    BY <2>2
  <2>4. Loosest(min, b) = "unary"
    BY <1>24 DEF Loosest
  <2> QED  BY <1>1, <1>4, <1>21, <1>22, <2>3, <2>4
<1>25. CASE b = 20 /\ min <= 20
  <2>1. turn = (a \cup a30) \cup a20
    BY <1>23, <1>25
  <2>2. Loosest(min, b) = "term"
    BY <1>25 DEF Loosest
  <2> QED  BY <1>1, <1>4, <1>21, <1>22, <2>1, <2>2
<1>26. CASE b = 20 /\ ~(min <= 20)
  <2>1. min # 0
    BY <1>26
  <2>2. turn = a \cup a30
    BY <1>23, <1>26, <2>1
  <2>3. Loosest(min, b) = "power"
    BY <1>26 DEF Loosest
  <2> QED  BY <1>1, <1>4, <1>21, <1>22, <2>2, <2>3
<1>27. CASE b <= 10 /\ min = 0
  <2>1. turn = ((a \cup a30) \cup a20) \cup a10
    BY <1>5, <1>23, <1>27
  <2>2. Loosest(min, b) = "sum"
    BY <1>27 DEF Loosest, RuleAt
  <2> QED  BY <1>1, <1>4, <1>21, <1>22, <2>1, <2>2
<1>28. CASE b <= 10 /\ min = 11
  <2>1. turn = (a \cup a30) \cup a20
    BY <1>5, <1>23, <1>28
  <2>2. Loosest(min, b) = "term"
    BY <1>28 DEF Loosest, RuleAt
  <2> QED  BY <1>1, <1>4, <1>21, <1>22, <2>1, <2>2
<1>29. CASE b <= 10 /\ min \in {21, 30}
  <2>1. turn = a \cup a30
    BY <1>5, <1>23, <1>29
  <2>2. Loosest(min, b) = "power"
    BY <1>29 DEF Loosest, RuleAt
  <2> QED  BY <1>1, <1>4, <1>21, <1>22, <2>1, <2>2
<1> QED  BY <1>5, <1>24, <1>25, <1>26, <1>27, <1>28, <1>29 DEF Minimum

\* parseExpr yields the values of the rule that its least binding power stands for.
LEMMA ExitsRule ==
  ASSUME NEW T, IsText(T), NEW v, v = Value(T), NEW min \in Minimum, NEW p \in 1..(Len(T) + 1)
  PROVE  Exits(T, v, min, FromRule(T, v, "unary", p)) =
           [e \in Place(T) |-> IF Goes(T, min, e) THEN {} ELSE v[<<RuleAt(min), p, e - 1>>]]
<1>0. Len(T) \in Nat
  BY DEF IsText
<1>1. PICK P, r : P = FromRule(T, v, "unary", p) /\ r = Reach(T, v, min, P)
  OBVIOUS
<1>2. \A e \in Place(T) : r[e] = Turn(T, v, min, P, r, e)
  BY <1>0, <1>1, Reached
<1> DEFINE applied(e) == r[e] = v[<<Loosest(min, Band(T, e)), p, e - 1>>]
           Good == {n \in Nat : \A e \in Place(T) : e <= n => applied(e)}
<1>3. 0 \in Good
  BY DEF Place
<1>4. ASSUME NEW n \in Nat, n \in Good PROVE n + 1 \in Good
  <2>1. ASSUME NEW e \in Place(T), e <= n + 1 PROVE applied(e)
    <3>1. \A k \in 1..(e - 1) : k \in Place(T) /\ applied(k)
      BY <1>4, <2>1 DEF Place
    <3>2. CASE p <= e - 1
      <4>1. \A k \in 1..(e - 1) : r[k] = v[<<Loosest(min, Band(T, k)), p, k - 1>>]
        BY <3>1
      <4>2. Turn(T, v, min, P, r, e) = v[<<Loosest(min, Band(T, e)), p, e - 1>>]
        BY <1>1, <3>2, <4>1, TurnApplies
      <4> QED  BY <1>2, <4>2
    <3>3. CASE ~(p <= e - 1)
      <4>1. \A rule \in Rule : \A k \in Place(T) : k <= e => v[<<rule, p, k - 1>>] = {}
        <5> SUFFICES ASSUME NEW rule \in Rule, NEW k \in Place(T), k <= e
                     PROVE  v[<<rule, p, k - 1>>] = {}
          OBVIOUS
        <5>1. k - 1 \in 0..Len(T) /\ p > k - 1
          BY <1>0, <3>3 DEF Place
        <5> QED  BY <5>1, Levels
      <4>2. \A b : Loosest(min, b) \in Rule
        BY DEF Loosest, RuleAt, Rule
      <4>3. \A k \in 1..(e - 1) : r[k] = {}
        <5> TAKE k \in 1..(e - 1)
        <5>1. k \in Place(T) /\ k <= e /\ applied(k)
          BY <3>1 DEF Place
        <5> QED  BY <4>1, <4>2, <5>1
      <4>4. P[e] = {}
        <5>1. "unary" \in Rule /\ e <= e
          BY DEF Rule, Place
        <5>2. v[<<"unary", p, e - 1>>] = {}
          BY <4>1, <5>1
        <5> QED  BY <1>1, <5>2 DEF FromRule
      <4>5. \A op, B, y : y \notin Combine(op, {}, B)
        BY Combined
      <4>6. ASSUME NEW y \in r[e] PROVE FALSE
        <5>1. y \in Turn(T, v, min, P, r, e)
          BY <1>2, <4>6
        <5>2. PICK k \in 1..(e - 1) :
                y \in Combine(InfixOp(T[k]), r[k], v[<<RuleAt(Right(T, k)), After(T, k), e - 1>>])
          BY <4>4, <5>1, Turned
        <5> QED  BY <4>3, <4>5, <5>2
      <4>7. v[<<Loosest(min, Band(T, e)), p, e - 1>>] = {}
        <5>1. e <= e
          BY DEF Place
        <5> QED  BY <4>1, <4>2, <5>1
      <4> QED  BY <4>6, <4>7
    <3> QED  BY <3>2, <3>3
  <2> HIDE DEF applied
  <2> QED  BY <2>1
<1>5. \A n \in Nat : n \in Good
  <2> HIDE DEF Good
  <2> QED  BY <1>3, <1>4, NumberInduction
<1>6. \A e \in Place(T) : applied(e)
  <2>1. Len(T) \in Good
    <3> HIDE DEF Good
    <3> QED  BY <1>0, <1>5
  <2> HIDE DEF applied
  <2> QED  BY <2>1 DEF Place
<1>7. ASSUME NEW e \in Place(T), ~Goes(T, min, e) PROVE Loosest(min, Band(T, e)) = RuleAt(min)
  <2>1. Band(T, e) \in {-1, 10, 20, 30}
    BY Bands
  <2> QED  BY <1>7, <2>1 DEF Goes, Loosest, RuleAt, Minimum
<1>8. \A e \in Place(T) : (IF Goes(T, min, e) THEN {} ELSE r[e])
                            = IF Goes(T, min, e) THEN {} ELSE v[<<RuleAt(min), p, e - 1>>]
  BY <1>6, <1>7
<1>9. Exits(T, v, min, P) = [e \in Place(T) |-> IF Goes(T, min, e) THEN {} ELSE r[e]]
  BY <1>1 DEF Exits
<1>10. Exits(T, v, min, P) =
         [e \in Place(T) |-> IF Goes(T, min, e) THEN {} ELSE v[<<RuleAt(min), p, e - 1>>]]
  BY <1>8, <1>9
<1> QED  BY <1>1, <1>10

-----------------------------------------------------------------------------
(* The pending calls *)

\* What a call makes of what it is returned.
Operated(T, op, left, P) ==
  [e \in Place(T) |-> {Apply(op, left, x) : x \in {y \in P[e] : Accepts(op, left, y)}}]
Through(T, v, fr, P) ==
  CASE fr.call = "neg" -> [e \in Place(T) |-> {ScaledNeg(x) : x \in P[e]}]
    [] fr.call = "paren" ->
         [e \in Place(T) |-> IF e > 1 /\ T[e - 1].kind = ")" THEN P[e - 1] ELSE {}]
    [] OTHER -> Exits(T, v, fr.min, IF fr.op = "none" THEN P ELSE Operated(T, fr.op, fr.left, P))

\* The pending calls make of what is returned to the innermost the values of the text.
Explains(T, v, s, P) ==
  \E f : /\ f[Len(s)] = P
         /\ \A n \in 1..Len(s) : f[n - 1] = Through(T, v, s[n], f[n])
         /\ f[0][Len(T)] = v[<<"sum", 1, Len(T) - 1>>]

FrameOf(S) == [call : {"expr", "neg", "paren"}, min : Minimum,
               op : {"none", "+", "-", "*", "/", "**"}, left : S]
Framed(s) == \E S : s \in Seq(FrameOf(S))

\* Calls are pushed and popped.
LEMMA FramePushed ==
  ASSUME NEW s, Framed(s), NEW S, NEW fr \in FrameOf(S)
  PROVE  Framed(Append(s, fr))
<1>1. PICK R : s \in Seq(FrameOf(R))
  BY DEF Framed
<1>2. fr \in FrameOf(R \cup S) /\ FrameOf(R) \subseteq FrameOf(R \cup S)
  BY DEF FrameOf
<1>3. PICK F, G : F = FrameOf(R) /\ G = FrameOf(R \cup S)
  OBVIOUS
<1>4. s \in Seq(F) /\ fr \in G /\ \A x \in F : x \in G
  BY <1>1, <1>2, <1>3
<1>5. s \in Seq(G)
  BY <1>4
<1>6. Append(s, fr) \in Seq(G)
  BY <1>4, <1>5
<1> QED  BY <1>3, <1>6 DEF Framed

LEMMA FramePopped ==
  ASSUME NEW s, Framed(s), s # << >>
  PROVE  LET c == SubSeq(s, 1, Len(s) - 1)
             fr == s[Len(s)]
         IN  Framed(c) /\ s = Append(c, fr) /\ \E S : fr \in FrameOf(S)
<1> DEFINE c == SubSeq(s, 1, Len(s) - 1)
           fr == s[Len(s)]
<1>1. PICK S : s \in Seq(FrameOf(S))
  BY DEF Framed
<1>2. PICK F : F = FrameOf(S)
  OBVIOUS
<1>3. s \in Seq(F) /\ c \in Seq(F) /\ fr \in F /\ s = Append(c, fr)
  BY <1>1, <1>2
<1>4. Framed(c)
  BY <1>2, <1>3 DEF Framed
<1> QED  BY <1>2, <1>3, <1>4

\* The innermost call is the first to be returned to.
LEMMA ExplainsPushed ==
  ASSUME NEW T, NEW v, NEW s, Framed(s), NEW fr, NEW S, fr \in FrameOf(S), NEW P
  PROVE  Explains(T, v, Append(s, fr), P) <=> Explains(T, v, s, Through(T, v, fr, P))
<1>1. PICK R : s \in Seq(R)
  BY DEF Framed
<1>2. PICK t : t = Append(s, fr)
  OBVIOUS
<1>3. /\ Len(s) \in Nat /\ Len(t) = Len(s) + 1 /\ t[Len(t)] = fr
      /\ \A n \in 1..Len(s) : t[n] = s[n]
  BY <1>1, <1>2
<1>4. ASSUME Explains(T, v, t, P) PROVE Explains(T, v, s, Through(T, v, fr, P))
  <2>1. PICK f : /\ f[Len(t)] = P
                 /\ \A n \in 1..Len(t) : f[n - 1] = Through(T, v, t[n], f[n])
                 /\ f[0][Len(T)] = v[<<"sum", 1, Len(T) - 1>>]
    BY <1>4 DEF Explains
  <2>2. f[Len(s)] = Through(T, v, fr, P)
    <3>1. Len(t) \in 1..Len(t) /\ Len(t) - 1 = Len(s)
      BY <1>3
    <3> QED  BY <1>3, <2>1, <3>1
  <2>3. \A n \in 1..Len(s) : f[n - 1] = Through(T, v, s[n], f[n])
    BY <1>3, <2>1
  <2> QED  BY <2>1, <2>2, <2>3 DEF Explains
<1>5. ASSUME Explains(T, v, s, Through(T, v, fr, P)) PROVE Explains(T, v, t, P)
  <2>1. PICK f : /\ f[Len(s)] = Through(T, v, fr, P)
                 /\ \A n \in 1..Len(s) : f[n - 1] = Through(T, v, s[n], f[n])
                 /\ f[0][Len(T)] = v[<<"sum", 1, Len(T) - 1>>]
    BY <1>5 DEF Explains
  <2>2. PICK g : g = [n \in 0..Len(t) |-> IF n = Len(t) THEN P ELSE f[n]]
    OBVIOUS
  <2>3. g[Len(t)] = P /\ \A n \in 0..Len(s) : g[n] = f[n]
    BY <1>3, <2>2
  <2>4. ASSUME NEW n \in 1..Len(t) PROVE g[n - 1] = Through(T, v, t[n], g[n])
    <3>1. CASE n = Len(t)
      <4>1. n - 1 = Len(s) /\ Len(s) \in 0..Len(s)
        BY <1>3, <3>1
      <4> QED  BY <1>3, <2>1, <2>3, <3>1, <4>1
    <3>2. CASE n # Len(t)
      <4>1. n \in 1..Len(s) /\ n \in 0..Len(s) /\ n - 1 \in 0..Len(s)
        BY <1>3, <3>2
      <4> QED  BY <1>3, <2>1, <2>3, <4>1
    <3> QED  BY <3>1, <3>2
  <2>5. g[0] = f[0]
    BY <1>3, <2>3
  <2> QED  BY <2>1, <2>3, <2>4, <2>5 DEF Explains
<1> QED  BY <1>2, <1>4, <1>5

\* When nothing is returned to the innermost call, the text has no value.
LEMMA NothingReturned ==
  ASSUME NEW T, IsText(T), NEW v, NEW s, Framed(s), NEW P,
         Explains(T, v, s, P), \A e \in Place(T) : P[e] = {}
  PROVE  v[<<"sum", 1, Len(T) - 1>>] = {}
<1>0. Len(T) \in Nat /\ Len(T) \in Place(T)
  BY DEF IsText, Place
<1>1. PICK S : s \in Seq(FrameOf(S))
  BY DEF Framed
<1>2. Len(s) \in Nat /\ \A n \in 1..Len(s) : s[n] \in FrameOf(S)
  BY <1>1
<1>3. PICK f : /\ f[Len(s)] = P
               /\ \A n \in 1..Len(s) : f[n - 1] = Through(T, v, s[n], f[n])
               /\ f[0][Len(T)] = v[<<"sum", 1, Len(T) - 1>>]
  BY DEF Explains
<1>4. ASSUME NEW n \in 1..Len(s), \A e \in Place(T) : f[n][e] = {}
      PROVE  \A e \in Place(T) : f[n - 1][e] = {}
  <2>1. PICK fr, Q : fr = s[n] /\ Q = f[n]
    OBVIOUS
  <2>2. fr.call \in {"expr", "neg", "paren"}
    BY <1>2, <2>1 DEF FrameOf
  <2>3. CASE fr.call = "neg"
    <3>1. Through(T, v, fr, Q) = [e \in Place(T) |-> {ScaledNeg(x) : x \in Q[e]}]
      BY <2>3 DEF Through
    <3> QED  BY <1>3, <1>4, <2>1, <3>1
  <2>4. CASE fr.call = "paren"
    <3>1. Through(T, v, fr, Q) =
            [e \in Place(T) |-> IF e > 1 /\ T[e - 1].kind = ")" THEN Q[e - 1] ELSE {}]
      BY <2>4 DEF Through
    <3>2. \A e \in Place(T) : e > 1 => e - 1 \in Place(T)
      BY <1>0 DEF Place
    <3> QED  BY <1>3, <1>4, <2>1, <3>1, <3>2
  <2>5. CASE fr.call = "expr"
    <3>1. PICK R : R = IF fr.op = "none" THEN Q ELSE Operated(T, fr.op, fr.left, Q)
      OBVIOUS
    <3>2. Through(T, v, fr, Q) = Exits(T, v, fr.min, R)
      BY <2>5, <3>1 DEF Through
    <3>3. \A e \in Place(T) : R[e] = {}
      BY <1>4, <2>1, <3>1 DEF Operated
    <3>4. \A e \in Place(T) : Exits(T, v, fr.min, R)[e] = {}
      BY <1>0, <3>3, ExitsNothing
    <3> QED  BY <1>3, <2>1, <3>2, <3>4
  <2> QED  BY <2>2, <2>3, <2>4, <2>5
<1> DEFINE Good == {m \in Nat : m <= Len(s) => \A e \in Place(T) : f[Len(s) - m][e] = {}}
<1>5. 0 \in Good
  BY <1>2, <1>3
<1>6. ASSUME NEW m \in Nat, m \in Good PROVE m + 1 \in Good
  <2>1. SUFFICES ASSUME m + 1 <= Len(s) PROVE \A e \in Place(T) : f[Len(s) - (m + 1)][e] = {}
    OBVIOUS
  <2>2. PICK n \in 1..Len(s) : n = Len(s) - m /\ n - 1 = Len(s) - (m + 1)
    BY <1>2, <2>1
  <2>3. \A e \in Place(T) : f[n][e] = {}
    BY <1>2, <1>6, <2>1, <2>2
  <2>4. \A e \in Place(T) : f[n - 1][e] = {}
    BY <1>4, <2>3
  <2> QED  BY <2>2, <2>4
<1>7. Len(s) \in Good
  <2>1. \A m \in Nat : m \in Good
    <3> HIDE DEF Good
    <3> QED  BY <1>5, <1>6, NumberInduction
  <2> HIDE DEF Good
  <2> QED  BY <1>2, <2>1
<1>8. \A e \in Place(T) : f[0][e] = {}
  BY <1>2, <1>7
<1> QED  BY <1>0, <1>3, <1>8

-----------------------------------------------------------------------------
(* What a word ahead makes of the values that are wanted *)

\* The calls that the parser makes.
LEMMA NewCalls ==
  ASSUME NEW m \in Minimum
  PROVE  /\ ExprCall(m) \in FrameOf({Nothing}) /\ NegCall \in FrameOf({Nothing})
         /\ ParenCall \in FrameOf({Nothing})
         /\ ExprCall(m).call = "expr" /\ ExprCall(m).min = m /\ ExprCall(m).op = "none"
         /\ NegCall.call = "neg" /\ ParenCall.call = "paren"
<1>1. 0 \in Minimum
  BY DEF Minimum
<1>2. \A k \in Minimum : ExprCall(k) \in FrameOf({Nothing})
  BY DEF ExprCall, FrameOf
<1> QED  BY <1>1, <1>2 DEF ExprCall, NegCall, ParenCall, FrameOf

\* The value of a text is what is returned to nobody.
LEMMA ExplainsAll ==
  ASSUME NEW T, NEW v, NEW P
  PROVE  Explains(T, v, << >>, P) <=> P[Len(T)] = v[<<"sum", 1, Len(T) - 1>>]
<1>1. Len(<< >>) = 0 /\ \A n \in 1..0 : FALSE
  OBVIOUS
<1>2. ASSUME P[Len(T)] = v[<<"sum", 1, Len(T) - 1>>] PROVE Explains(T, v, << >>, P)
  <2>1. PICK f : f = [n \in 0..0 |-> P]
    OBVIOUS
  <2>2. f[0] = P
    BY <2>1
  <2> QED  BY <1>1, <1>2, <2>2 DEF Explains
<1>3. Explains(T, v, << >>, P) => P[Len(T)] = v[<<"sum", 1, Len(T) - 1>>]
  BY <1>1 DEF Explains
<1> QED  BY <1>2, <1>3

IsAhead(T, v, p, e) ==
  /\ FromRule(T, v, "unary", p)[e] = IF p < e THEN Signed(T, v, p, e - 1) ELSE {}
  /\ FromRule(T, v, "unary", p + 1)[e] = v[<<"unary", p + 1, e - 1>>]
  /\ p >= e => FromRule(T, v, "unary", p + 1)[e] = {}
  /\ p >= e => v[<<"sum", p + 1, e - 2>>] = {} \/ e = 1
LEMMA UnaryAhead ==
  ASSUME NEW T, IsText(T), NEW v, v = Value(T), NEW p \in Place(T), NEW e \in Place(T)
  PROVE  IsAhead(T, v, p, e)
<1>1. Len(T) \in Nat /\ p \in 1..Len(T) /\ e \in 1..Len(T)
  BY DEF IsText, Place
<1>2. p \in 1..(Len(T) + 1) /\ p + 1 \in 1..(Len(T) + 1) /\ e - 1 \in 0..Len(T)
  BY <1>1
<1>3. "unary" \in Rule /\ "sum" \in Rule
  BY DEF Rule
<1>4. CASE p < e
  <2>1. p <= e - 1
    BY <1>1, <1>4
  <2>2. Layered(T, v, p, e - 1)
    BY <1>2, <2>1, Levels
  <2>3. v[<<"unary", p, e - 1>>] = Signed(T, v, p, e - 1)
    BY <2>2 DEF Layered
  <2>4. ~(p >= e)
    BY <1>1, <1>4
  <2> QED  BY <1>4, <2>3, <2>4 DEF FromRule, IsAhead
<1>5. CASE ~(p < e)
  <2>1. p > e - 1 /\ p + 1 > e - 1 /\ p + 1 > e - 2 /\ (e = 1 \/ e - 2 \in 0..Len(T))
    BY <1>1, <1>5
  <2>2. v[<<"unary", p, e - 1>>] = {} /\ v[<<"unary", p + 1, e - 1>>] = {}
    BY <1>2, <1>3, <2>1, Levels
  <2>3. v[<<"sum", p + 1, e - 2>>] = {} \/ e = 1
    BY <1>2, <1>3, <2>1, Levels
  <2> QED  BY <1>5, <2>2, <2>3 DEF FromRule, IsAhead
<1> QED  BY <1>4, <1>5

\* An operand is the value of a unary, at once.
LEMMA OperandAhead ==
  ASSUME NEW T, IsText(T), NEW v, v = Value(T), NEW p \in Place(T), T[p] \in Operand
  PROVE  FromRule(T, v, "unary", p) = Only(T, Literal(T[p]), p + 1)
<1>1. T[p].kind \in {"number", "ident"}
  BY DEF Operand
<1>2. ASSUME NEW e \in Place(T)
      PROVE  FromRule(T, v, "unary", p)[e] = IF e = p + 1 THEN {Literal(T[p])} ELSE {}
  <2>1. p \in Nat /\ e \in Nat
    BY DEF Place
  <2>2. Signed(T, v, p, e - 1) = IF p = e - 1 THEN {Literal(T[p])} ELSE {}
    BY <1>1 DEF Signed
  <2>3. (e = p + 1 <=> p = e - 1) /\ (e = p + 1 => p < e)
    BY <2>1
  <2>4. FromRule(T, v, "unary", p)[e] = IF p < e THEN Signed(T, v, p, e - 1) ELSE {}
    <3>1. IsAhead(T, v, p, e)
      BY UnaryAhead
    <3> QED  BY <3>1 DEF IsAhead
  <2> QED  BY <2>2, <2>3, <2>4
<1> QED  BY <1>2 DEF FromRule, Only

\* A sign is followed by a unary.
LEMMA PlusAhead ==
  ASSUME NEW T, IsText(T), NEW v, v = Value(T), NEW p \in Place(T), T[p].kind = "+"
  PROVE  FromRule(T, v, "unary", p) = FromRule(T, v, "unary", p + 1)
<1>1. T[p] \notin Operand
  BY DEF Operand
<1>2. ASSUME NEW e \in Place(T)
      PROVE  FromRule(T, v, "unary", p)[e] = FromRule(T, v, "unary", p + 1)[e]
  <2>1. p \in Nat /\ e \in Nat
    BY DEF Place
  <2>2. Signed(T, v, p, e - 1) = v[<<"unary", p + 1, e - 1>>]
    BY <1>1 DEF Signed
  <2>3. p < e \/ p >= e
    BY <2>1
  <2>4. IsAhead(T, v, p, e)
    BY UnaryAhead
  <2> QED  BY <2>1, <2>2, <2>3, <2>4 DEF IsAhead
<1> QED  BY <1>2 DEF FromRule

LEMMA MinusAhead ==
  ASSUME NEW T, IsText(T), NEW v, v = Value(T), NEW p \in Place(T), T[p].kind = "-"
  PROVE  FromRule(T, v, "unary", p) = Through(T, v, NegCall, FromRule(T, v, "unary", p + 1))
<1>1. T[p] \notin Operand
  BY DEF Operand
<1>2. PICK P : P = FromRule(T, v, "unary", p + 1)
  OBVIOUS
<1>3. ASSUME NEW e \in Place(T)
      PROVE  FromRule(T, v, "unary", p)[e] = {ScaledNeg(x) : x \in P[e]}
  <2>1. p \in Nat /\ e \in Nat
    BY DEF Place
  <2>2. Signed(T, v, p, e - 1) = {ScaledNeg(x) : x \in v[<<"unary", p + 1, e - 1>>]}
    BY <1>1 DEF Signed
  <2>3. p < e \/ p >= e
    BY <2>1
  <2>4. /\ FromRule(T, v, "unary", p)[e] = IF p < e THEN Signed(T, v, p, e - 1) ELSE {}
        /\ P[e] = v[<<"unary", p + 1, e - 1>>]
        /\ p >= e => P[e] = {}
    <3>1. IsAhead(T, v, p, e)
      BY UnaryAhead
    <3> QED  BY <1>2, <3>1 DEF IsAhead
  <2> QED  BY <2>1, <2>2, <2>3, <2>4
<1>4. Through(T, v, NegCall, P) = [e \in Place(T) |-> {ScaledNeg(x) : x \in P[e]}]
  <2>1. 0 \in Minimum
    BY DEF Minimum
  <2> QED  BY <2>1, NewCalls DEF Through
<1>5. FromRule(T, v, "unary", p) = [e \in Place(T) |-> {ScaledNeg(x) : x \in P[e]}]
  BY <1>3 DEF FromRule
<1> QED  BY <1>2, <1>4, <1>5

\* A call of parseExpr, and what it yields.
Yields(T, v, m, p) ==
  [e \in Place(T) |-> IF Goes(T, m, e) THEN {} ELSE v[<<RuleAt(m), p, e - 1>>]]
LEMMA ExprAhead ==
  ASSUME NEW T, IsText(T), NEW v, v = Value(T), NEW m \in Minimum, NEW p \in 1..(Len(T) + 1)
  PROVE  Through(T, v, ExprCall(m), FromRule(T, v, "unary", p)) = Yields(T, v, m, p)
<1>1. PICK P : P = FromRule(T, v, "unary", p)
  OBVIOUS
<1>2. Through(T, v, ExprCall(m), P) = Exits(T, v, m, P)
  BY NewCalls DEF Through
<1> QED  BY <1>1, <1>2, ExitsRule DEF Yields

\* A parenthesis is followed by a sum and by the closing one.
LEMMA ParenAhead ==
  ASSUME NEW T, IsText(T), NEW v, v = Value(T), NEW p \in Place(T), T[p].kind = "("
  PROVE  FromRule(T, v, "unary", p) =
           Through(T, v, ParenCall, Through(T, v, ExprCall(0), FromRule(T, v, "unary", p + 1)))
<1>0. Len(T) \in Nat /\ p \in 1..Len(T) /\ p + 1 \in 1..(Len(T) + 1) /\ 0 \in Minimum
  BY DEF IsText, Place, Minimum
<1>1. T[p] \notin Operand
  BY DEF Operand
<1>2. PICK P : P = Through(T, v, ExprCall(0), FromRule(T, v, "unary", p + 1))
  OBVIOUS
<1>3. \A e \in Place(T) : P[e] = IF Goes(T, 0, e) THEN {} ELSE v[<<"sum", p + 1, e - 1>>]
  <2>1. RuleAt(0) = "sum"
    BY DEF RuleAt
  <2>2. PICK k : k = p + 1
    OBVIOUS
  <2>3. P = Yields(T, v, 0, k)
    BY <1>0, <1>2, <2>2, ExprAhead
  <2> QED  BY <2>1, <2>2, <2>3 DEF Yields
<1>4. ASSUME NEW e \in Place(T)
      PROVE  FromRule(T, v, "unary", p)[e] = IF e > 1 /\ T[e - 1].kind = ")" THEN P[e - 1] ELSE {}
  <2>1. e \in 1..Len(T) /\ e \in Nat
    BY DEF Place
  <2>2. Signed(T, v, p, e - 1) = IF T[e - 1].kind = ")" THEN v[<<"sum", p + 1, (e - 1) - 1>>] ELSE {}
    BY <1>1 DEF Signed
  <2>3. ASSUME e > 1, T[e - 1].kind = ")" PROVE P[e - 1] = v[<<"sum", p + 1, (e - 1) - 1>>]
    <3>1. e - 1 \in Place(T)
      BY <2>1, <2>3 DEF Place
    <3>2. ~Goes(T, 0, e - 1)
      <4>1. T[e - 1] \notin Operator /\ ~Implicit(T[e - 1])
        BY <2>3 DEF Operator, Implicit
      <4> QED  BY <4>1 DEF Goes, Band, IsInfix
    <3> QED  BY <1>3, <3>1, <3>2
  <2>4. (e - 1) - 1 = e - 2 /\ IsAhead(T, v, p, e)
    <3>1. (e - 1) - 1 = e - 2
      BY <2>1
    <3>2. IsAhead(T, v, p, e)
      BY UnaryAhead
    <3> QED  BY <3>1, <3>2
  <2>5. CASE p < e
    <3>1. e > 1
      BY <1>0, <2>1, <2>5
    <3>2. FromRule(T, v, "unary", p)[e] = Signed(T, v, p, e - 1)
      BY <2>4, <2>5 DEF IsAhead
    <3> QED  BY <2>2, <2>3, <3>1, <3>2
  <2>6. CASE ~(p < e)
    <3>1. p >= e
      BY <1>0, <2>1, <2>6
    <3>2. v[<<"sum", p + 1, e - 2>>] = {} \/ e = 1
      BY <2>4, <3>1 DEF IsAhead
    <3>3. FromRule(T, v, "unary", p)[e] = {}
      BY <2>4, <2>6 DEF IsAhead
    <3> QED  BY <2>3, <2>4, <3>2, <3>3
  <2> QED  BY <2>5, <2>6
<1>5. Through(T, v, ParenCall, P) =
        [e \in Place(T) |-> IF e > 1 /\ T[e - 1].kind = ")" THEN P[e - 1] ELSE {}]
  BY <1>0, NewCalls DEF Through
<1>6. FromRule(T, v, "unary", p) =
        [e \in Place(T) |-> IF e > 1 /\ T[e - 1].kind = ")" THEN P[e - 1] ELSE {}]
  BY <1>4 DEF FromRule
<1> QED  BY <1>2, <1>5, <1>6

\* Anything else is the beginning of nothing.
LEMMA NothingAhead ==
  ASSUME NEW T, IsText(T), NEW v, v = Value(T), NEW p \in Place(T),
         T[p].kind \notin {"number", "ident", "+", "-", "("}
  PROVE  \A e \in Place(T) : FromRule(T, v, "unary", p)[e] = {}
<1>1. T[p] \notin Operand
  BY DEF Operand
<1>2. ASSUME NEW e \in Place(T) PROVE FromRule(T, v, "unary", p)[e] = {}
  <2>1. Signed(T, v, p, e - 1) = {}
    BY <1>1 DEF Signed
  <2> QED  BY <2>1, UnaryAhead DEF IsAhead
<1> QED  BY <1>2

\* An operator that binds tightly enough is followed by its right operand.
LEMMA OperatorAhead ==
  ASSUME NEW T, IsText(T), NEW v, v = Value(T), NEW p \in Place(T), NEW fr, fr.call = "expr",
         fr.op = InfixOp(T[p]), fr.min \in Minimum, Goes(T, fr.min, p)
  PROVE  /\ Right(T, p) \in Minimum
         /\ Exits(T, v, fr.min, Only(T, fr.left, p)) =
              Through(T, v, fr, Through(T, v, ExprCall(Right(T, p)),
                                        FromRule(T, v, "unary", After(T, p))))
<1>0. Len(T) \in Nat /\ p \in 1..Len(T)
  BY DEF IsText, Place
<1>1. Right(T, p) \in Minimum /\ After(T, p) \in 1..(Len(T) + 1) /\ fr.op # "none"
  <2>1. Band(T, p) \in {10, 20, 30} /\ IsInfix(T[p])
    <3>1. Band(T, p) \in {-1, 10, 20, 30} /\ Band(T, p) >= fr.min
      BY Bands DEF Goes
    <3> QED  BY <3>1 DEF Minimum, Band
  <2>2. Right(T, p) \in Minimum
    BY <2>1, Bands DEF Minimum
  <2>3. After(T, p) \in p..(p + 1)
    BY Bands
  <2>4. InfixOp(T[p]) # "none"
    BY <2>1 DEF InfixOp, IsInfix, Operator
  <2> QED  BY <1>0, <2>2, <2>3, <2>4
<1>2. PICK P : P = Through(T, v, ExprCall(Right(T, p)), FromRule(T, v, "unary", After(T, p)))
  OBVIOUS
<1>3. \A e \in Place(T) :
        P[e] = IF Goes(T, Right(T, p), e) THEN {} ELSE v[<<RuleAt(Right(T, p)), After(T, p), e - 1>>]
  <2>1. P = Yields(T, v, Right(T, p), After(T, p))
    BY <1>1, <1>2, ExprAhead
  <2> QED  BY <2>1 DEF Yields
<1>4. ASSUME NEW B
      PROVE  Combine(fr.op, {fr.left}, B)
               = {Apply(fr.op, fr.left, x) : x \in {y \in B : Accepts(fr.op, fr.left, y)}}
  <2>1. \A x : x \in Combine(fr.op, {fr.left}, B) <=>
                 \E a \in {fr.left} : \E b \in B : Accepts(fr.op, a, b) /\ x = Apply(fr.op, a, b)
    BY Combined
  <2> QED  BY <2>1
<1>5. ASSUME NEW e \in Place(T)
      PROVE  FirstTurn(T, v, fr.left, p)[e]
               = {Apply(fr.op, fr.left, x) : x \in {y \in P[e] : Accepts(fr.op, fr.left, y)}}
  <2>1. FirstTurn(T, v, fr.left, p)[e] =
          IF Goes(T, Right(T, p), e) THEN {}
          ELSE Combine(fr.op, {fr.left}, v[<<RuleAt(Right(T, p)), After(T, p), e - 1>>])
    BY DEF FirstTurn
  <2>2. CASE Goes(T, Right(T, p), e)
    BY <1>3, <2>1, <2>2
  <2>3. CASE ~Goes(T, Right(T, p), e)
    <3>1. FirstTurn(T, v, fr.left, p)[e] = Combine(fr.op, {fr.left}, P[e])
      BY <1>3, <2>1, <2>3
    <3> QED  BY <1>4, <3>1
  <2> QED  BY <2>2, <2>3
<1>6. FirstTurn(T, v, fr.left, p) = Operated(T, fr.op, fr.left, P)
  BY <1>5 DEF FirstTurn, Operated
<1>7. Through(T, v, fr, P) = Exits(T, v, fr.min, Operated(T, fr.op, fr.left, P))
  BY <1>1 DEF Through
<1>8. Exits(T, v, fr.min, Only(T, fr.left, p)) = Exits(T, v, fr.min, FirstTurn(T, v, fr.left, p))
  BY ExitsFirst
<1> QED  BY <1>1, <1>2, <1>6, <1>7, <1>8

-----------------------------------------------------------------------------
(* What a call makes of one value *)

\* A sign changes it, a parenthesis wants to be closed, an operator is applied to it.
LEMMA NegReturned ==
  ASSUME NEW T, NEW v, NEW fr, fr.call = "neg", NEW x, NEW p
  PROVE  Through(T, v, fr, Only(T, x, p)) = Only(T, ScaledNeg(x), p)
<1>1. Through(T, v, fr, Only(T, x, p)) = [e \in Place(T) |-> {ScaledNeg(y) : y \in Only(T, x, p)[e]}]
  BY DEF Through
<1>2. ASSUME NEW e \in Place(T)
      PROVE  {ScaledNeg(y) : y \in Only(T, x, p)[e]} = IF e = p THEN {ScaledNeg(x)} ELSE {}
  BY DEF Only
<1> QED  BY <1>1, <1>2 DEF Only

LEMMA ParenReturned ==
  ASSUME NEW T, Len(T) \in Nat, NEW v, NEW fr, fr.call = "paren", NEW x, NEW p \in Place(T)
  PROVE  /\ T[p].kind = ")" => Through(T, v, fr, Only(T, x, p)) = Only(T, x, p + 1)
         /\ T[p].kind # ")" => \A e \in Place(T) : Through(T, v, fr, Only(T, x, p))[e] = {}
<1>1. Through(T, v, fr, Only(T, x, p)) =
        [e \in Place(T) |-> IF e > 1 /\ T[e - 1].kind = ")" THEN Only(T, x, p)[e - 1] ELSE {}]
  BY DEF Through
<1>2. ASSUME NEW e \in Place(T)
      PROVE  (IF e > 1 /\ T[e - 1].kind = ")" THEN Only(T, x, p)[e - 1] ELSE {})
               = IF e = p + 1 /\ T[p].kind = ")" THEN {x} ELSE {}
  <2>1. p \in 1..Len(T) /\ e \in 1..Len(T)
    BY DEF Place
  <2>2. e > 1 => Only(T, x, p)[e - 1] = IF e - 1 = p THEN {x} ELSE {}
    BY <2>1 DEF Only, Place
  <2>3. (e - 1 = p <=> e = p + 1) /\ (e = p + 1 => e > 1)
    BY <2>1
  <2> QED  BY <2>2, <2>3
<1>3. T[p].kind = ")" => Through(T, v, fr, Only(T, x, p)) = Only(T, x, p + 1)
  BY <1>1, <1>2 DEF Only
<1> QED  BY <1>1, <1>2, <1>3

LEMMA ExprReturned ==
  ASSUME NEW T, Len(T) \in Nat, NEW v, NEW fr, fr.call = "expr", NEW x, NEW p
  PROVE  /\ fr.op = "none" => Through(T, v, fr, Only(T, x, p)) = Exits(T, v, fr.min, Only(T, x, p))
         /\ fr.op # "none" /\ Accepts(fr.op, fr.left, x) =>
              Through(T, v, fr, Only(T, x, p)) = Exits(T, v, fr.min, Only(T, Apply(fr.op, fr.left, x), p))
         /\ fr.op # "none" /\ ~Accepts(fr.op, fr.left, x) =>
              \A e \in Place(T) : Through(T, v, fr, Only(T, x, p))[e] = {}
<1>1. PICK P, R : P = Only(T, x, p) /\ R = Operated(T, fr.op, fr.left, P)
  OBVIOUS
<1>2. /\ fr.op = "none" => Through(T, v, fr, P) = Exits(T, v, fr.min, P)
      /\ fr.op # "none" => Through(T, v, fr, P) = Exits(T, v, fr.min, R)
  BY <1>1 DEF Through
<1>3. \A e \in Place(T) : P[e] = IF e = p THEN {x} ELSE {}
  BY <1>1 DEF Only
<1>4. R = [e \in Place(T) |-> {Apply(fr.op, fr.left, y) : y \in {z \in P[e] : Accepts(fr.op, fr.left, z)}}]
  BY <1>1 DEF Operated
<1>5. ASSUME Accepts(fr.op, fr.left, x) PROVE R = Only(T, Apply(fr.op, fr.left, x), p)
  <2>1. ASSUME NEW e \in Place(T)
        PROVE  {Apply(fr.op, fr.left, y) : y \in {z \in P[e] : Accepts(fr.op, fr.left, z)}}
                 = IF e = p THEN {Apply(fr.op, fr.left, x)} ELSE {}
    <3>1. CASE e = p
      <4>1. {z \in P[e] : Accepts(fr.op, fr.left, z)} = {x}
        BY <1>3, <1>5, <3>1
      <4> QED  BY <3>1, <4>1
    <3>2. CASE e # p
      BY <1>3, <3>2
    <3> QED  BY <3>1, <3>2
  <2> QED  BY <1>4, <2>1 DEF Only
<1>6. ASSUME ~Accepts(fr.op, fr.left, x) PROVE \A e \in Place(T) : Exits(T, v, fr.min, R)[e] = {}
  <2>1. \A e \in Place(T) : R[e] = {}
    BY <1>3, <1>4, <1>6
  <2> QED  BY <2>1, ExitsNothing
<1> QED  BY <1>1, <1>2, <1>5, <1>6

-----------------------------------------------------------------------------
(* What is read so far, and what it may become *)

\* The end and errors are met once, and last.
TextOK(t, wrong) ==
  /\ t \in Seq(AnyToken) /\ wrong \in BOOLEAN
  /\ \A i \in 1..(Len(t) - 1) : t[i] \in Token
  /\ t # << >> => (wrong <=> t[Len(t)] = Bad)

\* T is a text that begins with what is read.
Reads(T, t) == IsText(T) /\ Len(t) <= Len(T) /\ \A i \in 1..Len(t) : T[i] = t[i]

\* The calls that are pending, and what is being returned, explain the values of T.
Explained(T, t, s, a, x) ==
  /\ a \in {"first", "unary"} => Explains(T, Value(T), s, FromRule(T, Value(T), "unary", Len(t)))
  /\ a = "return" => Explains(T, Value(T), s, Only(T, x, Len(t)))
  /\ a = "infix" => Explains(T, Value(T), SubSeq(s, 1, Len(s) - 1),
                             Exits(T, Value(T), s[Len(s)].min, Only(T, s[Len(s)].left, Len(t))))

\* Inductive: the parser knows the values of every text that it may be reading.
GInv ==
  /\ TextOK(text, err) /\ Framed(stack)
  /\ at = "start" => text = << >> /\ ~err /\ val = Nothing
  /\ at = "first" => Len(text) = 1 /\ stack = <<ExprCall(0)>> /\ val = Nothing
  /\ at \in {"unary", "infix", "return"} => text # << >> /\ text # <<EOF>>
  /\ at = "infix" => stack # << >> /\ Top.call = "expr" /\ Top.op = "none"
  /\ \A T : Reads(T, text) => Explained(T, text, stack, at, val)
  /\ ParserMatchesGrammar

\* The end and the error are no words.
LEMMA KindsApart ==
  /\ EOF \notin Token /\ Bad \notin Token /\ EOF # Bad /\ EOF \in AnyToken /\ Bad \in AnyToken
  /\ Token \subseteq AnyToken /\ EOF.kind = "EOF"
<1>1. \A t \in Token : t.kind # "EOF" /\ t.kind # "bad"
  BY DEF Token, Operand, Operator
<1>2. EOF.kind = "EOF" /\ Bad.kind = "bad"
  BY DEF EOF, Bad
<1> QED  BY <1>1, <1>2 DEF AnyToken

\* One more word is drawn.
LEMMA LexDraws ==
  ASSUME TextOK(text, err), ~err, Lex, text # << >> => text[Len(text)] \in Token
  PROVE  /\ TextOK(text', err') /\ text' # << >> /\ Len(text') = Len(text) + 1
         /\ text # << >> => text' # <<EOF>>
         /\ \A T : Reads(T, text') => Reads(T, text)
<1>1. PICK t, u : t = text /\ u = text'
  OBVIOUS
<1>2. PICK w \in AnyToken : u = Append(t, w) /\ err' = (err \/ w = Bad)
  BY <1>1 DEF Lex, AnyToken
<1>3. t \in Seq(AnyToken) /\ \A i \in 1..(Len(t) - 1) : t[i] \in Token
  BY <1>1 DEF TextOK
<1>4. /\ u \in Seq(AnyToken) /\ Len(u) = Len(t) + 1 /\ u[Len(u)] = w /\ Len(t) \in Nat
      /\ \A i \in 1..Len(t) : u[i] = t[i]
  BY <1>2, <1>3
<1>5. \A i \in 1..(Len(u) - 1) : u[i] \in Token
  <2> SUFFICES ASSUME NEW i \in 1..(Len(u) - 1) PROVE u[i] \in Token
    OBVIOUS
  <2>1. i \in 1..Len(t) /\ u[i] = t[i]
    BY <1>4
  <2>2. CASE i = Len(t)
    BY <1>1, <2>1, <2>2
  <2>3. CASE i # Len(t)
    <3>1. i \in 1..(Len(t) - 1)
      BY <1>4, <2>1, <2>3
    <3> QED  BY <1>3, <2>1, <3>1
  <2> QED  BY <2>2, <2>3
<1>6. TextOK(u, err')
  <2>1. err' = (w = Bad)
    BY <1>2
  <2> QED  BY <1>4, <1>5, <2>1 DEF TextOK
<1>7. t # << >> => Len(u) # 1
  BY <1>3, <1>4
<1>8. ASSUME NEW T, Reads(T, u) PROVE Reads(T, t)
  <2>1. IsText(T) /\ Len(u) <= Len(T) /\ \A i \in 1..Len(u) : T[i] = u[i]
    BY <1>8 DEF Reads
  <2>2. Len(T) \in Nat
    BY <2>1 DEF IsText
  <2>3. Len(t) <= Len(T) /\ \A i \in 1..Len(t) : T[i] = t[i]
    <3>1. \A i \in 1..Len(t) : i \in 1..Len(u)
      BY <1>4
    <3> QED  BY <1>4, <2>1, <2>2, <3>1
  <2> QED  BY <2>1, <2>3 DEF Reads
<1>9. Len(<<EOF>>) = 1 /\ u # << >>
  BY <1>4
<1> QED  BY <1>1, <1>4, <1>6, <1>7, <1>8, <1>9

\* The word ahead is the one of the text that is read.
LEMMA WordAhead ==
  ASSUME TextOK(text, err), text # << >>
  PROVE  /\ Tok.kind # "EOF" => ~err /\ Tok \in Token /\ text[Len(text)] = Tok
         /\ \A T : Reads(T, text) =>
              /\ IsText(T) /\ Len(T) \in Nat /\ Len(text) \in Place(T) /\ ~err /\ T[Len(text)] = Tok
              /\ Tok.kind = "EOF" => Len(text) = Len(T) /\ text[Len(text)] = EOF
<1>1. PICK t, w : t = text /\ w = text[Len(text)]
  OBVIOUS
<1>2. t \in Seq(AnyToken) /\ Len(t) \in Nat \ {0} /\ w \in AnyToken /\ (err <=> w = Bad)
  BY <1>1 DEF TextOK
<1>3. Tok = IF err THEN EOF ELSE w
  BY <1>1 DEF Tok
<1>4. \A x \in Token : x.kind # "EOF"
  BY DEF Token, Operand, Operator
<1>5. Tok.kind # "EOF" => ~err /\ Tok \in Token /\ w = Tok
  BY <1>2, <1>3, KindsApart DEF AnyToken
<1>6. ASSUME NEW T, Reads(T, t)
      PROVE  /\ IsText(T) /\ Len(T) \in Nat /\ Len(t) \in Place(T) /\ ~err /\ T[Len(t)] = Tok
             /\ Tok.kind = "EOF" => Len(t) = Len(T) /\ w = EOF
  <2>1. IsText(T) /\ Len(t) <= Len(T) /\ \A i \in 1..Len(t) : T[i] = t[i]
    BY <1>6 DEF Reads
  <2>2. Len(T) \in Nat /\ T \in Seq(Token \cup {EOF}) /\ \A i \in 1..(Len(T) - 1) : T[i] \in Token
    BY <2>1 DEF IsText
  <2>3. Len(t) \in 1..Len(t) /\ Len(t) \in 1..Len(T)
    BY <1>2, <2>1, <2>2
  <2>4. T[Len(t)] = w /\ w \in Token \cup {EOF}
    BY <1>1, <2>1, <2>2, <2>3
  <2>5. ~err /\ Tok = w
    BY <1>2, <1>3, <2>4, KindsApart
  <2>6. ASSUME w.kind = "EOF" PROVE Len(t) = Len(T) /\ w = EOF
    <3>1. w \notin Token
      BY <1>4, <2>6
    <3>2. ~(Len(t) \in 1..(Len(T) - 1))
      BY <2>2, <2>4, <3>1
    <3> QED  BY <2>2, <2>3, <2>4, <3>1, <3>2
  <2> QED  BY <2>1, <2>2, <2>3, <2>4, <2>5, <2>6 DEF Place
<1> QED  BY <1>1, <1>5, <1>6

\* A text that is read to its end is all there is.
LEMMA TextEnds ==
  ASSUME TextOK(text, err), text # << >>, text # <<EOF>>, text[Len(text)] = EOF
  PROVE  /\ Reads(text, text) /\ IsText(text) /\ ~err /\ Tok = EOF /\ Len(text) \in Nat
         /\ Denotation = Value(text)[<<"sum", 1, Len(text) - 1>>]
<1>1. PICK t : t = text
  OBVIOUS
<1>2. /\ t \in Seq(AnyToken) /\ t # << >> /\ t # <<EOF>> /\ t[Len(t)] = EOF
      /\ \A i \in 1..(Len(t) - 1) : t[i] \in Token
  BY <1>1 DEF TextOK
<1>3. Len(t) > 1 /\ Len(t) \in Nat
  <2>1. Len(t) \in Nat /\ Len(t) # 0
    BY <1>2
  <2>2. Len(t) # 1
    <3>1. Len(t) = 1 => t = <<EOF>>
      BY <1>2
    <3> QED  BY <1>2, <3>1
  <2>3. PICK n : n = Len(t)
    OBVIOUS
  <2>4. n \in Nat /\ n # 0 /\ n # 1 => n > 1
    OBVIOUS
  <2> QED  BY <2>1, <2>2, <2>3, <2>4
<1>4. \A i \in 1..Len(t) : t[i] \in Token \cup {EOF}
  <2> SUFFICES ASSUME NEW i \in 1..Len(t), i # Len(t) PROVE t[i] \in Token
    BY <1>2
  <2>1. i \in 1..(Len(t) - 1)
    BY <1>3
  <2> QED  BY <1>2, <2>1
<1>5. t \in Seq(Token \cup {EOF})
  BY <1>2, <1>4
<1>6. IsText(t)
  BY <1>2, <1>3, <1>5 DEF IsText
<1>7. Reads(t, t)
  BY <1>3, <1>6 DEF Reads
<1>8. ~err
  BY KindsApart DEF TextOK
<1>9. Tok = EOF
  BY <1>8 DEF Tok
<1>10. Denotation = Value(text)[<<"sum", 1, Len(text) - 1>>]
  BY DEF Denotation
<1>11. Reads(text, text) /\ IsText(text) /\ Len(text) \in Nat
  BY <1>1, <1>3, <1>6, <1>7
<1> QED  BY <1>8, <1>9, <1>10, <1>11

\* Where the parser gives up, a text that is read to its end has no value.
LEMMA RefuseMeans ==
  ASSUME TextOK(text, err), text[Len(text)] = EOF => Denotation = {}, Refuse
  PROVE  GInv'
<1>1. at' = "refused" /\ stack' = << >> /\ text' = text /\ err' = err /\ val' = val
  BY DEF Refuse
<1>2. Framed(<< >>)
  <2>1. << >> \in Seq(FrameOf({}))
    OBVIOUS
  <2> QED  BY <2>1 DEF Framed
<1>3. \A T : Explained(T, text', stack', at', val')
  BY <1>1 DEF Explained
<1>4. ParserMatchesGrammar'
  BY <1>1 DEF ParserMatchesGrammar, Denotation
<1> QED  BY <1>1, <1>2, <1>3, <1>4 DEF GInv

\* ... and where nothing is returned to the pending calls.
LEMMA NothingMeans ==
  ASSUME TextOK(text, err), Framed(stack), text # << >>, text # <<EOF>>, NEW s, Framed(s), NEW P,
         text[Len(text)] = EOF =>
           /\ Explains(text, Value(text), s, P)
           /\ \A e \in Place(text) : P[e] = {}
  PROVE  text[Len(text)] = EOF => Denotation = {}
<1> SUFFICES ASSUME text[Len(text)] = EOF PROVE Denotation = {}
  OBVIOUS
<1>1. IsText(text) /\ Denotation = Value(text)[<<"sum", 1, Len(text) - 1>>]
  BY TextEnds
<1>2. PICK t, v : t = text /\ v = Value(text)
  OBVIOUS
<1>3. v[<<"sum", 1, Len(t) - 1>>] = {}
  BY <1>1, <1>2, NothingReturned
<1> QED  BY <1>1, <1>2, <1>3

\* The call of parseExpr for the whole text.
LEMMA ExplainsFirst ==
  ASSUME NEW T, IsText(T), NEW v, v = Value(T)
  PROVE  Explains(T, v, <<ExprCall(0)>>, FromRule(T, v, "unary", 1))
<1>1. /\ Len(T) \in Nat /\ 1 \in 1..(Len(T) + 1) /\ Len(T) \in Place(T) /\ T[Len(T)] = EOF
      /\ 0 \in Minimum
  BY DEF IsText, Place, Minimum
<1>2. PICK P : P = Through(T, v, ExprCall(0), FromRule(T, v, "unary", 1))
  OBVIOUS
<1>3. P = Yields(T, v, 0, 1)
  BY <1>1, <1>2, ExprAhead
<1>4. ~Goes(T, 0, Len(T))
  BY <1>1 DEF Goes, Band, IsInfix, Implicit, Operator, EOF
<1>5. P[Len(T)] = v[<<"sum", 1, Len(T) - 1>>]
  BY <1>1, <1>3, <1>4 DEF Yields, RuleAt
<1>6. Explains(T, v, << >>, P)
  BY <1>5, ExplainsAll
<1>7. Framed(<< >>) /\ ExprCall(0) \in FrameOf({Nothing}) /\ <<ExprCall(0)>> = Append(<< >>, ExprCall(0))
  <2>1. << >> \in Seq(FrameOf({}))
    OBVIOUS
  <2>2. Framed(<< >>)
    BY <2>1 DEF Framed
  <2>3. ExprCall(0) \in FrameOf({Nothing})
    BY <1>1, NewCalls
  <2>4. <<ExprCall(0)>> = Append(<< >>, ExprCall(0))
    OBVIOUS
  <2> QED  BY <2>2, <2>3, <2>4
<1>8. Explains(T, v, Append(<< >>, ExprCall(0)), FromRule(T, v, "unary", 1))
  <2>1. PICK s, fr, Q : s = << >> /\ fr = ExprCall(0) /\ Q = FromRule(T, v, "unary", 1)
    OBVIOUS
  <2>2. Explains(T, v, Append(s, fr), Q)
    BY <1>2, <1>6, <1>7, <2>1, ExplainsPushed
  <2> QED  BY <2>1, <2>2
<1> QED  BY <1>7, <1>8

\* Each step of the parser.
LEMMA StartMeans == GInv /\ Start => GInv'
<1> SUFFICES ASSUME GInv, Start PROVE GInv'
  OBVIOUS
<1>1. /\ text = << >> /\ ~err /\ TextOK(text, err) /\ Lex
      /\ stack' = <<ExprCall(0)>> /\ at' = "first" /\ val' = Nothing
  BY DEF GInv, Start
<1>2. TextOK(text', err') /\ Len(text') = 1
  BY <1>1, LexDraws
<1>3. Framed(stack')
  <2>1. Framed(<< >>) /\ 0 \in Minimum
    <3>1. << >> \in Seq(FrameOf({}))
      OBVIOUS
    <3> QED  BY <3>1 DEF Framed, Minimum
  <2>2. ExprCall(0) \in FrameOf({Nothing})
    BY <2>1, NewCalls
  <2>3. Framed(Append(<< >>, ExprCall(0)))
    BY <2>1, <2>2, FramePushed
  <2> QED  BY <1>1, <2>3
<1>4. ASSUME NEW T, Reads(T, text') PROVE Explained(T, text', stack', at', val')
  <2>1. Explains(T, Value(T), <<ExprCall(0)>>, FromRule(T, Value(T), "unary", 1))
    BY <1>4, ExplainsFirst DEF Reads
  <2> QED  BY <1>1, <1>2, <2>1 DEF Explained
<1>5. ParserMatchesGrammar'
  BY <1>1 DEF ParserMatchesGrammar
<1> QED  BY <1>1, <1>2, <1>3, <1>4, <1>5 DEF GInv

LEMMA FirstMeans == GInv /\ First => GInv'
<1> SUFFICES ASSUME GInv, First PROVE GInv'
  OBVIOUS
<1>1. /\ at = "first" /\ Len(text) = 1 /\ stack = <<ExprCall(0)>> /\ val = Nothing
      /\ TextOK(text, err) /\ Framed(stack) /\ text' = text /\ err' = err /\ val' = val
      /\ \A T : Reads(T, text) => Explained(T, text, stack, at, val)
  BY DEF GInv, First
<1>2. Framed(<< >>)
  <2>1. << >> \in Seq(FrameOf({}))
    OBVIOUS
  <2> QED  BY <2>1 DEF Framed
<1>3. CASE text = <<EOF>>
  <2>1. at' = "accepted" /\ stack' = << >>
    BY <1>3 DEF First
  <2>2. Denotation' = {val'}
    BY <1>1, <1>3 DEF Denotation
  <2>3. ParserMatchesGrammar'
    BY <2>1, <2>2 DEF ParserMatchesGrammar
  <2>4. \A T : Explained(T, text', stack', at', val')
    BY <2>1 DEF Explained
  <2> QED  BY <1>1, <1>2, <2>1, <2>3, <2>4 DEF GInv
<1>4. CASE text # <<EOF>> /\ err
  <2>1. at' = "refused" /\ stack' = << >>
    BY <1>4 DEF First
  <2>2. text[Len(text)] = Bad
    <3>1. text # << >>
      BY <1>1
    <3> QED  BY <1>1, <1>4, <3>1 DEF TextOK
  <2>3. ParserMatchesGrammar'
    BY <1>1, <2>1, <2>2, KindsApart DEF ParserMatchesGrammar
  <2>4. \A T : Explained(T, text', stack', at', val')
    BY <2>1 DEF Explained
  <2> QED  BY <1>1, <1>2, <2>1, <2>3, <2>4 DEF GInv
<1>5. CASE text # <<EOF>> /\ ~err
  <2>1. at' = "unary" /\ stack' = stack
    BY <1>5 DEF First
  <2>2. ASSUME NEW T, Reads(T, text') PROVE Explained(T, text', stack', at', val')
    <3>1. Explained(T, text, stack, at, val)
      BY <1>1, <2>2
    <3> QED  BY <1>1, <2>1, <3>1 DEF Explained
  <2>3. text # << >>
    BY <1>1
  <2>4. ParserMatchesGrammar'
    BY <2>1 DEF ParserMatchesGrammar
  <2> QED  BY <1>1, <1>5, <2>1, <2>2, <2>3, <2>4 DEF GInv
<1> QED  BY <1>3, <1>4, <1>5

\* parseUnary looks at a word and draws the next.
LEMMA UnaryMeans ==
  ASSUME GInv, at = "unary", Tok.kind # "EOF", Lex
  PROVE  /\ TextOK(text', err') /\ text' # << >> /\ text' # <<EOF>> /\ Len(text') = Len(text) + 1
         /\ Framed(stack)
         /\ \A T : Reads(T, text') =>
              /\ IsText(T) /\ Len(T) \in Nat /\ Len(text) \in Place(T) /\ T[Len(text)] = Tok
              /\ Explains(T, Value(T), stack, FromRule(T, Value(T), "unary", Len(text)))
<1>1. /\ TextOK(text, err) /\ text # << >> /\ text # <<EOF>> /\ Framed(stack)
      /\ \A T : Reads(T, text) => Explained(T, text, stack, at, val)
  BY DEF GInv
<1>2. ~err /\ text[Len(text)] \in Token
  BY <1>1, WordAhead
<1>3. /\ TextOK(text', err') /\ text' # << >> /\ text' # <<EOF>> /\ Len(text') = Len(text) + 1
      /\ \A T : Reads(T, text') => Reads(T, text)
  BY <1>1, <1>2, LexDraws
<1>4. ASSUME NEW T, Reads(T, text')
      PROVE  /\ IsText(T) /\ Len(T) \in Nat /\ Len(text) \in Place(T) /\ T[Len(text)] = Tok
             /\ Explains(T, Value(T), stack, FromRule(T, Value(T), "unary", Len(text)))
  <2>1. Reads(T, text)
    BY <1>3, <1>4
  <2>2. Explained(T, text, stack, at, val)
    BY <1>1, <2>1
  <2>3. Explains(T, Value(T), stack, FromRule(T, Value(T), "unary", Len(text)))
    BY <2>2 DEF Explained
  <2> QED  BY <1>1, <2>1, <2>3, WordAhead
<1> QED  BY <1>1, <1>3, <1>4

LEMMA PlusSignMeans == GInv /\ PlusSign => GInv'
<1> SUFFICES ASSUME GInv, PlusSign PROVE GInv'
  OBVIOUS
<1>1. at = "unary" /\ Tok.kind = "+" /\ Lex /\ stack' = stack /\ at' = "unary" /\ val' = val
  BY DEF PlusSign
<1>2. /\ TextOK(text', err') /\ text' # << >> /\ text' # <<EOF>> /\ Len(text') = Len(text) + 1
      /\ Framed(stack)
      /\ \A T : Reads(T, text') =>
           /\ IsText(T) /\ Len(T) \in Nat /\ Len(text) \in Place(T) /\ T[Len(text)] = Tok
           /\ Explains(T, Value(T), stack, FromRule(T, Value(T), "unary", Len(text)))
  BY <1>1, UnaryMeans
<1>3. ASSUME NEW T, Reads(T, text') PROVE Explained(T, text', stack', at', val')
  <2>1. PICK p, v : p = Len(text) /\ v = Value(T)
    OBVIOUS
  <2>2. IsText(T) /\ p \in Place(T) /\ T[p].kind = "+" /\ Explains(T, v, stack, FromRule(T, v, "unary", p))
    BY <1>1, <1>2, <1>3, <2>1
  <2>3. FromRule(T, v, "unary", p) = FromRule(T, v, "unary", p + 1)
    BY <2>1, <2>2, PlusAhead
  <2> QED  BY <1>1, <1>2, <2>1, <2>2, <2>3 DEF Explained
<1>4. ParserMatchesGrammar'
  BY <1>1 DEF ParserMatchesGrammar
<1> QED  BY <1>1, <1>2, <1>3, <1>4 DEF GInv

LEMMA MinusSignMeans == GInv /\ MinusSign => GInv'
<1> SUFFICES ASSUME GInv, MinusSign PROVE GInv'
  OBVIOUS
<1>1. /\ at = "unary" /\ Tok.kind = "-" /\ Lex /\ stack' = Append(stack, NegCall) /\ at' = "unary"
      /\ val' = val
  BY DEF MinusSign
<1>2. /\ TextOK(text', err') /\ text' # << >> /\ text' # <<EOF>> /\ Len(text') = Len(text) + 1
      /\ Framed(stack)
      /\ \A T : Reads(T, text') =>
           /\ IsText(T) /\ Len(T) \in Nat /\ Len(text) \in Place(T) /\ T[Len(text)] = Tok
           /\ Explains(T, Value(T), stack, FromRule(T, Value(T), "unary", Len(text)))
  BY <1>1, UnaryMeans
<1>3. NegCall \in FrameOf({Nothing})
  <2>1. 0 \in Minimum
    BY DEF Minimum
  <2> QED  BY <2>1, NewCalls
<1>4. Framed(stack')
  BY <1>1, <1>2, <1>3, FramePushed
<1>5. ASSUME NEW T, Reads(T, text') PROVE Explained(T, text', stack', at', val')
  <2>1. PICK p, v, s : p = Len(text) /\ v = Value(T) /\ s = stack
    OBVIOUS
  <2>2. IsText(T) /\ p \in Place(T) /\ T[p].kind = "-" /\ Explains(T, v, s, FromRule(T, v, "unary", p))
    BY <1>1, <1>2, <1>5, <2>1
  <2>3. PICK P : P = FromRule(T, v, "unary", p + 1)
    OBVIOUS
  <2>4. Explains(T, v, s, Through(T, v, NegCall, P))
    BY <2>1, <2>2, <2>3, MinusAhead
  <2>5. Explains(T, v, Append(s, NegCall), P)
    BY <1>2, <1>3, <2>1, <2>4, ExplainsPushed
  <2> QED  BY <1>1, <1>2, <2>1, <2>3, <2>5 DEF Explained
<1>6. ParserMatchesGrammar'
  BY <1>1 DEF ParserMatchesGrammar
<1> QED  BY <1>1, <1>2, <1>4, <1>5, <1>6 DEF GInv

LEMMA ReadOperandMeans == GInv /\ ReadOperand => GInv'
<1> SUFFICES ASSUME GInv, ReadOperand PROVE GInv'
  OBVIOUS
<1>1. /\ at = "unary" /\ Tok \in Operand /\ Tok.kind # "EOF" /\ Lex /\ stack' = stack /\ at' = "return"
      /\ val' = Literal(Tok)
  BY TokenKinds DEF ReadOperand
<1>2. /\ TextOK(text', err') /\ text' # << >> /\ text' # <<EOF>> /\ Len(text') = Len(text) + 1
      /\ Framed(stack)
      /\ \A T : Reads(T, text') =>
           /\ IsText(T) /\ Len(T) \in Nat /\ Len(text) \in Place(T) /\ T[Len(text)] = Tok
           /\ Explains(T, Value(T), stack, FromRule(T, Value(T), "unary", Len(text)))
  BY <1>1, UnaryMeans
<1>3. ASSUME NEW T, Reads(T, text') PROVE Explained(T, text', stack', at', val')
  <2>1. PICK p, v, w : p = Len(text) /\ v = Value(T) /\ w = Tok
    OBVIOUS
  <2>2. /\ IsText(T) /\ p \in Place(T) /\ T[p] = w /\ w \in Operand
        /\ Explains(T, v, stack, FromRule(T, v, "unary", p))
    BY <1>1, <1>2, <1>3, <2>1
  <2>3. FromRule(T, v, "unary", p) = Only(T, Literal(T[p]), p + 1)
    BY <2>1, <2>2, OperandAhead
  <2> QED  BY <1>1, <1>2, <2>1, <2>2, <2>3 DEF Explained
<1>4. ParserMatchesGrammar'
  BY <1>1 DEF ParserMatchesGrammar
<1> QED  BY <1>1, <1>2, <1>3, <1>4 DEF GInv

LEMMA OpenParenMeans == GInv /\ OpenParen => GInv'
<1> SUFFICES ASSUME GInv, OpenParen PROVE GInv'
  OBVIOUS
<1>1. /\ at = "unary" /\ Tok.kind = "(" /\ Lex /\ stack' = stack \o <<ParenCall, ExprCall(0)>>
      /\ at' = "unary" /\ val' = val
  BY DEF OpenParen
<1>2. /\ TextOK(text', err') /\ text' # << >> /\ text' # <<EOF>> /\ Len(text') = Len(text) + 1
      /\ Framed(stack)
      /\ \A T : Reads(T, text') =>
           /\ IsText(T) /\ Len(T) \in Nat /\ Len(text) \in Place(T) /\ T[Len(text)] = Tok
           /\ Explains(T, Value(T), stack, FromRule(T, Value(T), "unary", Len(text)))
  BY <1>1, UnaryMeans
<1>3. ParenCall \in FrameOf({Nothing}) /\ ExprCall(0) \in FrameOf({Nothing})
  <2>1. 0 \in Minimum
    BY DEF Minimum
  <2> QED  BY <2>1, NewCalls
<1>4. PICK s, par, ex : s = stack /\ par = ParenCall /\ ex = ExprCall(0)
  OBVIOUS
<1>5. stack' = Append(Append(s, par), ex)
  <2>1. PICK S : s \in Seq(FrameOf(S))
    BY <1>2, <1>4 DEF Framed
  <2>2. PICK F : F = FrameOf(S) \cup {par, ex}
    OBVIOUS
  <2>3. s \in Seq(F) /\ par \in F /\ ex \in F
    <3>1. s \in Seq(FrameOf(S)) /\ FrameOf(S) \subseteq F
      BY <2>1, <2>2
    <3>2. s \in Seq(F)
      <4>1. PICK G : G = FrameOf(S)
        OBVIOUS
      <4> QED  BY <3>1, <4>1
    <3> QED  BY <2>2, <3>2
  <2>4. s \o <<par, ex>> = Append(Append(s, par), ex)
    BY <2>3
  <2> QED  BY <1>1, <1>4, <2>4
<1>6. Framed(Append(s, par)) /\ Framed(stack')
  <2>1. Framed(Append(s, par))
    BY <1>2, <1>3, <1>4, FramePushed
  <2>2. Framed(Append(Append(s, par), ex))
    BY <1>3, <1>4, <2>1, FramePushed
  <2> QED  BY <1>5, <2>1, <2>2
<1>7. ASSUME NEW T, Reads(T, text') PROVE Explained(T, text', stack', at', val')
  <2>1. PICK p, v : p = Len(text) /\ v = Value(T)
    OBVIOUS
  <2>2. IsText(T) /\ p \in Place(T) /\ T[p].kind = "(" /\ Explains(T, v, s, FromRule(T, v, "unary", p))
    BY <1>1, <1>2, <1>4, <1>7, <2>1
  <2>3. PICK P, Q : P = FromRule(T, v, "unary", p + 1) /\ Q = Through(T, v, ex, P)
    OBVIOUS
  <2>4. Explains(T, v, s, Through(T, v, par, Q))
    BY <1>4, <2>1, <2>2, <2>3, ParenAhead
  <2>5. Explains(T, v, Append(s, par), Q)
    BY <1>2, <1>3, <1>4, <2>4, ExplainsPushed
  <2>6. Explains(T, v, Append(Append(s, par), ex), P)
    BY <1>3, <1>4, <1>6, <2>3, <2>5, ExplainsPushed
  <2> QED  BY <1>1, <1>2, <1>5, <2>1, <2>3, <2>6 DEF Explained
<1>8. ParserMatchesGrammar'
  BY <1>1 DEF ParserMatchesGrammar
<1> QED  BY <1>1, <1>2, <1>6, <1>7, <1>8 DEF GInv

LEMMA NoOperandMeans == GInv /\ NoOperand => GInv'
<1> SUFFICES ASSUME GInv, NoOperand PROVE GInv'
  OBVIOUS
<1>1. /\ at = "unary" /\ Refuse /\ Framed(stack)
      /\ TextOK(text, err) /\ text # << >> /\ text # <<EOF>>
      /\ \A T : Reads(T, text) => Explained(T, text, stack, at, val)
  BY DEF GInv, NoOperand
<1>2. PICK s, t, v, P : s = stack /\ t = text /\ v = Value(text) /\ P = FromRule(t, v, "unary", Len(t))
  OBVIOUS
<1>3. ASSUME t[Len(t)] = EOF
      PROVE  Explains(t, v, s, P) /\ \A e \in Place(t) : P[e] = {}
  <2>1. Reads(t, t) /\ IsText(t) /\ Len(t) \in Nat
    BY <1>1, <1>2, <1>3, TextEnds
  <2>2. Explained(t, t, s, at, val)
    BY <1>1, <1>2, <2>1
  <2>3. Explains(t, v, s, P)
    BY <1>1, <1>2, <2>2 DEF Explained
  <2>4. Len(t) \in Place(t) /\ t[Len(t)].kind = "EOF"
    BY <1>3, <2>1, KindsApart DEF IsText, Place
  <2>5. \A e \in Place(t) : P[e] = {}
    BY <1>2, <2>1, <2>4, NothingAhead
  <2> QED  BY <2>3, <2>5
<1>4. text[Len(text)] = EOF => Denotation = {}
  BY <1>1, <1>2, <1>3, NothingMeans
<1> QED  BY <1>1, <1>4, RefuseMeans

\* A value is returned to the innermost call.
LEMMA ReturnMeans ==
  ASSUME GInv, at = "return", stack # << >>
  PROVE  /\ TextOK(text, err) /\ text # << >> /\ text # <<EOF>>
         /\ Framed(Pop) /\ stack = Append(Pop, Top) /\ \E S : Top \in FrameOf(S)
         /\ \A T : Reads(T, text) =>
              /\ IsText(T) /\ Len(T) \in Nat /\ Len(text) \in Place(T) /\ T[Len(text)] = Tok /\ ~err
              /\ Explains(T, Value(T), Pop, Through(T, Value(T), Top, Only(T, val, Len(text))))
<1>1. /\ TextOK(text, err) /\ text # << >> /\ text # <<EOF>> /\ Framed(stack)
      /\ \A T : Reads(T, text) => Explained(T, text, stack, at, val)
  BY DEF GInv
<1>2. PICK s, c, fr : s = stack /\ c = Pop /\ fr = Top
  OBVIOUS
<1>3. Framed(c) /\ s = Append(c, fr) /\ \E S : fr \in FrameOf(S)
  <2>1. Framed(s) /\ s # << >> /\ c = SubSeq(s, 1, Len(s) - 1) /\ fr = s[Len(s)]
    BY <1>1, <1>2 DEF Pop, Top
  <2> QED  BY <2>1, FramePopped
<1>4. PICK S : fr \in FrameOf(S)
  BY <1>3
<1>5. ASSUME NEW T, Reads(T, text)
      PROVE  Explains(T, Value(T), c, Through(T, Value(T), fr, Only(T, val, Len(text))))
  <2>1. PICK v, P : v = Value(T) /\ P = Only(T, val, Len(text))
    OBVIOUS
  <2>2. Explained(T, text, s, at, val)
    BY <1>1, <1>2, <1>5
  <2>3. Explains(T, v, s, P)
    BY <2>1, <2>2 DEF Explained
  <2>4. Explains(T, v, c, Through(T, v, fr, P))
    BY <1>3, <1>4, <2>3, ExplainsPushed
  <2> QED  BY <2>1, <2>4
<1>6. \A T : Reads(T, text) =>
        IsText(T) /\ Len(T) \in Nat /\ Len(text) \in Place(T) /\ T[Len(text)] = Tok /\ ~err
  BY <1>1, WordAhead
<1> QED  BY <1>1, <1>2, <1>3, <1>5, <1>6

LEMMA NegReturnMeans == GInv /\ NegReturn => GInv'
<1> SUFFICES ASSUME GInv, NegReturn PROVE GInv'
  OBVIOUS
<1>1. /\ at = "return" /\ stack # << >> /\ Top.call = "neg" /\ val' = ScaledNeg(val) /\ stack' = Pop
      /\ text' = text /\ err' = err /\ at' = at
  BY DEF NegReturn
<1>2. /\ TextOK(text, err) /\ text # << >> /\ text # <<EOF>> /\ Framed(Pop)
      /\ \A T : Reads(T, text) =>
           /\ IsText(T) /\ Len(T) \in Nat /\ Len(text) \in Place(T) /\ T[Len(text)] = Tok /\ ~err
           /\ Explains(T, Value(T), Pop, Through(T, Value(T), Top, Only(T, val, Len(text))))
  BY <1>1, ReturnMeans
<1>3. ASSUME NEW T, Reads(T, text') PROVE Explained(T, text', stack', at', val')
  <2>1. PICK p, v, fr, x : p = Len(text) /\ v = Value(T) /\ fr = Top /\ x = val
    OBVIOUS
  <2>2. Explains(T, v, Pop, Through(T, v, fr, Only(T, x, p)))
    BY <1>1, <1>2, <1>3, <2>1
  <2>3. Through(T, v, fr, Only(T, x, p)) = Only(T, ScaledNeg(x), p)
    BY <1>1, <2>1, NegReturned
  <2> QED  BY <1>1, <2>1, <2>2, <2>3 DEF Explained
<1>4. ParserMatchesGrammar'
  BY <1>1 DEF ParserMatchesGrammar
<1> QED  BY <1>1, <1>2, <1>3, <1>4 DEF GInv

LEMMA ParenReturnMeans == GInv /\ ParenReturn => GInv'
<1> SUFFICES ASSUME GInv, ParenReturn PROVE GInv'
  OBVIOUS
<1>1. at = "return" /\ stack # << >> /\ Top.call = "paren"
  BY DEF ParenReturn
<1>2. /\ TextOK(text, err) /\ text # << >> /\ text # <<EOF>> /\ Framed(Pop) /\ Framed(stack)
      /\ \A T : Reads(T, text) =>
           /\ IsText(T) /\ Len(T) \in Nat /\ Len(text) \in Place(T) /\ T[Len(text)] = Tok /\ ~err
           /\ Explains(T, Value(T), Pop, Through(T, Value(T), Top, Only(T, val, Len(text))))
  BY <1>1, ReturnMeans DEF GInv
<1>3. CASE Tok.kind = ")"
  <2>1. Lex /\ stack' = Pop /\ at' = "return" /\ val' = val
    BY <1>1, <1>3 DEF ParenReturn
  <2>2. ~err /\ text[Len(text)] \in Token
    BY <1>2, <1>3, WordAhead
  <2>3. /\ TextOK(text', err') /\ text' # << >> /\ text' # <<EOF>> /\ Len(text') = Len(text) + 1
        /\ \A T : Reads(T, text') => Reads(T, text)
    BY <1>2, <2>1, <2>2, LexDraws
  <2>4. ASSUME NEW T, Reads(T, text') PROVE Explained(T, text', stack', at', val')
    <3>1. PICK p, v, fr, x : p = Len(text) /\ v = Value(T) /\ fr = Top /\ x = val
      OBVIOUS
    <3>2. /\ Explains(T, v, Pop, Through(T, v, fr, Only(T, x, p)))
          /\ Len(T) \in Nat /\ p \in Place(T) /\ T[p].kind = ")"
      BY <1>2, <1>3, <2>3, <2>4, <3>1
    <3>3. fr.call = "paren"
      BY <1>1, <3>1
    <3>4. Through(T, v, fr, Only(T, x, p)) = Only(T, x, p + 1)
      BY <3>2, <3>3, ParenReturned
    <3> QED  BY <2>1, <2>3, <3>1, <3>2, <3>4 DEF Explained
  <2>5. ParserMatchesGrammar'
    BY <2>1 DEF ParserMatchesGrammar
  <2> QED  BY <1>2, <2>1, <2>3, <2>4, <2>5 DEF GInv
<1>4. CASE Tok.kind # ")"
  <2>1. Refuse
    BY <1>1, <1>4 DEF ParenReturn
  <2>2. PICK t, s, v, fr, P : /\ t = text /\ s = Pop /\ v = Value(text) /\ fr = Top
                              /\ P = Through(t, v, fr, Only(t, val, Len(t)))
    OBVIOUS
  <2>3. ASSUME t[Len(t)] = EOF
        PROVE  Explains(t, v, s, P) /\ \A e \in Place(t) : P[e] = {}
    <3>1. Reads(t, t)
      BY <1>2, <2>2, <2>3, TextEnds
    <3>2. /\ Explains(t, v, s, P)
          /\ Len(t) \in Nat /\ Len(t) \in Place(t) /\ t[Len(t)].kind # ")"
      BY <1>2, <1>4, <2>2, <3>1
    <3>3. \A e \in Place(t) : P[e] = {}
      BY <1>1, <2>2, <3>2, ParenReturned
    <3> QED  BY <3>2, <3>3
  <2>4. text[Len(text)] = EOF => Denotation = {}
    BY <1>2, <2>2, <2>3, NothingMeans
  <2> QED  BY <1>2, <2>1, <2>4, RefuseMeans
<1> QED  BY <1>3, <1>4

\* A frame put back in place of the innermost one.
LEMMA FrameBack ==
  ASSUME NEW c, Framed(c), NEW fr, NEW S, fr \in FrameOf(S)
  PROVE  LET s == Append(c, fr)
         IN  Framed(s) /\ s # << >> /\ s[Len(s)] = fr /\ SubSeq(s, 1, Len(s) - 1) = c
<1>1. PICK R : c \in Seq(FrameOf(R))
  BY DEF Framed
<1>2. PICK F, G : F = FrameOf(R) /\ G = F \cup {fr}
  OBVIOUS
<1>3. c \in Seq(F) /\ \A x \in F : x \in G
  BY <1>1, <1>2
<1>4. c \in Seq(G) /\ fr \in G
  BY <1>2, <1>3
<1>5. /\ Append(c, fr) # << >> /\ Append(c, fr)[Len(Append(c, fr))] = fr
      /\ SubSeq(Append(c, fr), 1, Len(Append(c, fr)) - 1) = c
  BY <1>4
<1> QED  BY <1>5, FramePushed

LEMMA FirstOperandMeans == GInv /\ FirstOperand => GInv'
<1> SUFFICES ASSUME GInv, FirstOperand PROVE GInv'
  OBVIOUS
<1>1. /\ at = "return" /\ stack # << >> /\ Top.call = "expr" /\ Top.op = "none"
      /\ stack' = Append(Pop, [Top EXCEPT !.left = val])
      /\ at' = "infix" /\ text' = text /\ err' = err /\ val' = val
  BY DEF FirstOperand
<1>2. /\ TextOK(text, err) /\ text # << >> /\ text # <<EOF>> /\ Framed(Pop) /\ \E S : Top \in FrameOf(S)
      /\ \A T : Reads(T, text) =>
           /\ IsText(T) /\ Len(T) \in Nat /\ Len(text) \in Place(T) /\ T[Len(text)] = Tok /\ ~err
           /\ Explains(T, Value(T), Pop, Through(T, Value(T), Top, Only(T, val, Len(text))))
  BY <1>1, ReturnMeans
<1>3. PICK S, fr, x, c, g : /\ Top \in FrameOf(S) /\ fr = Top /\ x = val /\ c = Pop
                            /\ g = [fr EXCEPT !.left = x]
  BY <1>2
<1>4. /\ g \in FrameOf({x}) /\ g.call = "expr" /\ g.op = "none" /\ g.left = x /\ g.min = fr.min
  BY <1>1, <1>3 DEF FrameOf
<1>5. stack' = Append(c, g)
  BY <1>1, <1>3
<1>6. /\ Framed(stack') /\ stack' # << >> /\ stack'[Len(stack')] = g
      /\ SubSeq(stack', 1, Len(stack') - 1) = c
  <2>1. Framed(c)
    BY <1>2, <1>3
  <2>2. PICK s : s = Append(c, g)
    OBVIOUS
  <2>3. Framed(s) /\ s # << >> /\ s[Len(s)] = g /\ SubSeq(s, 1, Len(s) - 1) = c
    BY <1>4, <2>1, <2>2, FrameBack
  <2> QED  BY <1>5, <2>2, <2>3
<1>7. ASSUME NEW T, Reads(T, text') PROVE Explained(T, text', stack', at', val')
  <2>1. PICK p, v : p = Len(text) /\ v = Value(T)
    OBVIOUS
  <2>2. Explains(T, v, c, Through(T, v, fr, Only(T, x, p))) /\ Len(T) \in Nat
    BY <1>1, <1>2, <1>3, <1>7, <2>1
  <2>3. Through(T, v, fr, Only(T, x, p)) = Exits(T, v, fr.min, Only(T, x, p))
    BY <1>1, <1>3, <2>2, ExprReturned
  <2>4. Explains(T, v, c, Exits(T, v, g.min, Only(T, g.left, p)))
    BY <1>4, <2>2, <2>3
  <2> QED  BY <1>1, <1>6, <2>1, <2>4 DEF Explained
<1>8. ParserMatchesGrammar'
  BY <1>1 DEF ParserMatchesGrammar
<1>9. Top' = g
  BY <1>6 DEF Top
<1> QED  BY <1>1, <1>2, <1>4, <1>6, <1>7, <1>8, <1>9 DEF GInv

LEMMA RightOperandMeans == GInv /\ RightOperand => GInv'
<1> SUFFICES ASSUME GInv, RightOperand PROVE GInv'
  OBVIOUS
<1>1. at = "return" /\ stack # << >> /\ Top.call = "expr" /\ Top.op # "none"
  BY DEF RightOperand
<1>2. /\ TextOK(text, err) /\ text # << >> /\ text # <<EOF>> /\ Framed(Pop) /\ \E S : Top \in FrameOf(S)
      /\ Framed(stack)
      /\ \A T : Reads(T, text) =>
           /\ IsText(T) /\ Len(T) \in Nat /\ Len(text) \in Place(T) /\ T[Len(text)] = Tok /\ ~err
           /\ Explains(T, Value(T), Pop, Through(T, Value(T), Top, Only(T, val, Len(text))))
  BY <1>1, ReturnMeans DEF GInv
<1>3. PICK S, fr, x, c : Top \in FrameOf(S) /\ fr = Top /\ x = val /\ c = Pop
  BY <1>2
<1>4. CASE Accepts(fr.op, fr.left, x) /\ ~err
  <2>1. PICK y, g : y = Apply(fr.op, fr.left, x) /\ g = [fr EXCEPT !.left = y, !.op = "none"]
    OBVIOUS
  <2>2. /\ stack' = Append(c, g) /\ at' = "infix" /\ text' = text /\ err' = err /\ val' = val
    BY <1>1, <1>3, <1>4, <2>1 DEF RightOperand
  <2>3. /\ g \in FrameOf({y}) /\ g.call = "expr" /\ g.op = "none" /\ g.left = y /\ g.min = fr.min
    BY <1>1, <1>3, <2>1 DEF FrameOf
  <2>4. /\ Framed(stack') /\ stack' # << >> /\ stack'[Len(stack')] = g
        /\ SubSeq(stack', 1, Len(stack') - 1) = c
    <3>1. Framed(c)
      BY <1>2, <1>3
    <3>2. PICK s : s = Append(c, g)
      OBVIOUS
    <3>3. Framed(s) /\ s # << >> /\ s[Len(s)] = g /\ SubSeq(s, 1, Len(s) - 1) = c
      BY <2>3, <3>1, <3>2, FrameBack
    <3> QED  BY <2>2, <3>2, <3>3
  <2>5. ASSUME NEW T, Reads(T, text') PROVE Explained(T, text', stack', at', val')
    <3>1. PICK p, v : p = Len(text) /\ v = Value(T)
      OBVIOUS
    <3>2. Explains(T, v, c, Through(T, v, fr, Only(T, x, p))) /\ Len(T) \in Nat
      BY <1>2, <1>3, <2>2, <2>5, <3>1
    <3>3. fr.call = "expr" /\ fr.op # "none" /\ Accepts(fr.op, fr.left, x)
      BY <1>1, <1>3, <1>4
    <3>4. Through(T, v, fr, Only(T, x, p)) = Exits(T, v, fr.min, Only(T, Apply(fr.op, fr.left, x), p))
      BY <3>2, <3>3, ExprReturned
    <3>5. Explains(T, v, c, Exits(T, v, g.min, Only(T, g.left, p)))
      BY <2>1, <2>3, <3>2, <3>4
    <3> QED  BY <2>2, <2>4, <3>1, <3>5 DEF Explained
  <2>6. ParserMatchesGrammar'
    BY <2>2 DEF ParserMatchesGrammar
  <2>7. Top' = g
    BY <2>4 DEF Top
  <2> QED  BY <1>2, <2>2, <2>3, <2>4, <2>5, <2>6, <2>7 DEF GInv
<1>5. CASE ~(Accepts(fr.op, fr.left, x) /\ ~err)
  <2>1. Refuse
    BY <1>1, <1>3, <1>5 DEF RightOperand
  <2>2. PICK t, v, P : t = text /\ v = Value(text) /\ P = Through(t, v, fr, Only(t, x, Len(t)))
    OBVIOUS
  <2>3. ASSUME t[Len(t)] = EOF
        PROVE  Explains(t, v, c, P) /\ \A e \in Place(t) : P[e] = {}
    <3>1. Reads(t, t)
      BY <1>2, <2>2, <2>3, TextEnds
    <3>2. Explains(t, v, c, P) /\ Len(t) \in Nat /\ ~err
      BY <1>2, <1>3, <2>2, <3>1
    <3>3. \A e \in Place(t) : P[e] = {}
      BY <1>1, <1>3, <1>5, <2>2, <3>2, ExprReturned
    <3> QED  BY <3>2, <3>3
  <2>4. text[Len(text)] = EOF => Denotation = {}
    BY <1>2, <1>3, <2>2, <2>3, NothingMeans
  <2> QED  BY <1>2, <2>1, <2>4, RefuseMeans
<1> QED  BY <1>4, <1>5

\* The loop of parseExpr, at a word.
LEMMA InfixAhead ==
  ASSUME GInv, at = "infix"
  PROVE  /\ TextOK(text, err) /\ text # << >> /\ text # <<EOF>>
         /\ Framed(Pop) /\ (\E S : Top \in FrameOf(S)) /\ Top.call = "expr" /\ Top.op = "none"
         /\ \A T : Reads(T, text) =>
              /\ IsText(T) /\ Len(T) \in Nat /\ Len(text) \in Place(T) /\ T[Len(text)] = Tok
              /\ Continues <=> Goes(T, Top.min, Len(text))
              /\ Explains(T, Value(T), Pop, Exits(T, Value(T), Top.min, Only(T, Top.left, Len(text))))
<1>1. /\ TextOK(text, err) /\ text # << >> /\ text # <<EOF>> /\ Framed(stack) /\ stack # << >>
      /\ Top.call = "expr" /\ Top.op = "none"
      /\ \A T : Reads(T, text) => Explained(T, text, stack, at, val)
  BY DEF GInv
<1>2. PICK s, c, fr : s = stack /\ c = Pop /\ fr = Top
  OBVIOUS
<1>3. Framed(c) /\ \E S : fr \in FrameOf(S)
  <2>1. Framed(s) /\ s # << >> /\ c = SubSeq(s, 1, Len(s) - 1) /\ fr = s[Len(s)]
    BY <1>1, <1>2 DEF Pop, Top
  <2> QED  BY <2>1, FramePopped
<1>4. fr.min \in Minimum
  BY <1>3 DEF FrameOf
<1>5. ASSUME NEW T, Reads(T, text)
      PROVE  /\ IsText(T) /\ Len(T) \in Nat /\ Len(text) \in Place(T) /\ T[Len(text)] = Tok
             /\ Continues <=> Goes(T, Top.min, Len(text))
             /\ Explains(T, Value(T), Pop, Exits(T, Value(T), Top.min, Only(T, Top.left, Len(text))))
  <2>1. IsText(T) /\ Len(T) \in Nat /\ Len(text) \in Place(T) /\ T[Len(text)] = Tok
    BY <1>1, <1>5, WordAhead
  <2>2. PICK m, b : m = Top.min /\ b = BP(InfixOp(Tok))
    OBVIOUS
  <2>3. Goes(T, m, Len(text)) <=> (IF IsInfix(Tok) THEN b ELSE -1) >= m
    BY <2>1, <2>2 DEF Goes, Band
  <2>4. ~(-1 >= m)
    BY <1>2, <1>4, <2>2 DEF Minimum
  <2>5. Continues <=> Goes(T, m, Len(text))
    BY <2>2, <2>3, <2>4 DEF Continues
  <2>6. Explained(T, text, stack, at, val)
    BY <1>1, <1>5
  <2> QED  BY <2>1, <2>2, <2>5, <2>6 DEF Explained, Pop, Top
<1> QED  BY <1>1, <1>2, <1>3, <1>5

LEMMA LeaveMeans == GInv /\ Leave => GInv'
<1> SUFFICES ASSUME GInv, Leave PROVE GInv'
  OBVIOUS
<1>1. /\ at = "infix" /\ ~Continues /\ val' = Top.left /\ stack' = Pop /\ at' = "return"
      /\ text' = text /\ err' = err
  BY DEF Leave
<1>2. /\ TextOK(text, err) /\ text # << >> /\ text # <<EOF>> /\ Framed(Pop)
      /\ \A T : Reads(T, text) =>
           /\ IsText(T) /\ Len(T) \in Nat /\ Len(text) \in Place(T)
           /\ Continues <=> Goes(T, Top.min, Len(text))
           /\ Explains(T, Value(T), Pop, Exits(T, Value(T), Top.min, Only(T, Top.left, Len(text))))
  BY <1>1, InfixAhead
<1>3. ASSUME NEW T, Reads(T, text') PROVE Explained(T, text', stack', at', val')
  <2>1. PICK p, v, m, x : p = Len(text) /\ v = Value(T) /\ m = Top.min /\ x = Top.left
    OBVIOUS
  <2>2. /\ Explains(T, v, Pop, Exits(T, v, m, Only(T, x, p)))
        /\ Len(T) \in Nat /\ p \in Place(T) /\ ~Goes(T, m, p)
    BY <1>1, <1>2, <1>3, <2>1
  <2>3. Exits(T, v, m, Only(T, x, p)) = Only(T, x, p)
    BY <2>2, ExitsAtOnce
  <2> QED  BY <1>1, <2>1, <2>2, <2>3 DEF Explained
<1>4. ParserMatchesGrammar'
  BY <1>1 DEF ParserMatchesGrammar
<1> QED  BY <1>1, <1>2, <1>3, <1>4 DEF GInv

LEMMA InfixMeans == GInv /\ Infix => GInv'
<1> SUFFICES ASSUME GInv, Infix PROVE GInv'
  OBVIOUS
<1>1. /\ at = "infix" /\ Continues /\ at' = "unary" /\ val' = val
      /\ IF Implicit(Tok) THEN UNCHANGED <<text, err>> ELSE Lex
      /\ stack' = Append(Pop, [Top EXCEPT !.op = InfixOp(Tok)]) \o <<ExprCall(RightBP(InfixOp(Tok)))>>
  BY DEF Infix
<1>2. /\ TextOK(text, err) /\ text # << >> /\ text # <<EOF>>
      /\ Framed(Pop) /\ (\E S : Top \in FrameOf(S)) /\ Top.call = "expr"
      /\ \A T : Reads(T, text) =>
           /\ IsText(T) /\ Len(T) \in Nat /\ Len(text) \in Place(T) /\ T[Len(text)] = Tok
           /\ Continues <=> Goes(T, Top.min, Len(text))
           /\ Explains(T, Value(T), Pop, Exits(T, Value(T), Top.min, Only(T, Top.left, Len(text))))
  BY <1>1, InfixAhead
<1>3. PICK S, fr, c, w, o : Top \in FrameOf(S) /\ fr = Top /\ c = Pop /\ w = Tok /\ o = InfixOp(w)
  BY <1>2
<1>4. o \in {"+", "-", "*", "/", "**"} /\ w.kind # "EOF"
  BY <1>1, <1>3, KindsApart DEF Continues, IsInfix, InfixOp, Operator, Implicit
<1>5. PICK g, m, ex : g = [fr EXCEPT !.op = o] /\ m = RightBP(o) /\ ex = ExprCall(m)
  OBVIOUS
<1>6. m \in Minimum
  BY <1>4, <1>5 DEF RightBP, BP, Minimum
<1>7. /\ g \in FrameOf(S) /\ g.call = "expr" /\ g.op = o /\ g.left = fr.left /\ g.min = fr.min
      /\ ex \in FrameOf({Nothing}) /\ fr.min \in Minimum
  BY <1>2, <1>3, <1>4, <1>5, <1>6, NewCalls DEF FrameOf
<1>8. Framed(c) /\ Framed(Append(c, g)) /\ Framed(Append(Append(c, g), ex))
  <2>1. Framed(c)
    BY <1>2, <1>3
  <2>2. Framed(Append(c, g))
    BY <1>7, <2>1, FramePushed
  <2>3. Framed(Append(Append(c, g), ex))
    BY <1>7, <2>2, FramePushed
  <2> QED  BY <2>1, <2>2, <2>3
<1>9. stack' = Append(Append(c, g), ex)
  <2>1. PICK d : d = Append(c, g)
    OBVIOUS
  <2>2. PICK R : d \in Seq(FrameOf(R))
    BY <1>8, <2>1 DEF Framed
  <2>3. PICK F, G : F = FrameOf(R) /\ G = F \cup {ex}
    OBVIOUS
  <2>4. d \in Seq(F) /\ \A y \in F : y \in G
    BY <2>2, <2>3
  <2>5. d \in Seq(G) /\ ex \in G
    BY <2>3, <2>4
  <2>6. d \o <<ex>> = Append(d, ex)
    BY <2>5
  <2> QED  BY <1>1, <1>3, <1>5, <2>1, <2>6
<1>10. /\ TextOK(text', err') /\ text' # << >> /\ text' # <<EOF>>
       /\ Len(text') = IF Implicit(w) THEN Len(text) ELSE Len(text) + 1
       /\ \A T : Reads(T, text') => Reads(T, text)
  <2>1. CASE Implicit(w)
    <3>1. text' = text /\ err' = err
      BY <1>1, <1>3, <2>1
    <3> QED  BY <1>2, <2>1, <3>1
  <2>2. CASE ~Implicit(w)
    <3>1. Lex
      BY <1>1, <1>3, <2>2
    <3>2. ~err /\ text[Len(text)] \in Token
      BY <1>2, <1>3, <1>4, WordAhead
    <3> QED  BY <1>2, <2>2, <3>1, <3>2, LexDraws
  <2> QED  BY <2>1, <2>2
<1>11. ASSUME NEW T, Reads(T, text') PROVE Explained(T, text', stack', at', val')
  <2>1. PICK p, v, x : p = Len(text) /\ v = Value(T) /\ x = fr.left
    OBVIOUS
  <2>2. /\ IsText(T) /\ Len(T) \in Nat /\ p \in Place(T) /\ T[p] = w
        /\ Goes(T, fr.min, p)
        /\ Explains(T, v, c, Exits(T, v, fr.min, Only(T, x, p)))
    BY <1>1, <1>2, <1>3, <1>10, <1>11, <2>1
  <2>3. Right(T, p) = m /\ After(T, p) = Len(text')
    BY <1>3, <1>5, <1>10, <2>1, <2>2 DEF Right, After
  <2>4. PICK P, Q : P = FromRule(T, v, "unary", After(T, p)) /\ Q = Through(T, v, ex, P)
    OBVIOUS
  <2>5. Exits(T, v, g.min, Only(T, g.left, p)) =
          Through(T, v, g, Through(T, v, ExprCall(Right(T, p)), FromRule(T, v, "unary", After(T, p))))
    <3>1. g.op = InfixOp(T[p]) /\ g.min \in Minimum /\ Goes(T, g.min, p) /\ g.call = "expr"
      BY <1>3, <1>7, <2>2
    <3> QED  BY <2>1, <2>2, <3>1, OperatorAhead
  <2>6. Explains(T, v, c, Through(T, v, g, Q))
    BY <1>5, <1>7, <2>1, <2>2, <2>3, <2>4, <2>5
  <2>7. Explains(T, v, Append(c, g), Q)
    BY <1>7, <1>8, <2>6, ExplainsPushed
  <2>8. Explains(T, v, Append(Append(c, g), ex), P)
    BY <1>7, <1>8, <2>4, <2>7, ExplainsPushed
  <2> QED  BY <1>1, <1>9, <2>1, <2>3, <2>4, <2>8 DEF Explained
<1>12. ParserMatchesGrammar'
  BY <1>1 DEF ParserMatchesGrammar
<1> QED  BY <1>1, <1>8, <1>9, <1>10, <1>11, <1>12 DEF GInv

LEMMA FinishMeans == GInv /\ Finish => GInv'
<1> SUFFICES ASSUME GInv, Finish PROVE GInv'
  OBVIOUS
<1>1. /\ at = "return" /\ stack = << >> /\ at' = (IF Tok = EOF /\ ~err THEN "accepted" ELSE "refused")
      /\ text' = text /\ err' = err /\ stack' = stack /\ val' = val
      /\ TextOK(text, err) /\ text # << >> /\ text # <<EOF>> /\ Framed(stack)
      /\ \A T : Reads(T, text) => Explained(T, text, stack, at, val)
  BY DEF GInv, Finish
<1>2. PICK t, v, x : t = text /\ v = Value(text) /\ x = val
  OBVIOUS
<1>3. t[Len(t)] = EOF => Denotation = {x} /\ Tok = EOF /\ ~err
  <2> SUFFICES ASSUME t[Len(t)] = EOF PROVE Denotation = {x} /\ Tok = EOF /\ ~err
    OBVIOUS
  <2>1. /\ Reads(t, t) /\ IsText(t) /\ ~err /\ Tok = EOF /\ Len(t) \in Nat
        /\ Denotation = v[<<"sum", 1, Len(t) - 1>>]
    BY <1>1, <1>2, TextEnds
  <2>2. Explained(t, t, << >>, "return", x)
    BY <1>1, <1>2, <2>1
  <2>3. Explains(t, v, << >>, Only(t, x, Len(t)))
    BY <1>2, <2>2 DEF Explained
  <2>4. Only(t, x, Len(t))[Len(t)] = v[<<"sum", 1, Len(t) - 1>>]
    BY <2>3, ExplainsAll
  <2>5. Len(t) \in Place(t)
    BY <2>1 DEF IsText, Place
  <2>6. Only(t, x, Len(t))[Len(t)] = {x}
    BY <2>5 DEF Only
  <2> QED  BY <2>1, <2>4, <2>6
<1>4. Tok = EOF /\ ~err => t[Len(t)] = EOF
  BY <1>1, <1>2 DEF Tok
<1>5. Denotation' = Denotation
  BY <1>1 DEF Denotation
<1>6. ParserMatchesGrammar'
  BY <1>1, <1>2, <1>3, <1>4, <1>5 DEF ParserMatchesGrammar
<1>7. \A T : Explained(T, text', stack', at', val')
  BY <1>1 DEF Explained
<1> QED  BY <1>1, <1>6, <1>7 DEF GInv

-----------------------------------------------------------------------------
(* The parser computes the grammar *)

LEMMA ParserMeans == GInv /\ ParserNext => GInv'
BY StartMeans, FirstMeans, PlusSignMeans, MinusSignMeans, ReadOperandMeans, OpenParenMeans,
   NoOperandMeans, NegReturnMeans, ParenReturnMeans, FirstOperandMeans, RightOperandMeans,
   InfixMeans, LeaveMeans, FinishMeans
DEF ParserNext

LEMMA ReadMeans ==
  ASSUME GInv, NEW quantities, Read(quantities)
  PROVE  GInv'
<1>1. text' = << >> /\ at' = "read" /\ err' = err /\ stack' = stack /\ val' = Nothing
  BY DEF Read
<1>2. TextOK(text', err') /\ Framed(stack')
  BY <1>1 DEF GInv, TextOK
<1>3. (\A T : Explained(T, text', stack', at', val')) /\ ParserMatchesGrammar'
  BY <1>1 DEF Explained, ParserMatchesGrammar
<1> QED  BY <1>1, <1>2, <1>3 DEF GInv

LEMMA QuietMeans ==
  ASSUME GInv, UNCHANGED parserVars
  PROVE  GInv'
<1>1. text' = text /\ err' = err /\ stack' = stack /\ at' = at /\ val' = val
  BY DEF parserVars
<1>2. Top' = Top /\ ParserMatchesGrammar'
  BY <1>1 DEF GInv, Top, ParserMatchesGrammar, Denotation
<1> QED  BY <1>1, <1>2 DEF GInv

LEMMA StepMeans == GInv /\ [Next]_vars => GInv'
<1> SUFFICES ASSUME GInv, [Next]_vars PROVE GInv'
  OBVIOUS
<1>1. CASE Parsing
  BY <1>1, ParserMeans DEF Parsing
<1>2. CASE Calculating
  <2>1. ReadQuantity \/ ReadUnits => GInv'
    BY ReadMeans DEF ReadQuantity, ReadUnits
  <2>2. To \/ ConvertCompiled \/ Root \/ Compact \/ AddOrSub \/ MulOrDiv => Ready
    BY DEF To, ConvertCompiled, Root, Compact, AddOrSub, MulOrDiv, Operation
  <2>3. Raise \/ Negate \/ Multiple \/ Equal \/ Analyse => Ready
    BY DEF Raise, Negate, Multiple, Equal, Analyse, Operation
  <2>4. Ready => GInv'
    BY QuietMeans DEF Ready
  <2> QED  BY <1>2, <2>1, <2>2, <2>3, <2>4 DEF Calculating
<1>3. CASE UNCHANGED vars
  BY <1>3, QuietMeans DEF vars
<1> QED  BY <1>1, <1>2, <1>3 DEF Next

\* The parser computes the grammar, for texts of any length, any names and any numbers: an
\* accepted text has one value, the one that precedence and association give it, and it
\* is what the parser returns; a text that is refused when it has been read to its end has
\* none: no operator, sign, parenthesis or juxtaposition is read amiss.
THEOREM ParserComputesGrammar == Spec => []ParserMatchesGrammar
<1>1. Init => GInv
  <2> SUFFICES ASSUME Init PROVE GInv
    OBVIOUS
  <2>1. text = << >> /\ err = FALSE /\ stack = << >> /\ at = "start" /\ val = Nothing
    BY DEF Init, ParserInit
  <2>2. TextOK(<< >>, FALSE)
    BY DEF TextOK
  <2>3. Framed(<< >>)
    <3>1. << >> \in Seq(FrameOf({}))
      OBVIOUS
    <3> QED  BY <3>1 DEF Framed
  <2>4. (\A T : Explained(T, text, stack, at, val)) /\ ParserMatchesGrammar
    BY <2>1 DEF Explained, ParserMatchesGrammar
  <2> QED  BY <2>1, <2>2, <2>3, <2>4 DEF GInv
<1>2. GInv => ParserMatchesGrammar
  BY DEF GInv
<1> QED  BY <1>1, <1>2, StepMeans, PTL DEF Spec

=============================================================================
