-------------------------- MODULE DefinitionFiles --------------------------
(***************************************************************************)
(* parseDefinitionFile (defparser.go): a text of lines becomes definitions *)
(* and blocks.  A line is [is |-> what it looks like, ...], without its    *)
(* comment; a blank one is no line.  What it means depends on the block    *)
(* it stands in.                                                           *)
(*                                                                         *)
(*   "unit"       name = value; offset   name, value, offset               *)
(*   "prefix"     name- = number         name, scale                       *)
(*   "dimension"  [name]                 name                              *)
(*   "derived"    [name] = value         name, value                       *)
(*   "alias"      @alias name = aliases  name, aliases                     *)
(*   "import"     @import file           file                              *)
(*   "relation"   src -> dst: equation   src, dst, bidirect                *)
(*   "rule"       name: old              name                              *)
(*   "word"       name                   name                              *)
(*   "group"      @group name using      name, using                       *)
(*   "system"     @system name using     name, using                       *)
(*   "context"    @context names         names                             *)
(*   "defaults"   @defaults                                                *)
(*   "end"        @end                                                     *)
(***************************************************************************)
EXTENDS Integers, SequencesExt

IsHeader(l) == l.is \in {"group", "system", "context", "defaults"}

\* What parseDefinitionLine makes something of.
IsDefinition(l) == l.is \in {"unit", "prefix", "dimension", "derived", "alias", "import"}
HasEquals(l) == l.is \in {"unit", "prefix", "derived", "alias"}

Missing == ""   \* no name: empty text

\* parseGroupHeader, parseSystemHeader, parseContextHeader: a header names its block.
WellFormed(h) == CASE h.is = "context" -> Head(h.names) # Missing
                   [] h.is = "defaults" -> TRUE
                   [] OTHER -> h.name # Missing

-----------------------------------------------------------------------------
(* finishBlock *)

\* A system takes every line for a rule.
Accepts(h, l) ==
  CASE h.is = "defaults" -> HasEquals(l)
    [] h.is = "group"    -> IsDefinition(l)
    [] h.is = "context"  -> l.is = "relation" \/ IsDefinition(l)
    [] h.is = "system"   -> TRUE

\* The numbers of a set up to n, in order, and the lines of a kind.
InOrder(I, n) ==
  LET upTo[i \in 0..n] == IF i = 0 THEN << >>
                          ELSE IF i \in I THEN Append(upTo[i - 1], i) ELSE upTo[i - 1]
  IN  upTo[n]
OfKind(kind, body) ==
  LET at == InOrder({i \in DOMAIN body : body[i].is = kind}, Len(body))
  IN  [k \in DOMAIN at |-> body[at[k]]]

Units(body) == OfKind("unit", body)
Relations(body) == OfKind("relation", body)

\* The last value of a key in @defaults.
Setting(key, body) ==
  LET set == SelectSeq(body, LAMBDA l : l.is = "unit" /\ l.name = key)
  IN  IF set = << >> THEN Missing ELSE Last(set).value

\* A rule that is no word or "new: old" is text no unit expression has.
NewUnit(l) == IF l.is \in {"rule", "word"} THEN l.name ELSE Missing

\* Dimensions, prefixes, aliases and imports in a group or a context are dropped.
Block(h, body) ==
  CASE h.is = "defaults" ->
         [is |-> h.is, group |-> Setting("group", body), system |-> Setting("system", body)]
    [] h.is = "group" ->
         [is |-> h.is, name |-> h.name, using |-> h.using, members |-> Units(body)]
    [] h.is = "context" ->
         [is |-> h.is, names |-> h.names, rels |-> Relations(body), redefs |-> Units(body)]
    [] h.is = "system" ->
         [is |-> h.is, name |-> h.name, using |-> IF h.using = << >> THEN <<"root">> ELSE h.using,
          rules |-> [i \in DOMAIN body |-> NewUnit(body[i])]]

-----------------------------------------------------------------------------
(* parseDefinitionFile, line by line *)

NoHeader == [is |-> "none"]
NoText == [header |-> NoHeader, body |-> << >>, out |-> << >>, refused |-> FALSE]

FlushKeepingBody(p) ==   \* mutant: body = nil is forgotten
  IF p.header = NoHeader \/ p.refused THEN p
  ELSE IF \E i \in DOMAIN p.body : ~Accepts(p.header, p.body[i])
  THEN [p EXCEPT !.refused = TRUE]
  ELSE [p EXCEPT !.header = NoHeader, !.out = Append(@, Block(p.header, p.body))]

Flush(p) ==
  IF p.header = NoHeader \/ p.refused THEN p
  ELSE IF \E i \in DOMAIN p.body : ~Accepts(p.header, p.body[i])
  THEN [p EXCEPT !.refused = TRUE]
  ELSE [NoText EXCEPT !.out = Append(p.out, Block(p.header, p.body))]

\* A header ends the block before it; @end with no block is ignored.
ReadLine(p, l) ==
  IF p.refused THEN p
  ELSE IF l.is = "end" THEN Flush(p)
  ELSE IF IsHeader(l)
  THEN IF WellFormed(l) THEN [Flush(p) EXCEPT !.header = l] ELSE [p EXCEPT !.refused = TRUE]
  ELSE IF p.header # NoHeader THEN [p EXCEPT !.body = Append(@, l)]
  ELSE IF IsDefinition(l) THEN [p EXCEPT !.out = Append(@, l)]
  ELSE [p EXCEPT !.refused = TRUE]

Parsed(text) ==
  LET read[i \in 0..Len(text)] == IF i = 0 THEN NoText ELSE ReadLine(read[i - 1], text[i])
  IN  Flush(read[Len(text)])

-----------------------------------------------------------------------------
(* The same, of a whole text at once *)

\* Where the block that holds line i of the text begins; 0 outside of blocks.
Section(text, i) ==
  LET marks == {j \in 1..i : IsHeader(text[j]) \/ text[j].is = "end"}
      last == CHOOSE j \in marks : \A k \in marks : k <= j
  IN  IF marks # {} /\ IsHeader(text[last]) THEN last ELSE 0

Inside(text, h) == {i \in DOMAIN text \ {h} : Section(text, i) = h}
LinesOf(text, h) ==
  LET inside == InOrder(Inside(text, h), Len(text))
  IN  [k \in DOMAIN inside |-> text[inside[k]]]

\* A line is one that the place it stands in takes.
Placed(text, i) ==
  LET h == Section(text, i)
  IN  CASE h = i -> WellFormed(text[i])
        [] h = 0 -> text[i].is = "end" \/ IsDefinition(text[i])
        [] OTHER -> Accepts(text[h], text[i])

Sensible(text) == \A i \in DOMAIN text : Placed(text, i)

\* Headers, and what stands outside of blocks.
Starts(text) == {i \in DOMAIN text : Section(text, i) \in {0, i} /\ text[i].is # "end"}

Says(text, i) == IF IsHeader(text[i]) THEN Block(text[i], LinesOf(text, i)) ELSE text[i]

Meant(text) ==
  LET starts == InOrder(Starts(text), Len(text))
  IN  [k \in DOMAIN starts |-> Says(text, starts[k])]
=============================================================================
