------------------------- MODULE UnitCatalogProofs -------------------------
(***************************************************************************)
(* For every set of definition files, every expression looked up and any   *)
(* number of calls: no spelling of the catalog leads nowhere, and a        *)
(* registry that raises on redefinition redefines nothing.                 *)
(*                                                                         *)
(* Registration is a loop that writes r.units key by key and r.unitByName  *)
(* last, so the inductive invariant says how far the loop has come: either *)
(* no key of the definition in hand has been registered, or its canonical  *)
(* name, the first of the keys, is one of those that have (IInv).          *)
(*                                                                         *)
(* Then the contents of the maps: definitions of their kind, the           *)
(* difference of every offset unit, synthesized units that agree with      *)
(* their prefix, parsed containers of units that can be looked up, and an  *)
(* index of the products with one name.  There is one part of the          *)
(* invariant for each map and for what the call in progress has in hand.   *)
(***************************************************************************)
EXTENDS UnitCatalog, SequenceTheorems, WellFoundedInduction, FiniteSetTheorems, TLAPS

TaskFields == {"lines", "def", "keys", "op", "expr", "todo", "out",
               "left", "index", "ambiguous"}
Lines == UNION {ToSet(file) : file \in File}

Keyed(u) == /\ DOMAIN u = Fields
            /\ u.name \in Name /\ u.symbol \in Name /\ u.aliases \in Seq(Name)

Registering == pc \in {"unit", "delta"}
Begun == Registering /\ task.keys # UnitKeys(task.def)
Partial == IF Begun THEN {task.def.name} ELSE {}

MapsInv ==
  /\ \A k \in DOMAIN units : DOMAIN units[k] = Fields
  /\ \A n \in DOMAIN byName : DOMAIN byName[n] = Fields
  /\ DOMAIN byName \subseteq DOMAIN units

LeadInv ==
  \A k \in DOMAIN units : units[k].name \in DOMAIN byName \cup refused \cup Partial

TaskInv ==
  /\ DOMAIN task = TaskFields
  /\ task.lines \in Seq(Lines)
  /\ Registering => /\ Keyed(task.def) /\ task.keys \in Seq(Name)
                    /\ Len(task.keys) <= Len(UnitKeys(task.def))
  /\ Begun => /\ Len(task.keys) < Len(UnitKeys(task.def))
              /\ task.def.name \in DOMAIN units
  /\ pc = "alias" => /\ DOMAIN task.def = Fields
                     /\ task.def.name \in DOMAIN byName \cup refused

FreshInv == onRedefinition = "raise" /\ Begun => task.def.name \notin DOMAIN byName

IInv == MapsInv /\ LeadInv /\ TaskInv /\ FreshInv

-----------------------------------------------------------------------------
\* The keys of a definition are a sequence that starts with its canonical name.
LEMMA KeysStart ==
  ASSUME NEW u, Keyed(u)
  PROVE  /\ UnitKeys(u) \in Seq(Name) /\ UnitKeys(u) # << >>
         /\ Head(UnitKeys(u)) = u.name
<1> DEFINE mid == IF u.symbol \in {Blank, u.name} THEN << >> ELSE <<u.symbol>>
<1>1. <<u.name>> \in Seq(Name) /\ mid \in Seq(Name) /\ u.aliases \in Seq(Name)
  BY DEF Keyed
<1>2. <<u.name>> \o mid \in Seq(Name)
  BY <1>1
<1>3. Len(<<u.name>> \o mid) = 1 + Len(mid) /\ (<<u.name>> \o mid)[1] = u.name
  <2> HIDE DEF mid
  <2> QED  BY <1>1
<1> DEFINE front == <<u.name>> \o mid
<1>4. front \in Seq(Name) /\ Len(front) >= 1 /\ front[1] = u.name
  BY <1>1, <1>2, <1>3
<1>5. front \o u.aliases \in Seq(Name) /\ Head(front \o u.aliases) = u.name
      /\ front \o u.aliases # << >>
  <2> HIDE DEF front
  <2>1. /\ front \o u.aliases \in Seq(Name)
        /\ Len(front \o u.aliases) = Len(front) + Len(u.aliases)
        /\ (front \o u.aliases)[1] = front[1]
    BY <1>1, <1>4, ConcatProperties
  <2> QED  BY <2>1, <1>1, <1>4
<1> QED  BY <1>5 DEF UnitKeys

\* The delta unit of a definition has keys of its own.
LEMMA DeltaKeyed ==
  ASSUME NEW u, Keyed(u)
  PROVE  Keyed(Delta(u))
<1>1. DOMAIN Delta(u) = Fields
  BY DEF Delta, Fields
<1>2. DeltaName(u.name) \in Name
  BY OptionAssumption DEF DeltaName, Keyed, Name
<1>3. Delta(u).name \in Name
  BY <1>2 DEF Delta, Keyed, Fields
<1>4. Delta(u).symbol \in Name
  BY OptionAssumption DEF Delta, Keyed, Fields, Name, Blank
<1>5. Delta(u).aliases \in Seq(Name)
  <2> DEFINE al == [i \in 1..(2 * Len(u.aliases)) |->
                      IF i % 2 = 1 THEN <<"Delta">> \o u.aliases[(i + 1) \div 2]
                      ELSE DeltaName(u.aliases[i \div 2])]
  <2>1. Delta(u).aliases = al
    BY DEF Delta, Keyed, Fields
  <2>2. ASSUME NEW i \in 1..(2 * Len(u.aliases))
        PROVE  al[i] \in Name
    <3>1. /\ i % 2 = 1 => (i + 1) \div 2 \in 1..Len(u.aliases)
          /\ i % 2 # 1 => i \div 2 \in 1..Len(u.aliases)
      BY DEF Keyed
    <3>2. \A j \in 1..Len(u.aliases) :
            <<"Delta">> \o u.aliases[j] \in Name /\ DeltaName(u.aliases[j]) \in Name
      BY OptionAssumption DEF Keyed, Name, DeltaName
    <3> QED  BY <3>1, <3>2
  <2>3. al \in [1..(2 * Len(u.aliases)) -> Name]
    BY <2>2
  <2>4. 2 * Len(u.aliases) \in Nat
    BY DEF Keyed
  <2> HIDE DEF al
  <2> QED  BY <2>1, <2>3, <2>4, SeqDef
<1> QED  BY <1>1, <1>3, <1>4, <1>5 DEF Keyed

\* The lines that are left are lines of a file, and a definition is well formed.
LEMMA LineKeyed ==
  ASSUME NEW line \in Lines, line.kind = "unit"
  PROVE  Keyed(line.def)
<1>1. PICK file \in File : line \in ToSet(file)
  BY DEF Lines
<1>2. IsUnitDef(line.def)
  BY <1>1, FileAssumption
<1> QED  BY <1>2 DEF IsUnitDef, Keyed

\* A prefixed name is the prefix glued to the unit it was found with.
LEMMA ResolvedName ==
  ASSUME NEW n, ~IsError(Resolve(n)), Resolve(n).prefix # Blank
  PROVE  Resolve(n).name = Resolve(n).prefix \o Resolve(n).unit
BY DEF Resolve, Found, IsError, Undefined, OffsetError, Blank

\* Appending aliases to a definition changes neither its name nor its meaning ...
LEMMA AliasesAppended ==
  ASSUME NEW u, NEW al, DOMAIN u = Fields
  PROVE  LET v == [u EXCEPT !.aliases = al]
         IN  DOMAIN v = Fields /\ v.name = u.name /\ Meaning(v) = Meaning(u)
<1> DEFINE v == [u EXCEPT !.aliases = al]
<1>1. DOMAIN v = Fields /\ v.name = u.name
  BY DEF Fields
<1>2. Meaning(v) = Meaning(u)
  BY DEF Meaning, Fields
<1> QED  BY <1>1, <1>2

\* ... so the maps that share it keep their names and meanings.
LEMMA SharedKeeps ==
  ASSUME NEW map, NEW u, NEW v, DOMAIN v = Fields, v.name = u.name, Meaning(v) = Meaning(u),
         \A k \in DOMAIN map : DOMAIN map[k] = Fields
  PROVE  /\ DOMAIN Shared(map, u, v) = DOMAIN map
         /\ \A k \in DOMAIN map : /\ DOMAIN Shared(map, u, v)[k] = Fields
                                  /\ Shared(map, u, v)[k].name = map[k].name
                                  /\ Meaning(Shared(map, u, v)[k]) = Meaning(map[k])
<1>1. /\ DOMAIN Shared(map, u, v) = DOMAIN map
      /\ \A k \in DOMAIN map : Shared(map, u, v)[k] = IF map[k] = u THEN v ELSE map[k]
  BY DEF Shared
<1> QED  BY <1>1

\* A map that gains a key it did not have grows.
LEMMA PutGrows ==
  ASSUME NEW f, NEW k, NEW v, k \notin DOMAIN f
  PROVE  Grows(f, Put(f, k, v))
BY DEF Grows, Put, Meaning

LEMMA SameGrows ==
  ASSUME NEW f
  PROVE  Grows(f, f)
BY DEF Grows
-----------------------------------------------------------------------------
(* Lemmas about one step *)

\* What an assignment to one field of the call's local variables leaves alone.
LEMMA TaskUpdate ==
  ASSUME NEW t, DOMAIN t = TaskFields, NEW a, NEW b, NEW c
  PROVE  /\ LET s == [t EXCEPT !.keys = a]
            IN  DOMAIN s = TaskFields /\ s.keys = a /\ s.def = t.def /\ s.lines = t.lines
         /\ LET s == [t EXCEPT !.lines = a]
            IN  DOMAIN s = TaskFields /\ s.lines = a /\ s.def = t.def /\ s.keys = t.keys
         /\ LET s == [t EXCEPT !.def = a, !.keys = b]
            IN  DOMAIN s = TaskFields /\ s.def = a /\ s.keys = b /\ s.lines = t.lines
         /\ LET s == [t EXCEPT !.lines = a, !.def = b, !.keys = c]
            IN  DOMAIN s = TaskFields /\ s.lines = a /\ s.def = b /\ s.keys = c
         /\ LET s == [t EXCEPT !.todo = a, !.out = b]
            IN  DOMAIN s = TaskFields /\ s.lines = t.lines
         /\ LET s == [t EXCEPT !.op = a, !.expr = b, !.todo = c]
            IN  DOMAIN s = TaskFields /\ s.lines = t.lines
         /\ LET s == [t EXCEPT !.left = a]
            IN  DOMAIN s = TaskFields /\ s.lines = t.lines
BY DEF TaskFields

LEMMA NoTaskShape == DOMAIN NoTask = TaskFields /\ NoTask.lines = << >>
BY DEF NoTask, TaskFields

-----------------------------------------------------------------------------
(* The invariant *)

\* An empty registry satisfies the invariant.
LEMMA InitInv == Init => IInv
<1> SUFFICES ASSUME Init PROVE IInv
  OBVIOUS
<1>1. MapsInv /\ LeadInv
  BY DEF Init, MapsInv, LeadInv, NoUnits
<1>2. ~Registering /\ pc # "alias"
  BY DEF Init, Registering
<1>3. TaskInv
  BY <1>2, NoTaskShape DEF Init, TaskInv, Begun
<1> QED  BY <1>1, <1>2, <1>3 DEF IInv, FreshInv, Begun

\* A step that leaves the maps alone and ends outside a registration.
LEMMA Outside ==
  ASSUME IInv, UNCHANGED onRedefinition,
         units' = units, byName' = byName, refused \subseteq refused',
         ~Begun \/ task.def.name \in refused',
         pc' \notin {"unit", "delta", "alias"},
         DOMAIN task' = TaskFields, task'.lines \in Seq(Lines)
  PROVE  IInv'
<1>1. MapsInv'
  BY DEF IInv, MapsInv
<1>2. LeadInv'
  BY DEF IInv, LeadInv, Partial, Begun, Registering
<1>3. TaskInv' /\ FreshInv'
  BY DEF TaskInv, FreshInv, Begun, Registering
<1> QED  BY <1>1, <1>2, <1>3 DEF IInv

LEMMA LoadStepInv ==
  ASSUME IInv, UNCHANGED onRedefinition, NEW file \in File, Load(file)
  PROVE  IInv'
<1>1. file \in Seq(Lines)
  <2>1. file \in Seq(ToSet(file)) /\ ToSet(file) \subseteq Lines
    BY FileAssumption DEF Lines
  <2> QED  BY <2>1
<1>2. DOMAIN task' = TaskFields /\ task'.lines \in Seq(Lines)
  BY <1>1, NoTaskShape, TaskUpdate DEF Load
<1> QED  BY <1>2, Outside DEF Load, registry, Begun, Registering

\* A call that ends leaves no registration behind that is not on record.
LEMMA AbandonInv ==
  ASSUME IInv, UNCHANGED onRedefinition, Abandon,
         units' = units, byName' = byName, refused \subseteq refused',
         ~Begun \/ task.def.name \in refused'
  PROVE  IInv'
<1>1. DOMAIN task' = TaskFields /\ task'.lines \in Seq(Lines)
  BY NoTaskShape DEF Abandon
<1> QED  BY <1>1, Outside DEF Abandon

\* The first line and the rest of the lines are lines.
LEMMA NextLine ==
  ASSUME IInv, task.lines # << >>
  PROVE  Line \in Lines /\ Rest \in Seq(Lines)
BY DEF IInv, TaskInv, Line, Rest

LEMMA BeginUnitInv == ASSUME IInv, UNCHANGED onRedefinition, BeginUnit PROVE IInv'
<1>1. Line \in Lines /\ Rest \in Seq(Lines) /\ Line.kind = "unit" /\ ~Begun
  BY NextLine DEF BeginUnit, AtLine, Begun, Registering
<1>2. Keyed(Line.def)
  BY <1>1, LineKeyed
<1>3. /\ DOMAIN task' = TaskFields /\ task'.lines = Rest /\ task'.def = Line.def
      /\ task'.keys = UnitKeys(Line.def)
  BY TaskUpdate DEF BeginUnit, IInv, TaskInv
<1>4. ~Begun'
  BY <1>3 DEF Begun
<1>5. MapsInv' /\ LeadInv'
  BY <1>1, <1>4 DEF BeginUnit, registry, IInv, MapsInv, LeadInv, Partial
<1>6. TaskInv'
  BY <1>1, <1>2, <1>3, <1>4, KeysStart DEF BeginUnit, TaskInv
<1> QED  BY <1>4, <1>5, <1>6 DEF IInv, FreshInv

LEMMA BeginPrefixInv == ASSUME IInv, UNCHANGED onRedefinition, BeginPrefix PROVE IInv'
<1>1. Rest \in Seq(Lines) /\ ~Begun
  BY NextLine DEF BeginPrefix, AtLine, Begun, Registering
<1>2. DOMAIN task' = TaskFields /\ task'.lines = Rest
  BY TaskUpdate DEF BeginPrefix, IInv, TaskInv
<1> QED  BY <1>1, <1>2, Outside DEF BeginPrefix, registry

LEMMA BeginAliasInv ==
  ASSUME IInv, UNCHANGED onRedefinition, BeginAlias
  PROVE  IInv' /\ Grows(units, units') /\ Grows(byName, byName')
<1>1. Rest \in Seq(Lines) /\ ~Begun /\ MapsInv
  BY NextLine DEF BeginAlias, AtLine, Begun, Registering, IInv
<1>2. CASE Line.name \notin DOMAIN units
  <2>1. IInv'
    BY <1>1, <1>2, AbandonInv DEF BeginAlias
  <2> QED  BY <2>1, <1>2, SameGrows DEF BeginAlias
<1>3. CASE Line.name \in DOMAIN units
  <2> DEFINE u == units[Line.name]
             al == u.aliases \o Line.aliases
             v == [u EXCEPT !.aliases = al]
  <2>1. DOMAIN u = Fields
    BY <1>1, <1>3 DEF MapsInv
  <2>2. /\ units' = Shared(units, u, v) /\ byName' = Shared(byName, u, v)
        /\ pc' = "alias" /\ refused' = refused
        /\ task' = [task EXCEPT !.lines = Rest, !.def = v, !.keys = Line.aliases]
    BY <1>3 DEF BeginAlias
  <2>3. /\ DOMAIN v = Fields /\ v.name = u.name
        /\ DOMAIN units' = DOMAIN units /\ DOMAIN byName' = DOMAIN byName
        /\ \A k \in DOMAIN units : /\ DOMAIN units'[k] = Fields
                                   /\ units'[k].name = units[k].name
                                   /\ Meaning(units'[k]) = Meaning(units[k])
        /\ \A k \in DOMAIN byName : /\ DOMAIN byName'[k] = Fields
                                    /\ Meaning(byName'[k]) = Meaning(byName[k])
    <3>1. DOMAIN v = Fields /\ v.name = u.name /\ Meaning(v) = Meaning(u)
      <4> HIDE DEF u, al
      <4> QED  BY <2>1, AliasesAppended
    <3>2. /\ \A k \in DOMAIN units : DOMAIN units[k] = Fields
          /\ \A k \in DOMAIN byName : DOMAIN byName[k] = Fields
      BY <1>1 DEF MapsInv
    <3> HIDE DEF v, u
    <3>3. /\ DOMAIN Shared(units, u, v) = DOMAIN units
          /\ \A k \in DOMAIN units :
               /\ DOMAIN Shared(units, u, v)[k] = Fields
               /\ Shared(units, u, v)[k].name = units[k].name
               /\ Meaning(Shared(units, u, v)[k]) = Meaning(units[k])
      BY <3>1, <3>2, SharedKeeps
    <3>4. /\ DOMAIN Shared(byName, u, v) = DOMAIN byName
          /\ \A k \in DOMAIN byName :
               /\ DOMAIN Shared(byName, u, v)[k] = Fields
               /\ Meaning(Shared(byName, u, v)[k]) = Meaning(byName[k])
      BY <3>1, <3>2, SharedKeeps
    <3> QED  BY <2>2, <3>1, <3>3, <3>4
  <2>4. DOMAIN task' = TaskFields /\ task'.lines = Rest /\ task'.def = v
    BY <2>2, TaskUpdate DEF IInv, TaskInv
  <2> HIDE DEF v
  <2>5. MapsInv'
    BY <1>1, <2>3 DEF MapsInv
  <2>6. u.name \in DOMAIN byName \cup refused
    BY <1>1, <1>3 DEF IInv, LeadInv, Partial
  <2>7. LeadInv' /\ FreshInv'
    BY <1>1, <2>2, <2>3 DEF IInv, LeadInv, FreshInv, Partial, Begun, Registering
  <2>8. TaskInv'
    BY <1>1, <2>2, <2>3, <2>4, <2>6 DEF TaskInv, Begun, Registering
  <2> QED  BY <2>3, <2>5, <2>7, <2>8 DEF IInv, Grows
<1> QED  BY <1>2, <1>3

LEMMA AddDimensionInv == ASSUME IInv, UNCHANGED onRedefinition, AddDimension PROVE IInv'
<1>1. Rest \in Seq(Lines) /\ ~Begun
  BY NextLine DEF AddDimension, AtLine, Begun, Registering
<1>2. CASE Abandon
  BY <1>1, <1>2, AbandonInv DEF AddDimension
<1>3. CASE task' = [task EXCEPT !.lines = Rest] /\ pc' = pc
  <2>1. DOMAIN task' = TaskFields /\ task'.lines = Rest
    BY <1>3, TaskUpdate DEF IInv, TaskInv
  <2> QED  BY <1>1, <1>3, <2>1, Outside DEF AddDimension, AtLine
<1> QED  BY <1>2, <1>3 DEF AddDimension

LEMMA BadLineInv == ASSUME IInv, UNCHANGED onRedefinition, BadLine PROVE IInv'
BY AbandonInv DEF BadLine, registry, AtLine, Begun, Registering

\* Registering one more key of the definition in hand.
LEMMA KeyInv ==
  ASSUME IInv, UNCHANGED onRedefinition, Registering, task.keys # << >>,
         ~RefuseTaken(Key, units), units' = Put(units, Key, task.def), NextKey,
         UNCHANGED <<pc, byName, refused>>
  PROVE  /\ IInv'
         /\ onRedefinition = "raise" => Grows(units, units')
<1>1. /\ Keyed(task.def) /\ task.keys \in Seq(Name) /\ DOMAIN task = TaskFields
      /\ task.lines \in Seq(Lines)
      /\ Len(task.keys) <= Len(UnitKeys(task.def))
  BY DEF IInv, TaskInv
<1>2. /\ DOMAIN task' = TaskFields /\ task'.keys = Tail(task.keys)
      /\ task'.def = task.def /\ task'.lines = task.lines
  BY <1>1, TaskUpdate DEF NextKey
<1>3. /\ task'.keys \in Seq(Name) /\ Len(task'.keys) < Len(UnitKeys(task'.def))
      /\ task'.keys # UnitKeys(task'.def)
  <2>1. Tail(task.keys) \in Seq(Name) /\ Len(Tail(task.keys)) = Len(task.keys) - 1
    BY <1>1
  <2>2. UnitKeys(task.def) \in Seq(Name)
    BY <1>1, KeysStart
  <2>3. UnitKeys(task'.def) = UnitKeys(task.def)
    BY <1>2
  <2>4. Len(Tail(task.keys)) < Len(UnitKeys(task.def))
    BY <1>1, <2>1, <2>2
  <2>5. Tail(task.keys) # UnitKeys(task.def)
    <3>1. Len(UnitKeys(task.def)) \in Nat
      BY <2>2, LenProperties
    <3>2. Len(Tail(task.keys)) # Len(UnitKeys(task.def))
      BY <2>4, <3>1
    <3> QED  BY <3>2, Zenon
  <2>6. task'.keys = Tail(task.keys)
    BY <1>2
  <2> QED  BY <2>1, <2>3, <2>4, <2>5, <2>6, Zenon
<1>4. /\ DOMAIN units' = DOMAIN units \cup {Key} /\ units'[Key] = task.def
      /\ \A x \in DOMAIN units : x # Key => units'[x] = units[x]
  BY DEF Put
<1>5. task.def.name \in DOMAIN units'
  <2>1. CASE Begun
    BY <1>4, <2>1 DEF IInv, TaskInv
  <2>2. CASE ~Begun
    BY <1>1, <1>4, <2>2, KeysStart DEF Begun, Key
  <2> QED  BY <2>1, <2>2
<1>6. Begun' /\ Registering' /\ Partial' = {task.def.name}
  BY <1>2, <1>3 DEF Begun, Registering, Partial
<1>7. MapsInv'
  BY <1>1, <1>4 DEF IInv, MapsInv, Keyed
<1>8. LeadInv'
  BY <1>4, <1>6 DEF IInv, LeadInv, Partial
<1>9. TaskInv'
  BY <1>1, <1>2, <1>3, <1>5 DEF TaskInv, Registering
<1>10. FreshInv'
  <2> SUFFICES ASSUME onRedefinition = "raise" PROVE task.def.name \notin DOMAIN byName
    BY <1>2 DEF FreshInv
  <2>1. CASE Begun
    BY <2>1 DEF IInv, FreshInv
  <2>2. CASE ~Begun
    <3>1. Key = task.def.name
      BY <1>1, <2>2, KeysStart DEF Begun, Key
    <3> QED  BY <3>1 DEF RefuseTaken, IInv, MapsInv
  <2> QED  BY <2>1, <2>2
<1>11. ASSUME onRedefinition = "raise" PROVE Grows(units, units')
  BY <1>11, PutGrows DEF RefuseTaken
<1> QED  BY <1>7, <1>8, <1>9, <1>10, <1>11 DEF IInv

LEMMA UnitKeyInv ==
  ASSUME IInv, UNCHANGED onRedefinition, UnitKey
  PROVE  IInv' /\ (onRedefinition = "raise" => Grows(units, units'))
<1>1. CASE RefuseTaken(Key, units)
  <2>1. ~Begun \/ task.def.name \in refused'
    BY <1>1 DEF UnitKey, Begun
  <2>2. Abandon /\ units' = units /\ byName' = byName /\ refused \subseteq refused'
    BY <1>1 DEF UnitKey
  <2> QED  BY <2>1, <2>2, AbandonInv, SameGrows
<1>2. CASE ~RefuseTaken(Key, units)
  BY <1>2, KeyInv DEF UnitKey, Registering
<1> QED  BY <1>1, <1>2

LEMMA DeltaKeyInv ==
  ASSUME IInv, UNCHANGED onRedefinition, DeltaKey
  PROVE  IInv' /\ (onRedefinition = "raise" => Grows(units, units'))
<1>1. CASE RefuseTaken(Key, units)
  <2>1. task.def.name \in refused' /\ pc' = "line" /\ task' = task /\ units' = units
        /\ byName' = byName /\ refused \subseteq refused'
    BY <1>1 DEF DeltaKey
  <2>2. DOMAIN task' = TaskFields /\ task'.lines \in Seq(Lines)
    BY <2>1 DEF IInv, TaskInv
  <2> QED  BY <2>1, <2>2, Outside, SameGrows
<1>2. CASE ~RefuseTaken(Key, units)
  BY <1>2, KeyInv DEF DeltaKey, Registering
<1> QED  BY <1>1, <1>2

\* When the last key is registered the canonical name is entered, and it is new.
LEMMA NameEntered ==
  ASSUME IInv, Registering, task.keys = << >>
  PROVE  /\ Begun /\ DOMAIN task.def = Fields /\ Keyed(task.def)
         /\ task.def.name \in DOMAIN units
         /\ onRedefinition = "raise" => task.def.name \notin DOMAIN byName
<1>1. Keyed(task.def)
  BY DEF IInv, TaskInv
<1>2. Begun
  BY <1>1, KeysStart DEF Begun
<1> QED  BY <1>1, <1>2 DEF IInv, TaskInv, FreshInv, Keyed

LEMMA DoneMaps ==
  ASSUME IInv, UNCHANGED onRedefinition, Registering, task.keys = << >>,
         byName' = Put(byName, task.def.name, task.def), UNCHANGED <<units, refused>>
  PROVE  /\ MapsInv'
         /\ \A k \in DOMAIN units' : units'[k].name \in DOMAIN byName' \cup refused'
         /\ onRedefinition = "raise" => Grows(byName, byName')
<1>1. /\ DOMAIN byName' = DOMAIN byName \cup {task.def.name}
      /\ byName'[task.def.name] = task.def
      /\ \A x \in DOMAIN byName : x # task.def.name => byName'[x] = byName[x]
  BY DEF Put
<1>2. MapsInv'
  BY <1>1, NameEntered DEF IInv, MapsInv
<1>3. \A k \in DOMAIN units' : units'[k].name \in DOMAIN byName' \cup refused'
  BY <1>1 DEF IInv, LeadInv, Partial
<1>4. onRedefinition = "raise" => Grows(byName, byName')
  BY NameEntered, PutGrows
<1> QED  BY <1>2, <1>3, <1>4

LEMMA UnitDoneInv ==
  ASSUME IInv, UNCHANGED onRedefinition, UnitDone
  PROVE  IInv' /\ (onRedefinition = "raise" => Grows(byName, byName'))
<1>1. Registering /\ task.keys = << >> /\ UNCHANGED <<units, refused>>
      /\ byName' = Put(byName, task.def.name, task.def)
  BY DEF UnitDone, Registering
<1>2. /\ MapsInv' /\ (onRedefinition = "raise" => Grows(byName, byName'))
      /\ \A k \in DOMAIN units' : units'[k].name \in DOMAIN byName' \cup refused'
  BY <1>1, DoneMaps
<1>3. LeadInv'
  BY <1>2 DEF LeadInv
<1>4. CASE task.def.type = "offset"
  <2> DEFINE d == Delta(task.def)
  <2>1. Keyed(d)
    BY <1>1, NameEntered, DeltaKeyed
  <2> HIDE DEF d
  <2>2. pc' = "delta" /\ task' = [task EXCEPT !.def = d, !.keys = UnitKeys(d)]
    BY <1>4 DEF UnitDone, d
  <2>3. /\ DOMAIN task' = TaskFields /\ task'.def = d /\ task'.keys = UnitKeys(d)
        /\ task'.lines = task.lines
    BY <2>2, TaskUpdate DEF IInv, TaskInv
  <2>4. ~Begun'
    BY <2>3 DEF Begun
  <2>5. TaskInv'
    BY <2>1, <2>2, <2>3, <2>4, KeysStart DEF IInv, TaskInv
  <2> QED  BY <1>2, <1>3, <2>4, <2>5 DEF IInv, FreshInv
<1>5. CASE task.def.type # "offset"
  <2>1. pc' = "line" /\ task' = task
    BY <1>5 DEF UnitDone
  <2>2. TaskInv' /\ FreshInv'
    BY <2>1 DEF IInv, TaskInv, FreshInv, Begun, Registering
  <2> QED  BY <1>2, <1>3, <2>2 DEF IInv
<1> QED  BY <1>2, <1>4, <1>5

LEMMA DeltaDoneInv ==
  ASSUME IInv, UNCHANGED onRedefinition, DeltaDone
  PROVE  IInv' /\ (onRedefinition = "raise" => Grows(byName, byName'))
<1>1. Registering /\ task.keys = << >> /\ UNCHANGED <<units, refused, task>>
      /\ pc' = "line" /\ byName' = Put(byName, task.def.name, task.def)
  BY DEF DeltaDone, Registering
<1>2. /\ MapsInv' /\ (onRedefinition = "raise" => Grows(byName, byName'))
      /\ \A k \in DOMAIN units' : units'[k].name \in DOMAIN byName' \cup refused'
  BY <1>1, DoneMaps
<1>3. LeadInv'
  BY <1>2 DEF LeadInv
<1>4. TaskInv' /\ FreshInv'
  BY <1>1 DEF IInv, TaskInv, FreshInv, Begun, Registering
<1> QED  BY <1>2, <1>3, <1>4 DEF IInv

LEMMA AliasKeyInv ==
  ASSUME IInv, UNCHANGED onRedefinition, AliasKey
  PROVE  IInv' /\ (onRedefinition = "raise" => Grows(units, units'))
<1>1. ~Begun /\ pc = "alias"
  BY DEF AliasKey, Begun, Registering
<1>2. CASE RefuseTaken(Key, units)
  BY <1>1, <1>2, AbandonInv, SameGrows DEF AliasKey
<1>3. CASE ~RefuseTaken(Key, units)
  <2>1. /\ units' = Put(units, Key, task.def) /\ pc' = pc /\ byName' = byName
        /\ refused' = refused /\ NextKey
    BY <1>3 DEF AliasKey
  <2>2. /\ DOMAIN task' = TaskFields /\ task'.def = task.def
        /\ task'.lines = task.lines
    BY <2>1, TaskUpdate DEF NextKey, IInv, TaskInv
  <2>3. /\ DOMAIN units' = DOMAIN units \cup {Key} /\ units'[Key] = task.def
        /\ \A x \in DOMAIN units : x # Key => units'[x] = units[x]
    BY <2>1 DEF Put
  <2>4. /\ DOMAIN task.def = Fields
        /\ task.def.name \in DOMAIN byName \cup refused
    BY <1>1 DEF IInv, TaskInv
  <2>5. MapsInv'
    BY <2>1, <2>3, <2>4 DEF IInv, MapsInv
  <2>6. LeadInv'
    BY <1>1, <2>1, <2>3, <2>4 DEF IInv, LeadInv, Partial
  <2>7. TaskInv' /\ FreshInv'
    BY <1>1, <2>1, <2>2, <2>4 DEF IInv, TaskInv, FreshInv, Begun, Registering
  <2>8. ASSUME onRedefinition = "raise" PROVE Grows(units, units')
    BY <1>3, <2>1, <2>8, PutGrows DEF RefuseTaken
  <2> QED  BY <2>5, <2>6, <2>7, <2>8 DEF IInv
<1> QED  BY <1>2, <1>3

LEMMA AliasDoneInv == ASSUME IInv, UNCHANGED onRedefinition, AliasDone PROVE IInv'
BY Outside DEF AliasDone, registry, IInv, TaskInv, Begun, Registering

LEMMA PrefixKeyInv ==
  ASSUME IInv, UNCHANGED onRedefinition, PrefixKey
  PROVE  IInv' /\ (onRedefinition = "raise" => Grows(prefixes, prefixes'))
<1>1. ~Begun
  BY DEF PrefixKey, Begun, Registering
<1>2. CASE RefuseTaken(Key, prefixes)
  BY <1>1, <1>2, AbandonInv, SameGrows DEF PrefixKey
<1>3. CASE ~RefuseTaken(Key, prefixes)
  <2>0. task' = [task EXCEPT !.keys = Tail(task.keys)]
    BY <1>3 DEF PrefixKey, NextKey
  <2>1. DOMAIN task' = TaskFields /\ task'.lines = task.lines
    BY <2>0, TaskUpdate DEF IInv, TaskInv
  <2>2. task'.lines \in Seq(Lines)
    BY <2>1 DEF IInv, TaskInv
  <2>3. IInv'
    BY <1>1, <1>3, <2>1, <2>2, Outside DEF PrefixKey
  <2>4. ASSUME onRedefinition = "raise" PROVE Grows(prefixes, prefixes')
    BY <1>3, <2>4, PutGrows DEF PrefixKey, RefuseTaken
  <2> QED  BY <2>3, <2>4
<1> QED  BY <1>2, <1>3

LEMMA PrefixDoneInv == ASSUME IInv, UNCHANGED onRedefinition, PrefixDone PROVE IInv'
BY Outside DEF PrefixDone, IInv, TaskInv, Begun, Registering

LEMMA BuildCachesInv == ASSUME IInv, UNCHANGED onRedefinition, BuildCaches PROVE IInv'
<1>1. DOMAIN task' = TaskFields /\ task'.lines \in Seq(Lines)
  BY NoTaskShape DEF BuildCaches, NoTask, TaskFields
<1> QED  BY <1>1, Outside DEF BuildCaches, registry, Begun, Registering

\* One turn of the loop over the catalog changes the index and nothing else.
LEMMA IndexedKeeps ==
  ASSUME NEW t, DOMAIN t = TaskFields, NEW n
  PROVE  DOMAIN Indexed(t, n) = TaskFields /\ Indexed(t, n).lines = t.lines
<1> DEFINE key == byName[n].ref
           a == [k \in DOMAIN t.index \ {key} |-> t.index[k]]
           b == t.ambiguous \cup {key}
           c == Put(t.index, key, n)
<1>1. \/ Indexed(t, n) = t
      \/ Indexed(t, n) = [t EXCEPT !.index = a, !.ambiguous = b]
      \/ Indexed(t, n) = [t EXCEPT !.index = c]
  BY DEF Indexed
<1> HIDE DEF key, a, b, c
<1>2. LET s == [t EXCEPT !.index = a, !.ambiguous = b]
      IN  DOMAIN s = TaskFields /\ s.lines = t.lines
  BY DEF TaskFields
<1>3. LET s == [t EXCEPT !.index = c]
      IN  DOMAIN s = TaskFields /\ s.lines = t.lines
  BY DEF TaskFields
<1> QED  BY <1>1, <1>2, <1>3

LEMMA IndexUnitInv == ASSUME IInv, UNCHANGED onRedefinition, IndexUnit PROVE IInv'
<1>1. DOMAIN task = TaskFields /\ task.lines \in Seq(Lines)
  BY DEF IInv, TaskInv
<1>2. PICK n \in task.left : task' = [Indexed(task, n) EXCEPT !.left = @ \ {n}]
  BY DEF IndexUnit
<1>3. DOMAIN task' = TaskFields /\ task'.lines = task.lines
  BY <1>1, <1>2, IndexedKeeps, TaskUpdate
<1> QED  BY <1>1, <1>3, Outside DEF IndexUnit, registry, Begun, Registering

LEMMA IndexDoneInv == ASSUME IInv, UNCHANGED onRedefinition, IndexDone PROVE IInv'
BY Outside, NoTaskShape DEF IndexDone, registry, Begun, Registering

\* Interning adds a name that was in neither map, with a definition of that name.
LEMMA InternKeeps ==
  ASSUME IInv, UNCHANGED onRedefinition, NEW n, Intern(Resolve(n)), refused' = refused, ~Begun
  PROVE  /\ MapsInv'
         /\ \A k \in DOMAIN units' : units'[k].name \in DOMAIN byName' \cup refused'
         /\ Grows(units, units') /\ Grows(byName, byName')
<1> DEFINE x == Resolve(n)
           u == Synthesized(x.prefix, x.unit)
<1>1. MapsInv /\ \A k \in DOMAIN units : units[k].name \in DOMAIN byName \cup refused
  BY DEF IInv, LeadInv, Partial
<1>2. CASE ~IsError(x) /\ x.prefix # Blank /\ x.name \notin DOMAIN units
  <2>1. DOMAIN u = Fields /\ u.name = x.prefix \o x.unit
    BY DEF Synthesized, Fields
  <2>2. x.name = u.name
    BY <1>2, <2>1, ResolvedName
  <2>3. units' = Put(units, x.name, u) /\ byName' = Put(byName, x.name, u)
    BY <1>2 DEF Intern
  <2> HIDE DEF x, u
  <2>4. x.name \notin DOMAIN byName
    BY <1>1, <1>2 DEF MapsInv
  <2>5. /\ DOMAIN units' = DOMAIN units \cup {x.name}
        /\ DOMAIN byName' = DOMAIN byName \cup {x.name}
        /\ units'[x.name] = u /\ byName'[x.name] = u
        /\ \A k \in DOMAIN units : k # x.name => units'[k] = units[k]
        /\ \A k \in DOMAIN byName : k # x.name => byName'[k] = byName[k]
    BY <2>3 DEF Put
  <2>6. MapsInv'
    BY <1>1, <2>1, <2>5 DEF MapsInv
  <2>7. \A k \in DOMAIN units' : units'[k].name \in DOMAIN byName' \cup refused'
    BY <1>1, <2>2, <2>5
  <2>8. Grows(units, units') /\ Grows(byName, byName')
    BY <1>2, <2>3, <2>4, PutGrows
  <2> QED  BY <2>6, <2>7, <2>8
<1>3. CASE units' = units /\ byName' = byName
  BY <1>1, <1>3, SameGrows DEF MapsInv
<1> QED  BY <1>2, <1>3 DEF Intern

LEMMA BeginParseInv ==
  ASSUME IInv, UNCHANGED onRedefinition, NEW op, NEW e, BeginParse(op, e)
  PROVE  IInv'
<1>1. DOMAIN task' = TaskFields /\ task'.lines \in Seq(Lines)
  BY DEF BeginParse, NoTask, TaskFields
<1> QED  BY <1>1, Outside DEF BeginParse, registry, Begun, Registering

LEMMA ParseNameInv ==
  ASSUME IInv, UNCHANGED onRedefinition, ParseName
  PROVE  IInv' /\ Grows(units, units') /\ Grows(byName, byName')
<1> DEFINE n == Head(task.todo)[1]
<1>1. ~Begun /\ pc = "parse" /\ refused' = refused /\ Intern(Resolve(n))
  BY DEF ParseName, Begun, Registering
<1>2. /\ MapsInv' /\ Grows(units, units') /\ Grows(byName, byName')
      /\ \A k \in DOMAIN units' : units'[k].name \in DOMAIN byName' \cup refused'
  BY <1>1, InternKeeps
<1>3. pc' \in {"idle", "parse"}
  <2>1. CASE IsError(Resolve(n))
    BY <2>1 DEF ParseName
  <2>2. CASE ~IsError(Resolve(n))
    BY <1>1, <2>2 DEF ParseName
  <2> QED  BY <2>1, <2>2
<1>4. DOMAIN task' = TaskFields /\ task'.lines \in Seq(Lines)
  <2>1. DOMAIN task = TaskFields /\ task.lines \in Seq(Lines)
    BY DEF IInv, TaskInv
  <2>2. CASE task' = NoTask
    BY <2>2, NoTaskShape
  <2>3. CASE \E a, b : task' = [task EXCEPT !.todo = a, !.out = b]
    BY <2>1, <2>3, TaskUpdate
  <2> QED  BY <2>2, <2>3 DEF ParseName
<1>5. TaskInv' /\ FreshInv' /\ LeadInv'
  BY <1>2, <1>3, <1>4 DEF TaskInv, FreshInv, LeadInv, Begun, Registering
<1> QED  BY <1>2, <1>5 DEF IInv

LEMMA ParseDoneInv == ASSUME IInv, UNCHANGED onRedefinition, ParseDone PROVE IInv'
BY Outside, NoTaskShape DEF ParseDone, registry, Begun, Registering

LEMMA WalkInv ==
  ASSUME IInv, UNCHANGED onRedefinition, NEW n, Walk(n)
  PROVE  IInv' /\ Grows(units, units') /\ Grows(byName, byName')
<1>1. ~Begun /\ ~Begun' /\ pc = "idle" /\ UNCHANGED <<pc, task, refused>>
  BY DEF Walk, Begun, Registering
<1>2. /\ MapsInv' /\ Grows(units, units') /\ Grows(byName, byName')
      /\ \A k \in DOMAIN units' : units'[k].name \in DOMAIN byName' \cup refused'
  BY <1>1, InternKeeps DEF Walk
<1>3. TaskInv' /\ FreshInv' /\ LeadInv'
  BY <1>1, <1>2 DEF IInv, TaskInv, FreshInv, LeadInv, Begun, Registering
<1> QED  BY <1>2, <1>3 DEF IInv

\* A step that stutters changes nothing the invariant speaks of.
LEMMA StutterInv == ASSUME IInv, UNCHANGED vars PROVE IInv'
BY DEF vars, registry, IInv, MapsInv, LeadInv, TaskInv, FreshInv, Partial, Begun, Registering

\* What one step may change of the maps in a registry that raises.
Growing ==
  /\ Grows(units, units') /\ Grows(byName, byName')
  /\ Grows(prefixes, prefixes') /\ dims \subseteq dims'

LEMMA StepInv ==
  ASSUME IInv, [Next]_vars
  PROVE  IInv' /\ (onRedefinition = "raise" => Growing)
<1>0. UNCHANGED onRedefinition
  BY DEF Next, vars
<1>1. CASE \E file \in File : Load(file)
  BY <1>0, <1>1, LoadStepInv, SameGrows DEF Load, registry, Growing
<1>2. CASE BeginUnit
  BY <1>0, <1>2, BeginUnitInv, SameGrows DEF BeginUnit, registry, Growing
<1>3. CASE BeginPrefix
  BY <1>0, <1>3, BeginPrefixInv, SameGrows DEF BeginPrefix, registry, Growing
<1>4. CASE BeginAlias
  BY <1>0, <1>4, BeginAliasInv, SameGrows DEF BeginAlias, Growing
<1>5. CASE AddDimension
  <2>1. UNCHANGED <<units, byName, prefixes>> /\ dims \subseteq dims'
    BY <1>5 DEF AddDimension
  <2> QED  BY <1>0, <1>5, <2>1, AddDimensionInv, SameGrows DEF Growing
<1>6. CASE BadLine
  BY <1>0, <1>6, BadLineInv, SameGrows DEF BadLine, registry, Growing
<1>7. CASE UnitKey
  BY <1>0, <1>7, UnitKeyInv, SameGrows DEF UnitKey, Growing
<1>8. CASE UnitDone
  <2>1. UNCHANGED <<units, prefixes>> /\ dims \subseteq dims'
    BY <1>8 DEF UnitDone
  <2> QED  BY <1>0, <1>8, <2>1, UnitDoneInv, SameGrows DEF Growing
<1>9. CASE DeltaKey
  BY <1>0, <1>9, DeltaKeyInv, SameGrows DEF DeltaKey, Growing
<1>10. CASE DeltaDone
  BY <1>0, <1>10, DeltaDoneInv, SameGrows DEF DeltaDone, Growing
<1>11. CASE AliasKey
  BY <1>0, <1>11, AliasKeyInv, SameGrows DEF AliasKey, Growing
<1>12. CASE AliasDone
  BY <1>0, <1>12, AliasDoneInv, SameGrows DEF AliasDone, registry, Growing
<1>13. CASE PrefixKey
  BY <1>0, <1>13, PrefixKeyInv, SameGrows DEF PrefixKey, Growing
<1>14. CASE PrefixDone
  BY <1>0, <1>14, PrefixDoneInv, SameGrows DEF PrefixDone, Growing
<1>15. CASE BuildCaches
  BY <1>0, <1>15, BuildCachesInv, SameGrows DEF BuildCaches, registry, Growing
<1>21. CASE IndexUnit
  BY <1>0, <1>21, IndexUnitInv, SameGrows DEF IndexUnit, registry, Growing
<1>22. CASE IndexDone
  BY <1>0, <1>22, IndexDoneInv, SameGrows DEF IndexDone, registry, Growing
<1>16. CASE \E op \in {"ParseUnits", "Parse"}, e \in Lookup : BeginParse(op, e)
  BY <1>0, <1>16, BeginParseInv, SameGrows DEF BeginParse, registry, Growing
<1>17. CASE ParseName
  BY <1>0, <1>17, ParseNameInv, SameGrows DEF ParseName, Growing
<1>18. CASE ParseDone
  BY <1>0, <1>18, ParseDoneInv, SameGrows DEF ParseDone, registry, Growing
<1>19. CASE \E n \in References : Walk(n)
  BY <1>0, <1>19, WalkInv, SameGrows DEF Walk, Growing
<1>20. CASE UNCHANGED vars
  BY <1>20, StutterInv, SameGrows DEF vars, registry, Growing
<1> QED  BY <1>1, <1>2, <1>3, <1>4, <1>5, <1>6, <1>7, <1>8, <1>9, <1>10, <1>11, <1>12,
            <1>13, <1>14, <1>15, <1>16, <1>17, <1>18, <1>19, <1>20, <1>21, <1>22
         DEF Next, LoadStep

\* The inductive invariant holds throughout: how far a registration has come is
\* always told by the keys that are left.
THEOREM RegistrationInvariant == Spec => []IInv
<1>1. Init => IInv
  BY InitInv
<1>2. IInv /\ [Next]_vars => IInv'
  BY StepInv
<1> QED  BY <1>1, <1>2, PTL DEF Spec

\* No spelling leads to a canonical name that r.unitByName does not know, but for
\* names whose registration is under way or was refused half way (registerUnit,
\* maybeAddDelta, addAliases, getName).
THEOREM SpellingsAlwaysLead == Spec => []SpellingsLead
<1>1. IInv => SpellingsLead
  <2> SUFFICES ASSUME IInv PROVE SpellingsLead
    OBVIOUS
  <2>1. Partial \subseteq InProgress
    BY DEF Partial, InProgress, Begun, Registering
  <2> QED  BY <2>1 DEF IInv, MapsInv, LeadInv, SpellingsLead
<1> QED  BY <1>1, RegistrationInvariant, PTL

\* A registry that raises on redefinition never gives a name another meaning,
\* whatever the files define and in whatever order they are loaded and looked up
\* (redef, registerUnit, registerPrefix, addDimension, getName).
THEOREM NothingEverRedefined == Spec => NothingRedefined
<1>1. IInv /\ [Next]_vars =>
        [onRedefinition = "raise" =>
           /\ Grows(units, units') /\ Grows(byName, byName')
           /\ Grows(prefixes, prefixes') /\ dims \subseteq dims']_vars
  BY StepInv DEF Growing
<1> QED  BY <1>1, RegistrationInvariant, PTL DEF Spec, NothingRedefined

-----------------------------------------------------------------------------
(* What the maps hold *)

PrefixDefs == {EmptyPrefix} \cup {line.def : line \in {l \in Lines : l.kind = "prefix"}}

\* r.units, r.unitByName, and the definition in hand.
UnitsInv ==
  /\ \A k \in DOMAIN units : k \in Name /\ IsUnitDef(units[k])
  /\ \A n \in DOMAIN byName : n \in Name /\ IsUnitDef(byName[n]) /\ byName[n].name = n
  /\ pc \in {"unit", "delta", "alias"} => IsUnitDef(task.def)
  /\ pc \in {"unit", "delta"} => task.def.prefix = Blank
  /\ task.keys \in Seq(Name)

\* r.prefixes and r.prefixList: a prefix is entered in the list when all its spellings
\* are in the map, its name first.
PrefixInv ==
  /\ \A p \in DOMAIN prefixes : p \in Name /\ prefixes[p] \in PrefixDefs
  /\ prefixList \in Seq(PrefixDefs)
  /\ \A i \in DOMAIN prefixList : prefixList[i].name \in DOMAIN prefixes
  /\ pc = "prefix" => /\ task.def \in PrefixDefs
                      /\ \/ task.keys = PrefixKeys(task.def)
                         \/ task.def.name \in DOMAIN prefixes

RecordInv ==
  /\ onRedefinition \in Policy
  /\ pc \in {"idle", "line", "unit", "delta", "alias", "prefix", "parse", "index"}
  /\ dims \subseteq Name /\ refused \subseteq DOMAIN units
  /\ loads \in 0..MaxLoads /\ stale \in BOOLEAN

\* r.parseCache, and the container a parse has built so far.
ParseInv ==
  /\ pc = "parse" => task.expr \in Lookup /\ task.todo \in Seq(Name \X Int)
  /\ IsContainer(task.out)
  /\ \A e \in DOMAIN parseCache : e \in Lookup /\ IsContainer(parseCache[e])

\* The delta unit in hand is that of the offset unit entered last.
Differs(d, u) == d.type = "scale" /\ d.scale = u.scale /\ d.ref = u.ref
DeltaInv ==
  /\ \A n \in DOMAIN byName : byName[n].type = "offset" =>
       \/ DeltaName(n) \in refused
       \/ pc = "delta" /\ task.def.name = DeltaName(n)
       \/ /\ DeltaName(n) \in DOMAIN byName
          /\ onRedefinition = "raise" => Differs(byName[DeltaName(n)], byName[n])
  /\ pc = "delta" =>
       /\ task.def.type = "scale"
       /\ onRedefinition = "raise" =>
            \A n \in DOMAIN byName : byName[n].type = "offset" /\ task.def.name = DeltaName(n)
                                       => Differs(task.def, byName[n])

\* The cache is empty while the index of products is built, and so it is when a load
\* that may have redefined a unit succeeds.
DefinedInv ==
  /\ onRedefinition = "raise" \/ (pc \in {"idle", "parse"} /\ ~stale) =>
       \A e \in DOMAIN parseCache : \A n \in DOMAIN parseCache[e] : Defined(n)
  /\ pc = "parse" /\ task.op = "ParseUnits" => \A n \in DOMAIN task.out : Defined(n)
  /\ pc = "index" => parseCache = NoUnits

\* The loop of catalogExprIndex has indexed the products it has passed.
Repeated(S, def) == {def[n].ref : n \in {m \in S : ~Alone(m, S, def)}}
IndexInv ==
  /\ pc = "index" => /\ task.left \subseteq Products
                     /\ task.index = UniqueIndex(Products \ task.left, byName)
                     /\ task.ambiguous = Repeated(Products \ task.left, byName)
  /\ pc \in {"idle", "parse"} /\ ~stale => unitByExpr = UniqueIndex(Products, byName)
  /\ \A e \in DOMAIN unitByExpr : IsContainer(e) /\ unitByExpr[e] \in Name

ContentsInv == /\ IInv /\ UnitsInv /\ PrefixInv /\ RecordInv /\ ParseInv
               /\ DeltaInv /\ SynthesizedCurrent /\ DefinedInv /\ IndexInv

-----------------------------------------------------------------------------
(* Lemmas about the operators *)

\* A nonempty set of natural numbers has a smallest element.
LEMMA LeastNumber ==
  ASSUME NEW T, T \subseteq Nat, T # {}
  PROVE  \E m \in T : \A k \in T : m <= k
<1>1. PICK m \in T : \A k \in T : ~(<<k, m>> \in OpToRel(<, Nat))
  BY NatLessThanWellFounded, WFMin, Zenon
<1>2. ASSUME NEW k \in T PROVE m <= k
  <2>1. ~(k < m)
    BY <1>1 DEF OpToRel
  <2> QED  BY <2>1
<1> QED  BY <1>2

\* The loops of parseUnitName have a first result where they have one.
LEMMA FirstIsOne ==
  ASSUME NEW S, S # {},
         \A r \in S : r.prefix \in Nat /\ r.spelling \in Nat /\ r.plural \in Nat
  PROVE  FirstOf(S) \in S
<1>1. PICK i \in {r.prefix : r \in S} : \A k \in {r.prefix : r \in S} : i <= k
  BY LeastNumber
<1> DEFINE A == {r \in S : r.prefix = i}
<1>2. A # {} /\ A \subseteq S
  BY <1>1
<1>3. PICK j \in {r.spelling : r \in A} : \A k \in {r.spelling : r \in A} : j <= k
  BY <1>2, LeastNumber
<1> DEFINE B == {r \in A : r.spelling = j}
<1>4. B # {} /\ B \subseteq S
  BY <1>3
<1>5. PICK l \in {r.plural : r \in B} : \A k \in {r.plural : r \in B} : l <= k
  <2>1. {r.plural : r \in B} \subseteq Nat /\ {r.plural : r \in B} # {}
    BY <1>4
  <2> QED  BY <2>1, LeastNumber
<1>6. PICK f \in B : f.plural = l
  BY <1>5
<1>7. ASSUME NEW q \in S PROVE ~Before(q, f)
  <2>1. i <= q.prefix /\ f.prefix = i /\ f.spelling = j /\ f.plural = l
    BY <1>1, <1>6
  <2>2. q.prefix = i => j <= q.spelling
    BY <1>3
  <2>3. q.prefix = i /\ q.spelling = j => l <= q.plural
    BY <1>5
  <2> QED  BY <2>1, <2>2, <2>3 DEF Before
<1>8. \E r \in S : \A q \in S : ~Before(q, r)
  BY <1>4, <1>6, <1>7
<1> QED  BY <1>8 DEF FirstOf

\* The spellings of a prefix are a sequence that starts with its name.
LEMMA PrefixKeysStart ==
  ASSUME NEW p \in PrefixDefs
  PROVE  /\ IsPrefixDef(p)
         /\ PrefixKeys(p) \in Seq(Name) /\ PrefixKeys(p) # << >>
         /\ Head(PrefixKeys(p)) = p.name
<1>0. IsPrefixDef(p)
  <2>1. CASE p = EmptyPrefix
    BY <2>1 DEF EmptyPrefix, IsPrefixDef, Name, Blank
  <2>2. CASE \E line \in Lines : line.kind = "prefix" /\ p = line.def
    BY <2>2, FileAssumption DEF Lines
  <2> QED  BY <2>1, <2>2 DEF PrefixDefs
<1> DEFINE mid == IF p.symbol \in {Blank, p.name} THEN << >> ELSE <<p.symbol>>
<1>1. <<p.name>> \in Seq(Name) /\ mid \in Seq(Name) /\ p.aliases \in Seq(Name)
  BY <1>0 DEF IsPrefixDef
<1> DEFINE front == <<p.name>> \o mid
<1>2. front \in Seq(Name) /\ Len(front) >= 1 /\ front[1] = p.name
  <2> HIDE DEF mid
  <2> QED  BY <1>1
<1>3. /\ front \o p.aliases \in Seq(Name) /\ Head(front \o p.aliases) = p.name
      /\ front \o p.aliases # << >>
  <2> HIDE DEF front
  <2>1. /\ front \o p.aliases \in Seq(Name)
        /\ Len(front \o p.aliases) = Len(front) + Len(p.aliases)
        /\ (front \o p.aliases)[1] = front[1]
    BY <1>1, <1>2, ConcatProperties
  <2> QED  BY <2>1, <1>1, <1>2
<1> QED  BY <1>0, <1>3 DEF PrefixKeys

\* UnitsContainer.Add keeps exponents different from zero.
LEMMA AddContainer ==
  ASSUME NEW u, IsContainer(u), NEW n \in Name, NEW e \in Int
  PROVE  IsContainer(Add(u, n, e)) /\ DOMAIN Add(u, n, e) \subseteq DOMAIN u \cup {n}
<1>1. DOMAIN u \subseteq Name /\ \A x \in DOMAIN u : u[x] \in Int \ {0}
  BY DEF IsContainer, IsMap
<1> DEFINE sum == e + (IF n \in DOMAIN u THEN u[n] ELSE 0)
<1>2. sum \in Int
  BY <1>1
<1>3. Add(u, n, e) = IF sum = 0 THEN [x \in DOMAIN u \ {n} |-> u[x]] ELSE Put(u, n, sum)
  BY DEF Add
<1> HIDE DEF sum
<1>4. /\ DOMAIN Add(u, n, e) \subseteq DOMAIN u \cup {n}
      /\ \A x \in DOMAIN Add(u, n, e) : Add(u, n, e)[x] \in Int \ {0}
  BY <1>1, <1>2, <1>3 DEF Put
<1> QED  BY <1>1, <1>4 DEF IsContainer, IsMap

\* No units at all are a container.
LEMMA EmptyContainer == IsContainer(NoUnits)
BY DEF IsContainer, IsMap, NoUnits

\* The delta unit of a unit is a unit, of the same size and reference.
LEMMA DeltaDefined ==
  ASSUME NEW u, IsUnitDef(u)
  PROVE  /\ IsUnitDef(Delta(u)) /\ Delta(u).name = DeltaName(u.name)
         /\ Delta(u).prefix = Blank /\ Differs(Delta(u), u)
<1>1. Keyed(u)
  BY DEF IsUnitDef, Keyed
<1>2. Keyed(Delta(u))
  BY <1>1, DeltaKeyed
<1>3. /\ Delta(u).name = DeltaName(u.name) /\ Delta(u).prefix = Blank
      /\ Delta(u).type = "scale" /\ Delta(u).scale = u.scale /\ Delta(u).ref = u.ref
  BY DEF Delta
<1>4. Blank \in Name /\ u.scale \in Nat /\ IsContainer(u.ref)
  BY DEF Blank, Name, IsUnitDef
<1> QED  BY <1>2, <1>3, <1>4 DEF Keyed, IsUnitDef, Differs

\* Two units have the same difference only if they have the same name.
LEMMA DeltaNameInjective ==
  ASSUME NEW m \in Name, NEW n \in Name, DeltaName(m) = DeltaName(n)
  PROVE  m = n
<1>1. /\ Len(DeltaName(m)) = 1 + Len(m) /\ Len(DeltaName(n)) = 1 + Len(n)
      /\ \A i \in 1..Len(m) : DeltaName(m)[i + 1] = m[i]
      /\ \A i \in 1..Len(n) : DeltaName(n)[i + 1] = n[i]
  BY OptionAssumption DEF DeltaName, Name
<1>2. Len(m) = Len(n) /\ \A i \in 1..Len(m) : m[i] = n[i]
  BY <1>1 DEF Name
<1> QED  BY <1>2, SeqEqual DEF Name

-----------------------------------------------------------------------------
(* Looking names up *)

\* What a lookup may find: a name that is defined, or a prefix and a unit.
FoundHere(x) ==
  /\ x.name \in Name
  /\ x.name = Blank \/ x.prefix # Blank \/ x.name \in DOMAIN units
  /\ x.prefix # Blank => /\ x.prefix \in DOMAIN prefixes /\ x.unit \in DOMAIN units
                         /\ x.prefix \in Name /\ x.unit \in Name
                         /\ x.name = x.prefix \o x.unit

\* The canonical name behind a spelling is a spelling too.
LEMMA CanonicalDefined ==
  ASSUME IInv, UnitsInv, RecordInv, ~Begun, NEW k \in DOMAIN units
  PROVE  units[k].name \in DOMAIN units /\ units[k].name \in Name
<1>1. units[k].name \in DOMAIN byName \cup refused
  BY DEF IInv, LeadInv, Partial
<1>2. units[k].name \in DOMAIN units
  BY <1>1 DEF IInv, MapsInv, RecordInv
<1> QED  BY <1>2 DEF UnitsInv

\* parseUnitName chooses one of its candidates, where it has any.
LEMMA ChosenCandidate ==
  ASSUME PrefixInv, NEW name, Candidates(name) # {}
  PROVE  /\ Chosen(name) \in Candidates(name)
         /\ Chosen(name).prefix \in DOMAIN prefixList
         /\ Core(name, Chosen(name)) \in DOMAIN units
<1> DEFINE all == Candidates(name)
           S == IF {r \in all : IsPrefixed(r)} # {} THEN {r \in all : IsPrefixed(r)} ELSE all
<1>1. S # {} /\ S \subseteq all
  OBVIOUS
<1>2. ASSUME NEW r \in all
      PROVE  /\ r.prefix \in Nat /\ r.spelling \in Nat /\ r.plural \in Nat
             /\ r.prefix \in DOMAIN prefixList /\ Core(name, r) \in DOMAIN units
  <2>1. r \in Readings /\ Core(name, r) \in DOMAIN units
    BY DEF Candidates
  <2>2. PICK i \in DOMAIN prefixList :
          r \in [prefix : {i}, spelling : DOMAIN PrefixKeys(prefixList[i]), plural : {0, 1}]
    BY <2>1 DEF Readings
  <2>3. prefixList \in Seq(PrefixDefs)
    BY DEF PrefixInv
  <2>4. prefixList[i] \in PrefixDefs /\ i \in Nat
    BY <2>3
  <2>5. PrefixKeys(prefixList[i]) \in Seq(Name)
    BY <2>4, PrefixKeysStart
  <2>6. DOMAIN PrefixKeys(prefixList[i]) \subseteq Nat
    BY <2>5
  <2>7. /\ r.prefix = i /\ r.plural \in {0, 1}
        /\ r.spelling \in DOMAIN PrefixKeys(prefixList[i])
    BY <2>2
  <2> QED  BY <2>1, <2>4, <2>6, <2>7
<1>3. Chosen(name) = FirstOf(S)
  BY DEF Chosen
<1> HIDE DEF S, all
<1>4. FirstOf(S) \in S
  BY <1>1, <1>2, FirstIsOne
<1> QED  BY <1>1, <1>2, <1>3, <1>4 DEF all

\* A lookup that succeeds finds what is defined.
LEMMA ResolveTyped ==
  ASSUME IInv, UnitsInv, PrefixInv, RecordInv, ~Begun, NEW name, ~IsError(Resolve(name))
  PROVE  FoundHere(Resolve(name))
<1> USE DEF Found
<1>1. CASE name = <<"dimensionless">>
  BY <1>1 DEF Resolve, FoundHere, Blank, Name
<1>2. CASE name # <<"dimensionless">> /\ name \in DOMAIN units
  <2>1. Resolve(name) = Found(units[name].name, Blank, Blank)
    BY <1>2 DEF Resolve
  <2>2. units[name].name \in DOMAIN units /\ units[name].name \in Name
    BY <1>2, CanonicalDefined
  <2> QED  BY <2>1, <2>2 DEF FoundHere
<1>3. CASE name # <<"dimensionless">> /\ name \notin DOMAIN units
  <2> DEFINE r == Chosen(name)
             p == prefixList[r.prefix].name
             u == units[Core(name, r)].name
  <2>1. Candidates(name) # {}
    BY <1>3 DEF Resolve, Undefined, IsError
  <2>2. r.prefix \in DOMAIN prefixList /\ Core(name, r) \in DOMAIN units
    BY <2>1, ChosenCandidate
  <2>3. p \in DOMAIN prefixes /\ p \in Name
    BY <2>2 DEF PrefixInv
  <2>4. u \in DOMAIN units /\ u \in Name
    BY <2>2, CanonicalDefined
  <2>5. Resolve(name) = IF p = Blank THEN Found(u, Blank, Blank)
                        ELSE IF u \in DOMAIN byName /\ ~Multiplicative(byName[u]) THEN OffsetError
                        ELSE Found(p \o u, p, u)
    BY <1>3, <2>1 DEF Resolve
  <2> HIDE DEF r, p, u
  <2>6. p \o u \in Name
    BY <2>3, <2>4 DEF Name
  <2>7. CASE p = Blank
    BY <2>4, <2>5, <2>7 DEF FoundHere
  <2>8. CASE p # Blank
    <3>1. Resolve(name) # OffsetError
      BY DEF IsError, OffsetError
    <3>2. Resolve(name) = Found(p \o u, p, u)
      BY <2>5, <2>8, <3>1
    <3> QED  BY <2>3, <2>4, <2>6, <2>8, <3>2 DEF FoundHere
  <2> QED  BY <2>7, <2>8
<1> QED  BY <1>1, <1>2, <1>3

\* A prefixed unit that enters the catalog: new, and made from what is there.
Entered(n, d) ==
  /\ n \notin DOMAIN units /\ n \notin DOMAIN byName /\ n \in Name
  /\ units' = Put(units, n, d) /\ byName' = Put(byName, n, d)
  /\ IsUnitDef(d) /\ d.name = n /\ d.type = "scale"
  /\ d.prefix \in DOMAIN prefixes /\ d.scale = prefixes[d.prefix].scale
  /\ \E u \in DOMAIN units : d.ref = [x \in {u} |-> 1]

\* getName changes nothing, or enters one new unit made from what is there.
LEMMA InternEffect ==
  ASSUME IInv, UnitsInv, PrefixInv, RecordInv, ~Begun, NEW name, Intern(Resolve(name))
  PROVE  \/ units' = units /\ byName' = byName
         \/ \E n, d : Entered(n, d)
<1> DEFINE x == Resolve(name)
           d == Synthesized(x.prefix, x.unit)
<1> SUFFICES ASSUME ~IsError(x), x.prefix # Blank, x.name \notin DOMAIN units
             PROVE  Entered(x.name, d)
  BY DEF Intern
<1>1. FoundHere(x)
  BY ResolveTyped
<1>2. units' = Put(units, x.name, d) /\ byName' = Put(byName, x.name, d)
  BY DEF Intern
<1>3. /\ DOMAIN d = Fields /\ d.name = x.prefix \o x.unit /\ d.symbol = Blank
      /\ d.aliases = << >> /\ d.type = "scale" /\ d.scale = prefixes[x.prefix].scale
      /\ d.ref = [n \in {x.unit} |-> 1] /\ d.prefix = x.prefix
  BY DEF Synthesized, Fields
<1> HIDE DEF x, d
<1>4. x.prefix \in DOMAIN prefixes /\ prefixes[x.prefix].scale \in Nat
  <2>1. x.prefix \in DOMAIN prefixes
    BY <1>1 DEF FoundHere
  <2>2. prefixes[x.prefix] \in PrefixDefs
    BY <2>1 DEF PrefixInv
  <2> QED  BY <2>1, <2>2, PrefixKeysStart DEF IsPrefixDef
<1>5. x.unit \in DOMAIN units /\ x.unit \in Name /\ x.prefix \in Name
      /\ x.name = x.prefix \o x.unit /\ x.name \in Name
  BY <1>1 DEF FoundHere
<1>6. IsContainer(d.ref)
  BY <1>3, <1>5 DEF IsContainer, IsMap
<1>7. IsUnitDef(d)
  <2>1. Blank \in Name /\ << >> \in Seq(Name)
    BY DEF Blank, Name
  <2> QED  BY <1>3, <1>4, <1>5, <1>6, <2>1 DEF IsUnitDef
<1>8. x.name \notin DOMAIN byName
  BY DEF IInv, MapsInv
<1> QED  BY <1>2, <1>3, <1>4, <1>5, <1>7, <1>8 DEF Entered
-----------------------------------------------------------------------------
(* What a step does to the local variables of the call *)

\* A call that begins has nothing in hand.
LEMMA NoTaskFields ==
  /\ NoTask.keys = << >> /\ NoTask.out = NoUnits /\ NoTask.left = {}
  /\ NoTask.index = NoUnits /\ NoTask.ambiguous = {} /\ DOMAIN NoTask = TaskFields
  /\ NoTask.op = "none"
BY DEF NoTask, TaskFields

\* A registration writes to its own fields, and so does a parse and so does the loop
\* over the catalog.
LEMMA TaskAfter ==
  ASSUME NEW t, DOMAIN t = TaskFields, NEW a, NEW b, NEW c
  PROVE  /\ LET s == [t EXCEPT !.keys = a]
            IN  s.keys = a /\ s.def = t.def /\ s.out = t.out
         /\ LET s == [t EXCEPT !.lines = a]
            IN  s.def = t.def /\ s.keys = t.keys /\ s.out = t.out
         /\ LET s == [t EXCEPT !.def = a, !.keys = b]
            IN  s.def = a /\ s.keys = b /\ s.out = t.out
         /\ LET s == [t EXCEPT !.lines = a, !.def = b, !.keys = c]
            IN  s.def = b /\ s.keys = c /\ s.out = t.out
         /\ LET s == [t EXCEPT !.todo = a, !.out = b]
            IN  /\ s.todo = a /\ s.out = b /\ s.keys = t.keys
                /\ s.expr = t.expr /\ s.op = t.op
         /\ LET s == [t EXCEPT !.op = a, !.expr = b, !.todo = c]
            IN  s.op = a /\ s.expr = b /\ s.todo = c /\ s.out = t.out /\ s.keys = t.keys
         /\ LET s == [t EXCEPT !.left = a]
            IN  /\ s.left = a /\ s.index = t.index /\ s.ambiguous = t.ambiguous
                /\ s.keys = t.keys /\ s.out = t.out
BY DEF TaskFields

\* What a step leaves in hand, action by action.
LEMMA InHand ==
  ASSUME IInv
  PROVE  /\ \A file : Load(file) => task'.keys = << >> /\ task'.out = NoUnits
         /\ BeginUnit => /\ task'.def = Line.def /\ task'.keys = UnitKeys(Line.def)
                         /\ task'.out = task.out
         /\ BeginPrefix => /\ task'.def = Line.def /\ task'.keys = PrefixKeys(Line.def)
                           /\ task'.out = task.out
         /\ AddDimension => \/ task' = NoTask /\ pc' = "idle"
                            \/ task'.keys = task.keys /\ task'.out = task.out /\ pc' = "line"
         /\ UnitDone => /\ \/ /\ pc' = "delta" /\ task'.def = Delta(task.def)
                              /\ task'.keys = UnitKeys(Delta(task.def))
                           \/ pc' = "line" /\ task' = task
                        /\ task'.out = task.out
         /\ NextKey => /\ task'.keys = Tail(task.keys) /\ task'.def = task.def
                       /\ task'.out = task.out
         /\ BuildCaches => /\ task'.keys = << >> /\ task'.out = NoUnits
                           /\ task'.left = Products /\ task'.index = NoUnits
                           /\ task'.ambiguous = {}
         /\ \A op, e : BeginParse(op, e) =>
              /\ task'.keys = << >> /\ task'.out = NoUnits /\ task'.op = op
              /\ task'.expr = e /\ task'.todo = e
<1> DOMAIN task = TaskFields
  BY DEF IInv, TaskInv
<1>1. \A file : Load(file) => task'.keys = << >> /\ task'.out = NoUnits
  BY NoTaskFields, TaskAfter DEF Load
<1>2. BeginUnit => /\ task'.def = Line.def /\ task'.keys = UnitKeys(Line.def)
                   /\ task'.out = task.out
  BY TaskAfter DEF BeginUnit
<1>3. BeginPrefix => /\ task'.def = Line.def /\ task'.keys = PrefixKeys(Line.def)
                     /\ task'.out = task.out
  BY TaskAfter DEF BeginPrefix
<1>4. AddDimension => \/ task' = NoTask /\ pc' = "idle"
                      \/ task'.keys = task.keys /\ task'.out = task.out /\ pc' = "line"
  <2> SUFFICES ASSUME AddDimension, ~(task' = NoTask /\ pc' = "idle")
               PROVE  task'.keys = task.keys /\ task'.out = task.out /\ pc' = "line"
    OBVIOUS
  <2>1. task' = [task EXCEPT !.lines = Rest] /\ pc' = pc /\ pc = "line"
    BY DEF AddDimension, Abandon, AtLine
  <2> QED  BY <2>1, TaskAfter
<1>5. UnitDone => /\ \/ /\ pc' = "delta" /\ task'.def = Delta(task.def)
                        /\ task'.keys = UnitKeys(Delta(task.def))
                     \/ pc' = "line" /\ task' = task
                  /\ task'.out = task.out
  <2> SUFFICES ASSUME UnitDone, ~(pc' = "line" /\ task' = task)
               PROVE  /\ pc' = "delta" /\ task'.def = Delta(task.def)
                      /\ task'.keys = UnitKeys(Delta(task.def)) /\ task'.out = task.out
    BY DEF UnitDone
  <2>1. PICK d : d = Delta(task.def)
    OBVIOUS
  <2>2. pc' = "delta" /\ task' = [task EXCEPT !.def = d, !.keys = UnitKeys(d)]
    BY <2>1 DEF UnitDone
  <2> QED  BY <2>1, <2>2, TaskAfter
<1>6. NextKey => /\ task'.keys = Tail(task.keys) /\ task'.def = task.def
                 /\ task'.out = task.out
  BY TaskAfter DEF NextKey
<1>7. BuildCaches => /\ task'.keys = << >> /\ task'.out = NoUnits
                     /\ task'.left = Products /\ task'.index = NoUnits
                     /\ task'.ambiguous = {}
  BY NoTaskFields, TaskAfter DEF BuildCaches
<1>8. \A op, e : BeginParse(op, e) =>
        /\ task'.keys = << >> /\ task'.out = NoUnits /\ task'.op = op
        /\ task'.expr = e /\ task'.todo = e
  BY NoTaskFields, TaskAfter DEF BeginParse
<1> QED  BY <1>1, <1>2, <1>3, <1>4, <1>5, <1>6, <1>7, <1>8

\* An index step, in terms of what the loop has passed.
LEMMA IndexUnitHand ==
  ASSUME IInv, IndexUnit
  PROVE  /\ task'.keys = task.keys /\ task'.out = task.out
         /\ \E n \in task.left :
              LET key == byName[n].ref
              IN  /\ task'.left = task.left \ {n}
                  /\ \/ /\ key \in task.ambiguous
                        /\ task'.index = task.index /\ task'.ambiguous = task.ambiguous
                     \/ /\ key \in DOMAIN task.index /\ key \notin task.ambiguous
                        /\ task'.index = [k \in DOMAIN task.index \ {key} |-> task.index[k]]
                        /\ task'.ambiguous = task.ambiguous \cup {key}
                     \/ /\ key \notin DOMAIN task.index /\ key \notin task.ambiguous
                        /\ task'.index = Put(task.index, key, n)
                        /\ task'.ambiguous = task.ambiguous
<1>1. PICK n \in task.left : task' = [Indexed(task, n) EXCEPT !.left = @ \ {n}]
  BY DEF IndexUnit
<1> DEFINE key == byName[n].ref
           a == [k \in DOMAIN task.index \ {key} |-> task.index[k]]
           b == task.ambiguous \cup {key}
           c == Put(task.index, key, n)
<1>2. \/ key \in task.ambiguous /\ Indexed(task, n) = task
      \/ /\ key \in DOMAIN task.index /\ key \notin task.ambiguous
         /\ Indexed(task, n) = [task EXCEPT !.index = a, !.ambiguous = b]
      \/ /\ key \notin DOMAIN task.index /\ key \notin task.ambiguous
         /\ Indexed(task, n) = [task EXCEPT !.index = c]
  BY DEF Indexed
<1> PICK t : t = Indexed(task, n)
  OBVIOUS
<1> HIDE DEF key, a, b, c
<1>3. DOMAIN task = TaskFields
  BY DEF IInv, TaskInv
<1>4. /\ DOMAIN t = TaskFields /\ t.keys = task.keys /\ t.out = task.out /\ t.left = task.left
      /\ \/ key \in task.ambiguous /\ t.index = task.index /\ t.ambiguous = task.ambiguous
         \/ /\ key \in DOMAIN task.index /\ key \notin task.ambiguous
            /\ t.index = a /\ t.ambiguous = b
         \/ /\ key \notin DOMAIN task.index /\ key \notin task.ambiguous
            /\ t.index = c /\ t.ambiguous = task.ambiguous
  BY <1>2, <1>3 DEF TaskFields
<1>5. /\ task'.left = t.left \ {n} /\ task'.index = t.index /\ task'.ambiguous = t.ambiguous
      /\ task'.keys = t.keys /\ task'.out = t.out
  BY <1>1, <1>4, TaskAfter
<1> QED  BY <1>4, <1>5 DEF key, a, b, c

\* A name that is read and what is done with it.
LEMMA ParseNameHand ==
  ASSUME IInv, ParseName, NEW x, x = Resolve(Head(task.todo)[1]),
         NEW n, n = IF task.op = "ParseUnits"
                    THEN DeltaIfCompound(x.name, Head(task.todo)[2], Len(task.expr)) ELSE x.name
  PROVE  \/ /\ IsError(x) /\ task' = NoTask /\ pc' = "idle" /\ task'.keys = << >>
            /\ task'.out = NoUnits
         \/ /\ ~IsError(x) /\ pc' = "parse" /\ task'.todo = Tail(task.todo)
            /\ task'.keys = task.keys /\ task'.expr = task.expr /\ task'.op = task.op
            /\ task'.out = IF x.name = Blank THEN task.out
                           ELSE Add(task.out, n, Head(task.todo)[2])
<1> PICK out : out = IF x.name = Blank THEN task.out ELSE Add(task.out, n, Head(task.todo)[2])
  OBVIOUS
<1>1. pc = "parse"
  BY DEF ParseName
<1>2. CASE IsError(x)
  <2>1. pc' = "idle" /\ task' = NoTask
    BY <1>2 DEF ParseName
  <2> QED  BY <1>2, <2>1, NoTaskFields
<1>3. CASE ~IsError(x)
  <2>1. task' = [task EXCEPT !.todo = Tail(task.todo), !.out = out] /\ pc' = pc
    BY <1>3 DEF ParseName
  <2>2. DOMAIN task = TaskFields
    BY DEF IInv, TaskInv
  <2> QED  BY <1>1, <1>3, <2>1, <2>2, TaskAfter
<1> QED  BY <1>2, <1>3
-----------------------------------------------------------------------------
(* Each part is kept by every step *)

\* What the lines of a file are.
LEMMA LineTyped ==
  ASSUME NEW line \in Lines
  PROVE  /\ line.kind = "unit" => IsUnitDef(line.def) /\ line.def.prefix = Blank
         /\ line.kind = "prefix" => line.def \in PrefixDefs
         /\ line.kind = "alias" => line.name \in Name /\ line.aliases \in Seq(Name)
         /\ line.kind = "dimension" => line.name \in Name
BY FileAssumption DEF Lines, PrefixDefs

\* The keys of a unit are names, its own the first.
LEMMA UnitKeysTyped ==
  ASSUME NEW u, IsUnitDef(u)
  PROVE  UnitKeys(u) \in Seq(Name) /\ UnitKeys(u) # << >> /\ Head(UnitKeys(u)) = u.name
BY KeysStart DEF IsUnitDef, Keyed

\* A unit with more aliases is a unit, and the same one but for them.
LEMMA MoreAliases ==
  ASSUME NEW u, IsUnitDef(u), NEW al \in Seq(Name)
  PROVE  LET v == [u EXCEPT !.aliases = al]
         IN  /\ IsUnitDef(v) /\ v.name = u.name /\ v.type = u.type /\ v.scale = u.scale
             /\ v.ref = u.ref /\ v.prefix = u.prefix
<1> DEFINE v == [u EXCEPT !.aliases = al]
<1>1. /\ DOMAIN v = Fields /\ v.name = u.name /\ v.type = u.type /\ v.scale = u.scale
      /\ v.ref = u.ref /\ v.prefix = u.prefix /\ v.symbol = u.symbol /\ v.aliases = al
  BY DEF IsUnitDef, Fields
<1> HIDE DEF v
<1>2. IsUnitDef(v)
  BY <1>1 DEF IsUnitDef
<1> QED  BY <1>1, <1>2 DEF v

\* Of a map that shares a definition every entry keeps all but its aliases.
SameUnit(v, u) == /\ v.name = u.name /\ v.type = u.type /\ v.scale = u.scale
                  /\ v.ref = u.ref /\ v.prefix = u.prefix
\* An alias line fails, or gives one unit more aliases under all its spellings.
LEMMA BeginAliasEffect ==
  ASSUME IInv, UnitsInv, BeginAlias
  PROVE  \/ Abandon /\ UNCHANGED <<units, byName>>
         \/ /\ pc' = "alias" /\ UNCHANGED stale
            /\ IsUnitDef(task'.def) /\ task'.keys \in Seq(Name) /\ task'.out = task.out
            /\ DOMAIN units' = DOMAIN units /\ DOMAIN byName' = DOMAIN byName
            /\ \A k \in DOMAIN units : IsUnitDef(units'[k]) /\ SameUnit(units'[k], units[k])
            /\ \A k \in DOMAIN byName : IsUnitDef(byName'[k]) /\ SameUnit(byName'[k], byName[k])
<1>1. CASE Line.name \notin DOMAIN units
  BY <1>1 DEF BeginAlias
<1>2. CASE Line.name \in DOMAIN units
  <2> DEFINE u == units[Line.name]
             al == u.aliases \o Line.aliases
             v == [u EXCEPT !.aliases = al]
  <2>1. /\ units' = Shared(units, u, v) /\ byName' = Shared(byName, u, v)
        /\ pc' = "alias" /\ stale' = stale
        /\ task' = [task EXCEPT !.lines = Rest, !.def = v, !.keys = Line.aliases]
    BY <1>2 DEF BeginAlias
  <2>2. IsUnitDef(u) /\ Line.aliases \in Seq(Name)
    <3>1. Line \in Lines /\ Line.kind = "alias"
      BY NextLine DEF BeginAlias, AtLine
    <3> QED  BY <1>2, <3>1, LineTyped DEF UnitsInv
  <2>3. al \in Seq(Name)
    BY <2>2 DEF IsUnitDef
  <2> HIDE DEF al, u
  <2>4. IsUnitDef(v) /\ SameUnit(v, u)
    BY <2>2, <2>3, MoreAliases DEF SameUnit
  <2> PICK w : w = v
    OBVIOUS
  <2> HIDE DEF v
  <2>5. task'.def = w /\ task'.keys = Line.aliases /\ task'.out = task.out
    BY <2>1, TaskAfter DEF IInv, TaskInv
  <2>6. /\ DOMAIN units' = DOMAIN units /\ DOMAIN byName' = DOMAIN byName
        /\ \A k \in DOMAIN units : units'[k] = IF units[k] = u THEN w ELSE units[k]
        /\ \A k \in DOMAIN byName : byName'[k] = IF byName[k] = u THEN w ELSE byName[k]
    BY <2>1 DEF Shared
  <2>7. \A k \in DOMAIN units : IsUnitDef(units'[k]) /\ SameUnit(units'[k], units[k])
    BY <2>4, <2>6 DEF UnitsInv, SameUnit
  <2>8. \A k \in DOMAIN byName : IsUnitDef(byName'[k]) /\ SameUnit(byName'[k], byName[k])
    BY <2>4, <2>6 DEF UnitsInv, SameUnit
  <2> QED  BY <2>1, <2>2, <2>4, <2>5, <2>6, <2>7, <2>8
<1> QED  BY <1>1, <1>2

\* A call that ends has no keys in hand.
LEMMA UnitsRest ==
  ASSUME UnitsInv, UNCHANGED <<units, byName>>, pc' \notin {"unit", "delta", "alias"},
         task'.keys \in Seq(Name)
  PROVE  UnitsInv'
BY DEF UnitsInv

\* A line that fails leaves the units as they are.
LEMMA UnitsAbandon ==
  ASSUME UnitsInv, UNCHANGED <<units, byName>>, Abandon
  PROVE  UnitsInv'
BY UnitsRest, NoTaskFields DEF Abandon

\* The next key is a name.
LEMMA KeyTyped ==
  ASSUME UnitsInv, task.keys # << >>
  PROVE  Key \in Name /\ Tail(task.keys) \in Seq(Name)
BY DEF UnitsInv, Key

\* One more spelling of the unit in hand.
LEMMA UnitsKey ==
  ASSUME IInv, UnitsInv, task.keys # << >>, NextKey, pc \in {"unit", "delta", "alias"},
         units' = Put(units, Key, task.def), UNCHANGED <<pc, byName>>
  PROVE  UnitsInv'
<1>1. task'.keys = Tail(task.keys) /\ task'.def = task.def
  BY InHand
<1>2. IsUnitDef(task.def) /\ Key \in Name /\ Tail(task.keys) \in Seq(Name)
  BY KeyTyped DEF UnitsInv
<1>3. \A k \in DOMAIN units' : k \in Name /\ IsUnitDef(units'[k])
  <2>1. /\ DOMAIN units' = DOMAIN units \cup {Key} /\ units'[Key] = task.def
        /\ \A x \in DOMAIN units : x # Key => units'[x] = units[x]
    BY DEF Put
  <2> QED  BY <1>2, <2>1 DEF UnitsInv
<1> QED  BY <1>1, <1>2, <1>3 DEF UnitsInv

\* A lookup enters units only.
LEMMA UnitsIntern ==
  ASSUME IInv, UnitsInv, PrefixInv, RecordInv, ~Begun, NEW name, Intern(Resolve(name)),
         pc' \notin {"unit", "delta", "alias"}, task'.keys \in Seq(Name)
  PROVE  UnitsInv'
<1>1. CASE units' = units /\ byName' = byName
  BY <1>1, UnitsRest
<1>2. ASSUME NEW n, NEW d, Entered(n, d)
      PROVE  UnitsInv'
  <2>1. /\ n \in Name /\ IsUnitDef(d) /\ d.name = n
        /\ units' = Put(units, n, d) /\ byName' = Put(byName, n, d)
    BY <1>2 DEF Entered
  <2>0. /\ DOMAIN units' = DOMAIN units \cup {n} /\ units'[n] = d
        /\ \A x \in DOMAIN units : x # n => units'[x] = units[x]
        /\ DOMAIN byName' = DOMAIN byName \cup {n} /\ byName'[n] = d
        /\ \A x \in DOMAIN byName : x # n => byName'[x] = byName[x]
    BY <2>1 DEF Put
  <2>2. \A k \in DOMAIN units' : k \in Name /\ IsUnitDef(units'[k])
    BY <2>0, <2>1 DEF UnitsInv
  <2>3. \A k \in DOMAIN byName' :
          k \in Name /\ IsUnitDef(byName'[k]) /\ byName'[k].name = k
    BY <2>0, <2>1 DEF UnitsInv
  <2> QED  BY <2>2, <2>3 DEF UnitsInv
<1> QED  BY <1>1, <1>2, InternEffect

\* The definition maps hold definitions of their kind.
LEMMA UnitsStep ==
  ASSUME IInv, UnitsInv, PrefixInv, RecordInv, Next
  PROVE  UnitsInv'
<1> USE DEF registry, caches
<1>0. << >> \in Seq(Name) /\ task.keys \in Seq(Name)
  BY DEF UnitsInv
<1>1. CASE \E file \in File : Load(file)
  BY <1>0, <1>1, InHand, UnitsRest DEF Load
<1>2. CASE BeginUnit
  <2>1. Line \in Lines /\ Line.kind = "unit" /\ pc' = "unit" /\ UNCHANGED <<units, byName>>
    BY <1>2, NextLine DEF BeginUnit, AtLine
  <2>2. task'.def = Line.def /\ task'.keys = UnitKeys(Line.def)
    BY <1>2, InHand
  <2>3. IsUnitDef(Line.def) /\ Line.def.prefix = Blank /\ UnitKeys(Line.def) \in Seq(Name)
    BY <2>1, LineTyped, UnitKeysTyped
  <2> QED  BY <2>1, <2>2, <2>3 DEF UnitsInv
<1>3. CASE BeginPrefix
  <2>1. Line \in Lines /\ Line.kind = "prefix" /\ pc' = "prefix" /\ UNCHANGED <<units, byName>>
    BY <1>3, NextLine DEF BeginPrefix, AtLine
  <2>2. task'.keys = PrefixKeys(Line.def)
    BY <1>3, InHand
  <2>3. PrefixKeys(Line.def) \in Seq(Name)
    BY <2>1, LineTyped, PrefixKeysStart
  <2> QED  BY <2>1, <2>2, <2>3, UnitsRest
<1>4. CASE BeginAlias
  <2>1. CASE Abandon /\ UNCHANGED <<units, byName>>
    BY <2>1, UnitsAbandon
  <2>2. CASE /\ pc' = "alias" /\ UNCHANGED stale
             /\ IsUnitDef(task'.def) /\ task'.keys \in Seq(Name) /\ task'.out = task.out
             /\ DOMAIN units' = DOMAIN units /\ DOMAIN byName' = DOMAIN byName
             /\ \A k \in DOMAIN units : IsUnitDef(units'[k]) /\ SameUnit(units'[k], units[k])
             /\ \A k \in DOMAIN byName : IsUnitDef(byName'[k]) /\ SameUnit(byName'[k], byName[k])
    <3>1. \A k \in DOMAIN units' : k \in Name /\ IsUnitDef(units'[k])
      BY <2>2 DEF UnitsInv
    <3>2. \A k \in DOMAIN byName' :
            k \in Name /\ IsUnitDef(byName'[k]) /\ byName'[k].name = k
      BY <2>2 DEF UnitsInv, SameUnit
    <3> QED  BY <2>2, <3>1, <3>2 DEF UnitsInv
  <2> QED  BY <1>4, <2>1, <2>2, BeginAliasEffect
<1>5. CASE AddDimension
  <2>1. task'.keys \in Seq(Name) /\ pc' \in {"idle", "line"}
    BY <1>0, <1>5, InHand, NoTaskFields
  <2> QED  BY <1>5, <2>1, UnitsRest DEF AddDimension
<1>6. CASE BadLine
  BY <1>6, UnitsAbandon DEF BadLine
<1>7. CASE UnitKey
  <2>1. CASE RefuseTaken(Key, units)
    BY <1>7, <2>1, UnitsAbandon DEF UnitKey
  <2>2. CASE ~RefuseTaken(Key, units)
    BY <1>7, <2>2, UnitsKey DEF UnitKey
  <2> QED  BY <2>1, <2>2
<1>8. CASE UnitDone
  <2>1. /\ IsUnitDef(task.def) /\ task.def.prefix = Blank /\ units' = units
        /\ byName' = Put(byName, task.def.name, task.def)
    BY <1>8 DEF UnitDone, UnitsInv
  <2>0. /\ DOMAIN byName' = DOMAIN byName \cup {task.def.name}
        /\ byName'[task.def.name] = task.def
        /\ \A x \in DOMAIN byName : x # task.def.name => byName'[x] = byName[x]
    BY <2>1 DEF Put
  <2>2. \A k \in DOMAIN byName' :
          k \in Name /\ IsUnitDef(byName'[k]) /\ byName'[k].name = k
    BY <2>0, <2>1 DEF UnitsInv, IsUnitDef
  <2>3. CASE pc' = "line" /\ task' = task
    BY <1>0, <2>1, <2>2, <2>3 DEF UnitsInv
  <2>4. CASE /\ pc' = "delta" /\ task'.def = Delta(task.def)
             /\ task'.keys = UnitKeys(Delta(task.def))
    <3>1. /\ IsUnitDef(Delta(task.def)) /\ Delta(task.def).prefix = Blank
          /\ UnitKeys(Delta(task.def)) \in Seq(Name)
      BY <2>1, DeltaDefined, UnitKeysTyped
    <3> QED  BY <2>1, <2>2, <2>4, <3>1 DEF UnitsInv
  <2> QED  BY <1>8, <2>3, <2>4, InHand
<1>9. CASE DeltaKey
  <2>1. CASE RefuseTaken(Key, units)
    BY <1>0, <1>9, <2>1, UnitsRest DEF DeltaKey
  <2>2. CASE ~RefuseTaken(Key, units)
    BY <1>9, <2>2, UnitsKey DEF DeltaKey
  <2> QED  BY <2>1, <2>2
<1>10. CASE DeltaDone
  <2>1. /\ IsUnitDef(task.def) /\ units' = units /\ pc' = "line" /\ task' = task
        /\ byName' = Put(byName, task.def.name, task.def)
    BY <1>10 DEF DeltaDone, UnitsInv
  <2>0. /\ DOMAIN byName' = DOMAIN byName \cup {task.def.name}
        /\ byName'[task.def.name] = task.def
        /\ \A x \in DOMAIN byName : x # task.def.name => byName'[x] = byName[x]
    BY <2>1 DEF Put
  <2>2. \A k \in DOMAIN byName' :
          k \in Name /\ IsUnitDef(byName'[k]) /\ byName'[k].name = k
    BY <2>0, <2>1 DEF UnitsInv, IsUnitDef
  <2> QED  BY <1>0, <2>1, <2>2 DEF UnitsInv
<1>11. CASE AliasKey
  <2>1. CASE RefuseTaken(Key, units)
    BY <1>11, <2>1, UnitsAbandon DEF AliasKey
  <2>2. CASE ~RefuseTaken(Key, units)
    BY <1>11, <2>2, UnitsKey DEF AliasKey
  <2> QED  BY <2>1, <2>2
<1>12. CASE AliasDone
  BY <1>0, <1>12, UnitsRest DEF AliasDone
<1>13. CASE PrefixKey
  <2>1. CASE RefuseTaken(Key, prefixes)
    BY <1>13, <2>1, UnitsAbandon DEF PrefixKey
  <2>2. CASE ~RefuseTaken(Key, prefixes)
    BY <1>13, <2>2, InHand, KeyTyped, UnitsRest DEF PrefixKey
  <2> QED  BY <2>1, <2>2
<1>14. CASE PrefixDone
  BY <1>0, <1>14, UnitsRest DEF PrefixDone
<1>15. CASE BuildCaches
  BY <1>0, <1>15, InHand, UnitsRest DEF BuildCaches
<1>16. CASE IndexUnit
  BY <1>0, <1>16, IndexUnitHand, UnitsRest DEF IndexUnit
<1>17. CASE IndexDone \/ ParseDone
  BY <1>0, <1>17, NoTaskFields, UnitsRest DEF IndexDone, ParseDone
<1>18. CASE \E op \in {"ParseUnits", "Parse"}, e \in Lookup : BeginParse(op, e)
  BY <1>0, <1>18, InHand, UnitsRest DEF BeginParse
<1>19. CASE ParseName
  <2>1. task'.keys \in Seq(Name) /\ pc' \in {"idle", "parse"}
    BY <1>0, <1>19, ParseNameHand
  <2> QED  BY <1>19, <2>1, UnitsIntern DEF ParseName, Begun, Registering
<1>20. CASE \E n \in References : Walk(n)
  BY <1>0, <1>20, UnitsIntern DEF Walk, Begun, Registering
<1> QED  BY <1>1, <1>2, <1>3, <1>4, <1>5, <1>6, <1>7, <1>8, <1>9, <1>10, <1>11, <1>12,
            <1>13, <1>14, <1>15, <1>16, <1>17, <1>18, <1>19, <1>20 DEF Next, LoadStep

\* No step takes a name away.
LEMMA NamesStay ==
  ASSUME Next
  PROVE  DOMAIN units \subseteq DOMAIN units' /\ DOMAIN byName \subseteq DOMAIN byName'
<1> USE DEF registry, caches
<1>1. ASSUME NEW f, NEW k, NEW v PROVE DOMAIN f \subseteq DOMAIN Put(f, k, v)
  BY DEF Put
<1>2. ASSUME NEW x, Intern(x)
      PROVE  DOMAIN units \subseteq DOMAIN units' /\ DOMAIN byName \subseteq DOMAIN byName'
  BY <1>1, <1>2 DEF Intern
<1>3. CASE BeginAlias
  <2>1. ASSUME NEW u, NEW v, units' = Shared(units, u, v), byName' = Shared(byName, u, v)
        PROVE  DOMAIN units' = DOMAIN units /\ DOMAIN byName' = DOMAIN byName
    BY <2>1 DEF Shared
  <2>2. CASE UNCHANGED <<units, byName>>
    BY <2>2
  <2>3. CASE ~UNCHANGED <<units, byName>>
    <3>1. \E u, v : units' = Shared(units, u, v) /\ byName' = Shared(byName, u, v)
      BY <1>3, <2>3 DEF BeginAlias
    <3> QED  BY <2>1, <3>1
  <2> QED  BY <2>2, <2>3
<1>4. CASE \/ \E file \in File : Load(file)
           \/ BeginUnit \/ BeginPrefix \/ AddDimension \/ BadLine \/ AliasDone
           \/ PrefixKey \/ PrefixDone \/ BuildCaches \/ IndexUnit \/ IndexDone \/ ParseDone
           \/ \E op \in {"ParseUnits", "Parse"}, e \in Lookup : BeginParse(op, e)
  BY <1>4 DEF Load, BeginUnit, BeginPrefix, AddDimension, BadLine, AliasDone, PrefixKey,
              PrefixDone, BuildCaches, IndexUnit, IndexDone, ParseDone, BeginParse
<1>5. CASE UnitKey \/ DeltaKey \/ AliasKey
  BY <1>1, <1>5 DEF UnitKey, DeltaKey, AliasKey
<1>6. CASE UnitDone \/ DeltaDone
  BY <1>1, <1>6 DEF UnitDone, DeltaDone
<1>7. CASE ParseName \/ \E n \in References : Walk(n)
  BY <1>2, <1>7 DEF ParseName, Walk
<1> QED  BY <1>3, <1>4, <1>5, <1>6, <1>7 DEF Next, LoadStep

\* A name on record as refused has been registered or was taken.
LEMMA RefusedStay ==
  ASSUME IInv, RecordInv, Next
  PROVE  refused' \subseteq DOMAIN units'
<1> USE DEF registry, caches
<1>0. refused \subseteq DOMAIN units'
  BY NamesStay DEF RecordInv
<1>1. CASE UnitKey
  <2>1. task.keys # UnitKeys(task.def) => task.def.name \in DOMAIN units
    BY <1>1 DEF UnitKey, IInv, TaskInv, Begun, Registering
  <2>2. task.keys # UnitKeys(task.def) => task.def.name \in DOMAIN units'
    BY <2>1, NamesStay
  <2> QED  BY <1>0, <1>1, <2>2 DEF UnitKey
<1>2. CASE DeltaKey
  <2>1. CASE RefuseTaken(Key, units)
    <3>1. Keyed(task.def)
      BY <1>2 DEF DeltaKey, IInv, TaskInv, Registering
    <3>4. task.def.name \in DOMAIN units
      <4>1. CASE Begun
        BY <4>1 DEF IInv, TaskInv
      <4>2. CASE ~Begun
        <5>1. Key = task.def.name
          BY <1>2, <3>1, <4>2, KeysStart DEF DeltaKey, Begun, Registering, Key
        <5> QED  BY <2>1, <5>1 DEF RefuseTaken
      <4> QED  BY <4>1, <4>2
    <3>5. task.def.name \in DOMAIN units'
      BY <3>4, NamesStay
    <3> QED  BY <1>0, <1>2, <2>1, <3>5 DEF DeltaKey
  <2>2. CASE ~RefuseTaken(Key, units)
    BY <1>0, <1>2, <2>2 DEF DeltaKey
  <2> QED  BY <2>1, <2>2
<1>3. CASE refused' = refused
  BY <1>0, <1>3
<1>4. CASE \/ \E file \in File : Load(file)
           \/ BeginUnit \/ BeginPrefix \/ BeginAlias \/ AddDimension \/ BadLine \/ AliasKey
           \/ AliasDone \/ PrefixKey \/ PrefixDone \/ UnitDone \/ DeltaDone
           \/ BuildCaches \/ IndexUnit \/ IndexDone \/ ParseName \/ ParseDone
           \/ \E op \in {"ParseUnits", "Parse"}, e \in Lookup : BeginParse(op, e)
           \/ \E n \in References : Walk(n)
  <2>1. refused' = refused
    BY <1>4 DEF Load, BeginUnit, BeginPrefix, BeginAlias, AddDimension, BadLine, AliasKey,
                AliasDone, PrefixKey, PrefixDone, UnitDone, DeltaDone, BuildCaches, IndexUnit,
                IndexDone, ParseName, ParseDone, BeginParse, Walk
  <2> QED  BY <1>3, <2>1
<1> QED  BY <1>1, <1>2, <1>4 DEF Next, LoadStep

\* The names on record are names, and the counters stay in their bounds.
LEMMA RecordStep ==
  ASSUME IInv, UnitsInv, RecordInv, Next
  PROVE  RecordInv'
<1> USE DEF registry, caches
<1> DEFINE PlaceOk == pc' \in {"idle", "line", "unit", "delta", "alias", "prefix", "parse", "index"}
           CountOk == loads' \in 0..MaxLoads /\ stale' \in BOOLEAN
<1>0. /\ onRedefinition' \in Policy /\ dims \subseteq Name /\ loads \in 0..MaxLoads
      /\ stale \in BOOLEAN /\ MaxLoads \in Nat
      /\ pc \in {"idle", "line", "unit", "delta", "alias", "prefix", "parse", "index"}
  BY OptionAssumption DEF RecordInv, Next
<1>1. CASE \E file \in File : Load(file)
  BY <1>0, <1>1, RefusedStay DEF Load, RecordInv
<1>2. CASE \/ BeginUnit \/ BeginPrefix \/ BadLine \/ AliasKey
           \/ AliasDone \/ PrefixKey \/ PrefixDone \/ DeltaDone \/ UnitKey \/ DeltaKey
  <2>1. dims' = dims /\ PlaceOk /\ CountOk
    BY <1>0, <1>2 DEF BeginUnit, BeginPrefix, BadLine, AliasKey, AliasDone, PrefixKey,
                      PrefixDone, DeltaDone, UnitKey, DeltaKey, Abandon
  <2> QED  BY <1>0, <2>1, RefusedStay DEF RecordInv
<1>3. CASE \/ BuildCaches \/ IndexUnit \/ IndexDone \/ ParseName \/ ParseDone \/ BeginAlias
           \/ \E op \in {"ParseUnits", "Parse"}, e \in Lookup : BeginParse(op, e)
           \/ \E n \in References : Walk(n)
  <2>1. dims' = dims /\ CountOk
    BY <1>0, <1>3 DEF BuildCaches, IndexUnit, IndexDone, ParseName, ParseDone, BeginAlias,
                      BeginParse, Walk, Abandon
  <2>2. CASE ParseName
    <3>1. PlaceOk
      BY <1>0, <2>2, ParseNameHand
    <3> QED  BY <1>0, <2>1, <3>1, RefusedStay DEF RecordInv
  <2>3. CASE ~ParseName
    <3>1. PlaceOk
      BY <1>0, <1>3, <2>3 DEF BuildCaches, IndexUnit, IndexDone, ParseDone, BeginAlias,
                              BeginParse, Walk, Abandon
    <3> QED  BY <1>0, <2>1, <3>1, RefusedStay DEF RecordInv
  <2> QED  BY <2>2, <2>3
<1>4. CASE AddDimension
  <2>1. Line.name \in Name
    BY <1>4, NextLine, LineTyped DEF AddDimension, AtLine
  <2>2. dims' \subseteq Name /\ PlaceOk /\ CountOk
    BY <1>0, <1>4, <2>1 DEF AddDimension, Abandon
  <2> QED  BY <1>0, <2>2, RefusedStay DEF RecordInv
<1>5. CASE UnitDone
  <2>1. DOMAIN task.def.ref \subseteq Name
    BY <1>5 DEF UnitDone, UnitsInv, IsUnitDef, IsContainer, IsMap
  <2>2. dims' \subseteq Name /\ PlaceOk /\ CountOk
    BY <1>0, <1>5, <2>1 DEF UnitDone
  <2> QED  BY <1>0, <2>2, RefusedStay DEF RecordInv
<1> QED  BY <1>1, <1>2, <1>3, <1>4, <1>5 DEF Next, LoadStep

\* The prefixes are those of the files, each under all its spellings.
LEMMA PrefixRest ==
  ASSUME PrefixInv, UNCHANGED <<prefixes, prefixList>>, pc' # "prefix"
  PROVE  PrefixInv'
BY DEF PrefixInv

\* Every prefix of the list is in the map under its name.
LEMMA PrefixStep ==
  ASSUME IInv, UnitsInv, PrefixInv, Next
  PROVE  PrefixInv'
<1> USE DEF registry, caches
<1>1. CASE BeginPrefix
  <2>1. Line \in Lines /\ Line.kind = "prefix" /\ UNCHANGED <<prefixes, prefixList>>
    BY <1>1, NextLine DEF BeginPrefix, AtLine
  <2>2. task'.def = Line.def /\ task'.keys = PrefixKeys(Line.def)
    BY <1>1, InHand
  <2>3. Line.def \in PrefixDefs
    BY <2>1, LineTyped
  <2> QED  BY <2>1, <2>2, <2>3 DEF PrefixInv
<1>2. CASE PrefixKey /\ ~RefuseTaken(Key, prefixes)
  <2>1. prefixes' = Put(prefixes, Key, task.def) /\ prefixList' = prefixList
        /\ pc = "prefix" /\ pc' = "prefix" /\ NextKey /\ task.keys # << >>
    BY <1>2 DEF PrefixKey
  <2>2. task'.def = task.def /\ Key \in Name /\ task.def \in PrefixDefs
    BY <2>1, InHand, KeyTyped DEF PrefixInv
  <2>3. /\ DOMAIN prefixes' = DOMAIN prefixes \cup {Key} /\ prefixes'[Key] = task.def
        /\ \A x \in DOMAIN prefixes : x # Key => prefixes'[x] = prefixes[x]
    BY <2>1 DEF Put
  <2>4. task.def.name \in DOMAIN prefixes'
    <3>1. CASE task.keys = PrefixKeys(task.def)
      BY <2>2, <2>3, <3>1, PrefixKeysStart DEF Key
    <3>2. CASE task.def.name \in DOMAIN prefixes
      BY <2>3, <3>2
    <3> QED  BY <2>1, <3>1, <3>2 DEF PrefixInv
  <2>5. \A p \in DOMAIN prefixes' : p \in Name /\ prefixes'[p] \in PrefixDefs
    BY <2>2, <2>3 DEF PrefixInv
  <2>6. \A i \in DOMAIN prefixList' : prefixList'[i].name \in DOMAIN prefixes'
    BY <2>1, <2>3 DEF PrefixInv
  <2> QED  BY <2>1, <2>2, <2>4, <2>5, <2>6 DEF PrefixInv
<1>3. CASE PrefixKey /\ RefuseTaken(Key, prefixes)
  BY <1>3, PrefixRest DEF PrefixKey, Abandon
<1>4. CASE PrefixDone
  <2>1. /\ prefixList' = Append(prefixList, task.def) /\ prefixes' = prefixes
        /\ pc = "prefix" /\ pc' = "line" /\ task.keys = << >>
    BY <1>4 DEF PrefixDone
  <2>2. task.def \in PrefixDefs /\ task.def.name \in DOMAIN prefixes
    BY <2>1, PrefixKeysStart DEF PrefixInv
  <2>3. prefixList \in Seq(PrefixDefs)
    BY DEF PrefixInv
  <2>4. prefixList' \in Seq(PrefixDefs)
    BY <2>1, <2>2, <2>3
  <2>5. \A i \in DOMAIN prefixList' :
          \/ i \in DOMAIN prefixList /\ prefixList'[i] = prefixList[i]
          \/ prefixList'[i] = task.def
    BY <2>1, <2>2, <2>3
  <2>6. \A i \in DOMAIN prefixList' : prefixList'[i].name \in DOMAIN prefixes
    BY <2>2, <2>5 DEF PrefixInv
  <2> QED  BY <2>1, <2>4, <2>6 DEF PrefixInv
<1>5. CASE \/ \E file \in File : Load(file)
           \/ BeginUnit \/ BeginAlias \/ BadLine \/ AliasDone \/ UnitDone \/ DeltaDone
           \/ BuildCaches \/ IndexUnit \/ IndexDone \/ ParseDone
           \/ \E op \in {"ParseUnits", "Parse"}, e \in Lookup : BeginParse(op, e)
           \/ \E n \in References : Walk(n)
  <2>1. UNCHANGED <<prefixes, prefixList>> /\ pc' # "prefix"
    BY <1>5 DEF Load, BeginUnit, BeginAlias, BadLine, AliasDone, UnitDone, DeltaDone,
                BuildCaches, IndexUnit, IndexDone, ParseDone, BeginParse, Walk, Abandon
  <2> QED  BY <2>1, PrefixRest
<1>6. CASE AddDimension \/ UnitKey \/ DeltaKey \/ AliasKey
  <2>1. UNCHANGED <<prefixes, prefixList>> /\ pc' # "prefix"
    BY <1>6 DEF AddDimension, UnitKey, DeltaKey, AliasKey, Abandon, AtLine
  <2> QED  BY <2>1, PrefixRest
<1>7. CASE ParseName
  <2>1. UNCHANGED <<prefixes, prefixList>> /\ pc' # "prefix"
    BY <1>7, ParseNameHand DEF ParseName
  <2> QED  BY <2>1, PrefixRest
<1> QED  BY <1>1, <1>2, <1>3, <1>4, <1>5, <1>6, <1>7 DEF Next, LoadStep

-----------------------------------------------------------------------------
(* Containers *)

\* A parse ends or goes on with what it has built.
LEMMA ParseRest ==
  ASSUME ParseInv, UNCHANGED parseCache, pc' # "parse", IsContainer(task'.out)
  PROVE  ParseInv'
BY DEF ParseInv

\* The name an offset unit gets in a product is a name.
LEMMA CompoundName ==
  ASSUME NEW n \in Name, NEW e, NEW size
  PROVE  DeltaIfCompound(n, e, size) \in Name
BY OptionAssumption DEF DeltaIfCompound, DeltaName, Name

\* Containers have names and exponents different from zero.
LEMMA ParseStep ==
  ASSUME IInv, UnitsInv, PrefixInv, RecordInv, ParseInv, Next
  PROVE  ParseInv'
<1> USE DEF registry, caches
<1>0. IsContainer(task.out) /\ IsContainer(NoUnits) /\ NoTask.out = NoUnits
  BY EmptyContainer, NoTaskFields DEF ParseInv
<1>1. CASE \E file \in File : Load(file)
  BY <1>0, <1>1, InHand, ParseRest DEF Load
<1>2. CASE BeginUnit \/ BeginPrefix \/ AddDimension
  <2>1. IsContainer(task'.out) /\ pc' # "parse" /\ parseCache' = parseCache
    BY <1>0, <1>2, InHand DEF BeginUnit, BeginPrefix, AddDimension
  <2> QED  BY <2>1, ParseRest
<1>3. CASE BeginAlias
  <2>1. IsContainer(task'.out) /\ pc' # "parse" /\ parseCache' = parseCache
    BY <1>0, <1>3, BeginAliasEffect DEF BeginAlias, Abandon
  <2> QED  BY <2>1, ParseRest
<1>4. CASE BadLine \/ AliasDone \/ DeltaDone \/ PrefixDone \/ IndexDone
  <2>1. IsContainer(task'.out) /\ pc' # "parse" /\ parseCache' = parseCache
    BY <1>0, <1>4 DEF BadLine, AliasDone, DeltaDone, PrefixDone, IndexDone, Abandon
  <2> QED  BY <2>1, ParseRest
<1>5. CASE UnitKey \/ DeltaKey \/ AliasKey \/ PrefixKey
  <2>1. IsContainer(task'.out) /\ pc' # "parse" /\ parseCache' = parseCache
    BY <1>0, <1>5, InHand DEF UnitKey, DeltaKey, AliasKey, PrefixKey, Abandon
  <2> QED  BY <2>1, ParseRest
<1>6. CASE UnitDone
  <2>1. IsContainer(task'.out) /\ pc' # "parse" /\ parseCache' = parseCache
    BY <1>0, <1>6, InHand DEF UnitDone
  <2> QED  BY <2>1, ParseRest
<1>7. CASE BuildCaches
  <2>1. parseCache' = NoUnits /\ pc' = "index" /\ IsContainer(task'.out)
    BY <1>0, <1>7, InHand DEF BuildCaches
  <2> QED  BY <2>1 DEF ParseInv, NoUnits
<1>8. CASE IndexUnit
  <2>1. IsContainer(task'.out) /\ pc' # "parse" /\ parseCache' = parseCache
    BY <1>0, <1>8, IndexUnitHand DEF IndexUnit
  <2> QED  BY <2>1, ParseRest
<1>9. ASSUME NEW op, NEW e \in Lookup, BeginParse(op, e)
      PROVE  ParseInv'
  <2>1. e \in Seq(Name \X Int)
    BY LookupAssumption
  <2>2. task'.expr = e /\ task'.todo = e /\ task'.out = NoUnits
    BY <1>9, InHand
  <2>3. parseCache' = parseCache
    BY <1>9 DEF BeginParse
  <2> QED  BY <1>0, <2>1, <2>2, <2>3 DEF ParseInv
<1>10. CASE ParseName
  <2> DEFINE name == Head(task.todo)[1]
             e == Head(task.todo)[2]
  <2>0. parseCache' = parseCache /\ pc = "parse" /\ ~Begun /\ task.todo # << >>
    BY <1>10 DEF ParseName, Begun, Registering
  <2>1. PICK x : x = Resolve(name)
    OBVIOUS
  <2>2. PICK n : n = IF task.op = "ParseUnits"
                     THEN DeltaIfCompound(x.name, e, Len(task.expr)) ELSE x.name
    OBVIOUS
  <2>3. /\ task.todo \in Seq(Name \X Int) /\ task.expr \in Lookup
        /\ Head(task.todo) \in Name \X Int /\ Tail(task.todo) \in Seq(Name \X Int)
    <3>1. task.todo \in Seq(Name \X Int) /\ task.expr \in Lookup
      BY <2>0 DEF ParseInv
    <3> QED  BY <2>0, <3>1
  <2>4. e \in Int
    BY <2>3
  <2>5. CASE IsError(x)
    BY <1>0, <1>10, <2>0, <2>1, <2>2, <2>5, ParseNameHand, ParseRest
  <2>6. CASE ~IsError(x)
    <3>1. FoundHere(x)
      BY <2>0, <2>1, <2>6, ResolveTyped
    <3>2. n \in Name
      BY <2>2, <3>1, CompoundName DEF FoundHere
    <3>3. IsContainer(Add(task.out, n, e))
      BY <1>0, <2>4, <3>2, AddContainer
    <3>4. /\ task'.todo = Tail(task.todo) /\ task'.expr = task.expr
          /\ task'.out = IF x.name = Blank THEN task.out ELSE Add(task.out, n, e)
      BY <1>10, <2>1, <2>2, <2>6, ParseNameHand
    <3> QED  BY <1>0, <2>0, <2>3, <3>3, <3>4 DEF ParseInv
  <2> QED  BY <2>5, <2>6
<1>11. CASE ParseDone
  <2>1. /\ pc = "parse" /\ pc' = "idle" /\ task' = NoTask
        /\ \/ parseCache' = Put(parseCache, task.expr, task.out)
           \/ parseCache' = parseCache
    BY <1>11 DEF ParseDone
  <2>2. task.expr \in Lookup
    BY <2>1 DEF ParseInv
  <2>3. CASE parseCache' = parseCache
    BY <1>0, <2>1, <2>3, ParseRest
  <2>4. CASE parseCache' = Put(parseCache, task.expr, task.out)
    <3>1. /\ DOMAIN parseCache' = DOMAIN parseCache \cup {task.expr}
          /\ parseCache'[task.expr] = task.out
          /\ \A x \in DOMAIN parseCache : x # task.expr => parseCache'[x] = parseCache[x]
      BY <2>4 DEF Put
    <3> QED  BY <1>0, <2>1, <2>2, <3>1 DEF ParseInv
  <2> QED  BY <2>1, <2>3, <2>4
<1>12. CASE \E n \in References : Walk(n)
  BY <1>12 DEF Walk, ParseInv
<1> QED  BY <1>1, <1>2, <1>3, <1>4, <1>5, <1>6, <1>7, <1>8, <1>9, <1>10, <1>11, <1>12
         DEF Next, LoadStep

-----------------------------------------------------------------------------
(* Differences of offset units *)

\* A step that enters no unit and registers no difference.
LEMMA DeltaRest ==
  ASSUME DeltaInv, UNCHANGED <<onRedefinition, byName>>, refused \subseteq refused',
         \/ pc # "delta" /\ pc' # "delta"
         \/ pc = "delta" /\ pc' = "delta" /\ task'.def = task.def
         \/ pc = "delta" /\ pc' # "delta" /\ task.def.name \in refused'
  PROVE  DeltaInv'
BY DEF DeltaInv

\* A step after which every unit is what it was but for its aliases, or is a new one
\* with a name of its own that is no offset unit.
LEMMA DeltaKept ==
  ASSUME DeltaInv, UNCHANGED <<onRedefinition, refused>>, pc # "delta", pc' # "delta",
         DOMAIN byName \subseteq DOMAIN byName',
         \A n \in DOMAIN byName : SameUnit(byName'[n], byName[n]),
         \A n \in DOMAIN byName' \ DOMAIN byName : byName'[n].type # "offset"
  PROVE  DeltaInv'
<1>1. ASSUME NEW n \in DOMAIN byName', byName'[n].type = "offset"
      PROVE  \/ DeltaName(n) \in refused'
             \/ /\ DeltaName(n) \in DOMAIN byName'
                /\ onRedefinition' = "raise" => Differs(byName'[DeltaName(n)], byName'[n])
  <2>1. n \in DOMAIN byName /\ byName[n].type = "offset"
    BY <1>1 DEF SameUnit
  <2>2. \/ DeltaName(n) \in refused
        \/ /\ DeltaName(n) \in DOMAIN byName
           /\ onRedefinition = "raise" => Differs(byName[DeltaName(n)], byName[n])
    BY <2>1 DEF DeltaInv
  <2>3. SameUnit(byName'[n], byName[n])
    BY <2>1
  <2>4. CASE DeltaName(n) \in refused
    BY <2>4
  <2>5. CASE /\ DeltaName(n) \in DOMAIN byName
             /\ onRedefinition = "raise" => Differs(byName[DeltaName(n)], byName[n])
    <3>1. SameUnit(byName'[DeltaName(n)], byName[DeltaName(n)])
      BY <2>5
    <3>2. DeltaName(n) \in DOMAIN byName'
      BY <2>5
    <3> QED  BY <2>3, <2>5, <3>1, <3>2 DEF SameUnit, Differs
  <2> QED  BY <2>2, <2>4, <2>5
<1> QED  BY <1>1 DEF DeltaInv

\* A lookup takes no difference away.
LEMMA DeltaIntern ==
  ASSUME IInv, UnitsInv, PrefixInv, RecordInv, DeltaInv, ~Begun, UNCHANGED <<onRedefinition, refused>>,
         NEW name, Intern(Resolve(name)), pc # "delta", pc' # "delta"
  PROVE  DeltaInv'
<1>1. CASE units' = units /\ byName' = byName
  BY <1>1, DeltaRest
<1>2. ASSUME NEW n, NEW d, Entered(n, d)
      PROVE  DeltaInv'
  <2>1. n \notin DOMAIN byName /\ byName' = Put(byName, n, d) /\ d.type = "scale"
    BY <1>2 DEF Entered
  <2>2. /\ DOMAIN byName' = DOMAIN byName \cup {n} /\ byName'[n] = d
        /\ \A x \in DOMAIN byName : x # n => byName'[x] = byName[x]
    BY <2>1 DEF Put
  <2>3. \A x \in DOMAIN byName : SameUnit(byName'[x], byName[x])
    BY <2>1, <2>2 DEF SameUnit
  <2>4. \A x \in DOMAIN byName' \ DOMAIN byName : byName'[x].type # "offset"
    BY <2>1, <2>2
  <2> QED  BY <2>2, <2>3, <2>4, DeltaKept
<1> QED  BY <1>1, <1>2, InternEffect

\* An offset unit that is entered puts its difference in hand.
LEMMA DeltaUnitDone ==
  ASSUME IInv, UnitsInv, DeltaInv, UNCHANGED onRedefinition, UnitDone
  PROVE  DeltaInv'
<1> PICK u : u = task.def
  OBVIOUS
<1>1. /\ pc = "unit" /\ byName' = Put(byName, u.name, u) /\ refused' = refused
      /\ IsUnitDef(u)
      /\ \/ pc' = "delta" /\ u.type = "offset"
         \/ pc' = "line" /\ u.type # "offset"
  BY DEF UnitDone, UnitsInv
<1>2. onRedefinition = "raise" => u.name \notin DOMAIN byName
  BY NameEntered DEF UnitDone, Registering
<1>3. /\ DOMAIN byName' = DOMAIN byName \cup {u.name} /\ byName'[u.name] = u
      /\ \A x \in DOMAIN byName : x # u.name => byName'[x] = byName[x]
  BY <1>1 DEF Put
<1>4. u.name \in Name /\ \A n \in DOMAIN byName : n \in Name
  BY <1>1 DEF UnitsInv, IsUnitDef
<1>5. ASSUME NEW n \in DOMAIN byName, n # u.name, byName[n].type = "offset"
      PROVE  \/ DeltaName(n) \in refused'
             \/ /\ DeltaName(n) \in DOMAIN byName'
                /\ onRedefinition' = "raise" => Differs(byName'[DeltaName(n)], byName'[n])
  <2>1. \/ DeltaName(n) \in refused
        \/ /\ DeltaName(n) \in DOMAIN byName
           /\ onRedefinition = "raise" => Differs(byName[DeltaName(n)], byName[n])
    BY <1>1, <1>5 DEF DeltaInv
  <2>2. CASE onRedefinition = "raise" /\ DeltaName(n) \in DOMAIN byName
    <3>1. byName'[DeltaName(n)] = byName[DeltaName(n)] /\ byName'[n] = byName[n]
      BY <1>2, <1>3, <1>5, <2>2
    <3> QED  BY <1>1, <1>3, <2>1, <2>2, <3>1
  <2> QED  BY <1>1, <1>3, <2>1, <2>2
<1>6. CASE pc' = "line" /\ u.type # "offset"
  <2>1. ASSUME NEW n \in DOMAIN byName', byName'[n].type = "offset"
        PROVE  n \in DOMAIN byName /\ n # u.name /\ byName[n].type = "offset"
    BY <1>3, <1>6, <2>1
  <2> QED  BY <1>5, <1>6, <2>1 DEF DeltaInv
<1>7. CASE pc' = "delta" /\ u.type = "offset"
  <2>1. task'.def = Delta(u)
    BY <1>7, InHand
  <2>2. Delta(u).name = DeltaName(u.name) /\ Differs(Delta(u), u)
    BY <1>1, DeltaDefined
  <2> PICK d : d = Delta(u)
    OBVIOUS
  <2>3. task'.def = d /\ d.name = DeltaName(u.name) /\ Differs(d, u) /\ d.type = "scale"
    BY <2>1, <2>2 DEF Differs
  <2>4. ASSUME NEW n \in DOMAIN byName', d.name = DeltaName(n) PROVE n = u.name
    BY <1>3, <1>4, <2>3, <2>4, DeltaNameInjective
  <2>5. ASSUME NEW n \in DOMAIN byName', n # u.name, byName'[n].type = "offset"
        PROVE  n \in DOMAIN byName /\ byName[n].type = "offset"
    BY <1>3, <2>5
  <2>6. \A n \in DOMAIN byName' : byName'[n].type = "offset" =>
          \/ DeltaName(n) \in refused'
          \/ task'.def.name = DeltaName(n)
          \/ /\ DeltaName(n) \in DOMAIN byName'
             /\ onRedefinition' = "raise" => Differs(byName'[DeltaName(n)], byName'[n])
    BY <1>5, <2>3, <2>5
  <2>7. \A n \in DOMAIN byName' : task'.def.name = DeltaName(n) => Differs(task'.def, byName'[n])
    BY <1>3, <2>3, <2>4
  <2> QED  BY <1>7, <2>3, <2>6, <2>7 DEF DeltaInv
<1> QED  BY <1>1, <1>6, <1>7

\* ... and the difference is entered next.
LEMMA DeltaDeltaDone ==
  ASSUME IInv, UnitsInv, DeltaInv, UNCHANGED onRedefinition, DeltaDone
  PROVE  DeltaInv'
<1> PICK d : d = task.def
  OBVIOUS
<1>1. /\ pc = "delta" /\ byName' = Put(byName, d.name, d) /\ refused' = refused
      /\ pc' = "line" /\ d.type = "scale"
  BY DEF DeltaDone, DeltaInv
<1>2. onRedefinition = "raise" => d.name \notin DOMAIN byName
  BY NameEntered DEF DeltaDone, Registering
<1>3. /\ DOMAIN byName' = DOMAIN byName \cup {d.name} /\ byName'[d.name] = d
      /\ \A x \in DOMAIN byName : x # d.name => byName'[x] = byName[x]
  BY <1>1 DEF Put
<1>4. ASSUME NEW n \in DOMAIN byName', byName'[n].type = "offset"
      PROVE  \/ DeltaName(n) \in refused'
             \/ /\ DeltaName(n) \in DOMAIN byName'
                /\ onRedefinition' = "raise" => Differs(byName'[DeltaName(n)], byName'[n])
  <2>1. n \in DOMAIN byName /\ n # d.name /\ byName'[n] = byName[n] /\ byName[n].type = "offset"
    BY <1>1, <1>3, <1>4
  <2>2. CASE d.name = DeltaName(n)
    <3>1. onRedefinition = "raise" => Differs(d, byName[n])
      BY <1>1, <2>1, <2>2 DEF DeltaInv
    <3> QED  BY <1>3, <2>1, <2>2, <3>1
  <2>3. CASE d.name # DeltaName(n)
    <3>1. \/ DeltaName(n) \in refused
          \/ /\ DeltaName(n) \in DOMAIN byName
             /\ onRedefinition = "raise" => Differs(byName[DeltaName(n)], byName[n])
      BY <2>1, <2>3 DEF DeltaInv
    <3> QED  BY <1>1, <1>3, <2>1, <2>3, <3>1
  <2> QED  BY <2>2, <2>3
<1> QED  BY <1>1, <1>4 DEF DeltaInv

\* Every offset unit has its difference, or the one in hand is it.
LEMMA DeltaStep ==
  ASSUME IInv, UnitsInv, PrefixInv, RecordInv, DeltaInv, Next
  PROVE  DeltaInv'
<1> USE DEF registry, caches
<1>0. UNCHANGED onRedefinition
  BY DEF Next
<1>1. CASE \/ \E file \in File : Load(file)
           \/ BeginUnit \/ BeginPrefix \/ BadLine \/ AliasKey \/ AliasDone \/ PrefixKey
           \/ PrefixDone \/ BuildCaches \/ IndexUnit \/ IndexDone \/ ParseDone
           \/ \E op \in {"ParseUnits", "Parse"}, e \in Lookup : BeginParse(op, e)
  <2>1. UNCHANGED <<byName, refused>> /\ pc # "delta" /\ pc' # "delta"
    BY <1>1 DEF Load, BeginUnit, BeginPrefix, BadLine, AliasKey, AliasDone, PrefixKey,
                PrefixDone, BuildCaches, IndexUnit, IndexDone, ParseDone, BeginParse, Abandon,
                AtLine
  <2> QED  BY <1>0, <2>1, DeltaRest
<1>2. CASE AddDimension \/ UnitKey
  <2>1. byName' = byName /\ refused \subseteq refused' /\ pc # "delta" /\ pc' # "delta"
    BY <1>2 DEF AddDimension, UnitKey, Abandon, AtLine
  <2> QED  BY <1>0, <2>1, DeltaRest
<1>3. CASE BeginAlias
  <2>1. refused' = refused /\ pc # "delta" /\ pc' # "delta"
    BY <1>3 DEF BeginAlias, Abandon, AtLine
  <2>2. /\ DOMAIN byName' = DOMAIN byName
        /\ \A n \in DOMAIN byName : SameUnit(byName'[n], byName[n])
    BY <1>3, BeginAliasEffect DEF SameUnit
  <2> QED  BY <1>0, <2>1, <2>2, DeltaKept
<1>4. CASE UnitDone
  BY <1>0, <1>4, DeltaUnitDone
<1>5. CASE DeltaKey
  <2>1. CASE RefuseTaken(Key, units)
    BY <1>0, <1>5, <2>1, DeltaRest DEF DeltaKey
  <2>2. CASE ~RefuseTaken(Key, units)
    BY <1>0, <1>5, <2>2, InHand, DeltaRest DEF DeltaKey
  <2> QED  BY <2>1, <2>2
<1>6. CASE DeltaDone
  BY <1>0, <1>6, DeltaDeltaDone
<1>7. CASE ParseName
  <2>1. pc' # "delta" /\ pc # "delta" /\ ~Begun /\ refused' = refused
    BY <1>7, ParseNameHand DEF ParseName, Begun, Registering
  <2> QED  BY <1>0, <1>7, <2>1, DeltaIntern DEF ParseName
<1>8. CASE \E n \in References : Walk(n)
  BY <1>0, <1>8, DeltaIntern DEF Walk, Begun, Registering
<1> QED  BY <1>1, <1>2, <1>3, <1>4, <1>5, <1>6, <1>7, <1>8 DEF Next, LoadStep

-----------------------------------------------------------------------------
(* Synthesized units *)

\* A prefixed unit keeps its prefix, whatever is defined later: nothing is redefined.
LEMMA SynthesizedStep ==
  ASSUME IInv, UnitsInv, PrefixInv, RecordInv, SynthesizedCurrent, Next
  PROVE  SynthesizedCurrent'
<1> USE DEF registry, caches
<1> SUFFICES ASSUME onRedefinition = "raise", NEW n \in DOMAIN byName', byName'[n].prefix # Blank
             PROVE  /\ byName'[n].prefix \in DOMAIN prefixes'
                    /\ byName'[n].scale = prefixes'[byName'[n].prefix].scale
                    /\ DOMAIN byName'[n].ref \subseteq DOMAIN units'
  BY DEF SynthesizedCurrent, Next
<1> DEFINE Ok(u) == /\ u.prefix \in DOMAIN prefixes /\ u.scale = prefixes[u.prefix].scale
                    /\ DOMAIN u.ref \subseteq DOMAIN units
<1>0. DOMAIN units \subseteq DOMAIN units'
  BY NamesStay
<1>1. \A p \in DOMAIN prefixes : p \in DOMAIN prefixes' /\ prefixes'[p] = prefixes[p]
  <2>1. CASE PrefixKey
    <3>1. CASE RefuseTaken(Key, prefixes)
      BY <2>1, <3>1 DEF PrefixKey
    <3>2. CASE ~RefuseTaken(Key, prefixes)
      <4>1. prefixes' = Put(prefixes, Key, task.def) /\ Key \notin DOMAIN prefixes
        BY <2>1, <3>2 DEF PrefixKey, RefuseTaken
      <4> QED  BY <4>1 DEF Put
    <3> QED  BY <3>1, <3>2
  <2>2. CASE ~PrefixKey
    <3>1. prefixes' = prefixes
      BY <2>2 DEF Next, LoadStep, Load, BeginUnit, BeginPrefix, BeginAlias, AddDimension,
                  BadLine, UnitKey, UnitDone, DeltaKey, DeltaDone, AliasKey, AliasDone,
                  PrefixDone, BuildCaches, IndexUnit, IndexDone, BeginParse, ParseName,
                  ParseDone, Walk
    <3> QED  BY <3>1
  <2> QED  BY <2>1, <2>2
<1>2. \E u : /\ Ok(u) /\ byName'[n].prefix = u.prefix /\ byName'[n].scale = u.scale
             /\ byName'[n].ref = u.ref
  <2>1. ASSUME n \in DOMAIN byName, byName'[n] = byName[n]
        PROVE  Ok(byName[n])
    BY <2>1 DEF SynthesizedCurrent
  <2>2. CASE byName' = byName
    BY <2>1, <2>2
  <2>3. CASE BeginAlias
    <3>1. n \in DOMAIN byName /\ SameUnit(byName'[n], byName[n])
      BY <2>3, BeginAliasEffect DEF SameUnit
    <3>2. Ok(byName[n])
      BY <3>1 DEF SynthesizedCurrent, SameUnit
    <3> QED  BY <3>1, <3>2 DEF SameUnit
  <2>4. CASE UnitDone \/ DeltaDone
    <3>1. byName' = Put(byName, task.def.name, task.def) /\ task.def.prefix = Blank
      BY <2>4 DEF UnitDone, DeltaDone, UnitsInv
    <3>2. n \in DOMAIN byName /\ byName'[n] = byName[n]
      BY <3>1 DEF Put
    <3> QED  BY <2>1, <3>2
  <2>5. ASSUME NEW m, NEW d, Entered(m, d)
        PROVE  \E u : /\ Ok(u) /\ byName'[n].prefix = u.prefix /\ byName'[n].scale = u.scale
                      /\ byName'[n].ref = u.ref
    <3>1. Ok(d)
      BY <2>5 DEF Entered
    <3>2. byName' = Put(byName, m, d)
      BY <2>5 DEF Entered
    <3>3. \/ n \in DOMAIN byName /\ byName'[n] = byName[n]
          \/ byName'[n] = d
      BY <3>2 DEF Put
    <3> HIDE DEF Ok
    <3> QED  BY <2>1, <3>1, <3>3
  <2>6. CASE ParseName
    <3>1. Intern(Resolve(Head(task.todo)[1])) /\ ~Begun
      BY <2>6 DEF ParseName, Begun, Registering
    <3> QED  BY <2>2, <2>5, <3>1, InternEffect
  <2>7. ASSUME NEW m, Walk(m)
        PROVE  \E u : /\ Ok(u) /\ byName'[n].prefix = u.prefix /\ byName'[n].scale = u.scale
                      /\ byName'[n].ref = u.ref
    <3>1. Intern(Resolve(m)) /\ ~Begun
      BY <2>7 DEF Walk, Begun, Registering
    <3> QED  BY <2>2, <2>5, <3>1, InternEffect
  <2>8. CASE ~(BeginAlias \/ UnitDone \/ DeltaDone \/ ParseName \/ \E m \in References : Walk(m))
    <3>1. byName' = byName
      BY <2>8 DEF Next, LoadStep, Load, BeginUnit, BeginPrefix, AddDimension,
                  BadLine, UnitKey, DeltaKey, AliasKey, AliasDone, PrefixKey,
                  PrefixDone, BuildCaches, IndexUnit, IndexDone, BeginParse, ParseDone
    <3> QED  BY <2>2, <3>1
  <2> QED  BY <2>3, <2>4, <2>6, <2>7, <2>8
<1> QED  BY <1>0, <1>1, <1>2

-----------------------------------------------------------------------------
(* Parsed containers *)

\* What is defined stays so as long as no unit changes its type.
LEMMA DefinedStays ==
  ASSUME UnitsInv, UnitsInv', Next, Grows(byName, byName'), NEW n, Defined(n)
  PROVE  Defined(n)'
<1>1. CASE n \in DOMAIN units
  BY <1>1, NamesStay DEF Defined
<1>2. CASE \E m \in DOMAIN byName : byName[m].type = "log" /\ n = DeltaName(m)
  <2>1. PICK m \in DOMAIN byName : byName[m].type = "log" /\ n = DeltaName(m)
    BY <1>2
  <2>2. m \in DOMAIN byName' /\ Meaning(byName'[m]) = Meaning(byName[m])
    BY DEF Grows
  <2>3. DOMAIN byName[m] = Fields /\ DOMAIN byName'[m] = Fields
    BY <2>2 DEF UnitsInv, IsUnitDef
  <2>4. byName'[m].type = byName[m].type
    <3>1. Meaning(byName'[m])["type"] = byName'[m].type
      BY <2>3 DEF Meaning, Fields
    <3>2. Meaning(byName[m])["type"] = byName[m].type
      BY <2>3 DEF Meaning, Fields
    <3> QED  BY <2>2, <3>1, <3>2
  <2> QED  BY <2>1, <2>2, <2>4 DEF Defined
<1> QED  BY <1>1, <1>2 DEF Defined

\* A name that has been looked up is defined, and so is the difference that ParseUnits
\* reads an offset unit as.
LEMMA ReadDefined ==
  ASSUME IInv, UnitsInv, PrefixInv, RecordInv, DeltaInv, UnitsInv', Next, Grows(byName, byName'),
         pc = "parse", NEW name, NEW x, x = Resolve(name), Intern(x), ~IsError(x), x.name # Blank,
         NEW e, NEW size, NEW n, n = DeltaIfCompound(x.name, e, size)
  PROVE  Defined(n)'
<1>0. ~Begun /\ FoundHere(x)
  <2>1. ~Begun
    BY DEF Begun, Registering
  <2> QED  BY <2>1, ResolveTyped
<1>1. x.name \in DOMAIN units'
  <2>1. CASE x.name \in DOMAIN units
    BY <2>1, NamesStay
  <2>2. CASE x.name \notin DOMAIN units
    <3>1. units' = Put(units, x.name, Synthesized(x.prefix, x.unit))
      BY <1>0, <2>2 DEF FoundHere, Intern
    <3> QED  BY <3>1 DEF Put
  <2> QED  BY <2>1, <2>2
<1>2. CASE n = x.name
  BY <1>1, <1>2 DEF Defined
<1>3. CASE n # x.name
  <2>1. /\ x.name \in DOMAIN byName /\ ~Multiplicative(byName[x.name])
        /\ n = DeltaName(x.name)
    BY <1>3 DEF DeltaIfCompound
  <2>2. byName[x.name].type \in {"offset", "log"}
    BY <2>1 DEF UnitsInv, IsUnitDef, Multiplicative
  <2>3. Defined(n)
    <3>1. CASE byName[x.name].type = "log"
      BY <2>1, <3>1 DEF Defined
    <3>2. CASE byName[x.name].type = "offset"
      <4>1. DeltaName(x.name) \in refused \cup DOMAIN byName
        BY <2>1, <3>2 DEF DeltaInv
      <4>2. DeltaName(x.name) \in DOMAIN units
        BY <4>1 DEF RecordInv, IInv, MapsInv
      <4> QED  BY <2>1, <4>2 DEF Defined
    <3> QED  BY <2>2, <3>1, <3>2
  <2> QED  BY <2>1, <2>3, DefinedStays
<1> QED  BY <1>2, <1>3

\* A parse whose entries stay defined.
LEMMA DefinedRest ==
  ASSUME DefinedInv, UNCHANGED parseCache, \A n : Defined(n) => Defined(n)',
         \/ onRedefinition = "raise"
         \/ pc' \notin {"idle", "parse"}
         \/ stale'
         \/ pc \in {"idle", "parse"} /\ stale' = stale,
         pc' # "parse", pc' # "index", onRedefinition' = onRedefinition
  PROVE  DefinedInv'
BY DEF DefinedInv

\* Names that have been handed out can be looked up.
LEMMA DefinedStep ==
  ASSUME ContentsInv, UnitsInv', Next
  PROVE  DefinedInv'
<1> USE DEF registry, caches
<1>0. /\ IInv /\ UnitsInv /\ PrefixInv /\ RecordInv /\ ParseInv /\ DeltaInv /\ DefinedInv
      /\ UNCHANGED onRedefinition
  BY DEF ContentsInv, Next
<1>1. \/ onRedefinition = "raise" \/ UNCHANGED byName \/ ParseName
      \/ \E m \in References : Walk(m)
      => Grows(byName, byName')
  <2>1. CASE onRedefinition = "raise"
    BY <1>0, <2>1, StepInv DEF Growing
  <2>2. CASE UNCHANGED byName
    BY <2>2, SameGrows
  <2>3. CASE ParseName
    BY <1>0, <2>3, ParseNameInv
  <2>4. CASE \E m \in References : Walk(m)
    BY <1>0, <2>4, WalkInv
  <2> QED  BY <2>1, <2>2, <2>3, <2>4
<1>2. Grows(byName, byName') => \A n : Defined(n) => Defined(n)'
  BY <1>0, DefinedStays
<1>3. CASE \/ \E file \in File : Load(file)
           \/ BeginUnit \/ BeginPrefix \/ BeginAlias \/ AddDimension \/ BadLine
           \/ UnitKey \/ UnitDone \/ DeltaKey \/ DeltaDone \/ AliasKey \/ AliasDone
           \/ PrefixKey \/ PrefixDone
  <2>1. parseCache' = parseCache /\ pc' \notin {"parse", "index"} /\ (pc' # "idle" \/ stale')
    BY <1>3 DEF Load, BeginUnit, BeginPrefix, BeginAlias, AddDimension, BadLine, UnitKey, UnitDone,
                DeltaKey, DeltaDone, AliasKey, AliasDone, PrefixKey, PrefixDone, Abandon, AtLine
  <2>2. CASE onRedefinition = "raise"
    BY <1>0, <1>1, <1>2, <2>1, <2>2, DefinedRest
  <2>3. CASE onRedefinition # "raise"
    BY <1>0, <2>1, <2>3 DEF DefinedInv
  <2> QED  BY <2>2, <2>3
<1>4. CASE BuildCaches
  <2>1. parseCache' = NoUnits /\ pc' = "index"
    BY <1>4 DEF BuildCaches
  <2> QED  BY <2>1 DEF DefinedInv, NoUnits
<1>5. CASE IndexUnit
  <2>1. parseCache' = parseCache /\ pc = "index" /\ pc' = "index"
    BY <1>5 DEF IndexUnit
  <2> QED  BY <1>0, <2>1 DEF DefinedInv, NoUnits
<1>6. CASE IndexDone
  <2>1. parseCache' = parseCache /\ pc = "index" /\ pc' = "idle"
    BY <1>6 DEF IndexDone
  <2> QED  BY <1>0, <2>1 DEF DefinedInv, NoUnits
<1>7. ASSUME NEW op, NEW e, BeginParse(op, e)
      PROVE  DefinedInv'
  <2>1. /\ parseCache' = parseCache /\ pc = "idle" /\ pc' = "parse" /\ stale' = stale
        /\ UNCHANGED <<units, byName>> /\ task'.out = NoUnits
    BY <1>0, <1>7, InHand DEF BeginParse
  <2>2. \A n : Defined(n)' <=> Defined(n)
    BY <2>1 DEF Defined
  <2> QED  BY <1>0, <2>1, <2>2 DEF DefinedInv, NoUnits
<1>8. CASE ParseName
  <2> DEFINE name == Head(task.todo)[1]
             e == Head(task.todo)[2]
  <2>1. parseCache' = parseCache /\ pc = "parse" /\ stale' = stale
    BY <1>8 DEF ParseName
  <2>2. \A n : Defined(n) => Defined(n)'
    BY <1>1, <1>2, <1>8
  <2>3. PICK x : x = Resolve(name)
    OBVIOUS
  <2>4. PICK n : n = IF task.op = "ParseUnits"
                     THEN DeltaIfCompound(x.name, e, Len(task.expr)) ELSE x.name
    OBVIOUS
  <2>5. /\ onRedefinition' = "raise" \/ (pc' \in {"idle", "parse"} /\ ~stale') =>
             \A d \in DOMAIN parseCache' : \A m \in DOMAIN parseCache'[d] : Defined(m)'
    BY <1>0, <2>1, <2>2 DEF DefinedInv
  <2>6. CASE IsError(x)
    <3>1. pc' = "idle"
      BY <1>0, <1>8, <2>3, <2>4, <2>6, ParseNameHand
    <3> QED  BY <2>5, <3>1 DEF DefinedInv
  <2>7. CASE ~IsError(x)
    <3>1. /\ pc' = "parse" /\ task'.op = task.op
          /\ task'.out = IF x.name = Blank THEN task.out ELSE Add(task.out, n, e)
      BY <1>0, <1>8, <2>3, <2>4, <2>7, ParseNameHand
    <3>2. ASSUME task.op = "ParseUnits", NEW m \in DOMAIN task'.out
          PROVE  Defined(m)'
      <4>1. \A k \in DOMAIN task.out : Defined(k)'
        BY <1>0, <2>1, <2>2, <3>2 DEF DefinedInv
      <4>2. CASE x.name = Blank
        BY <3>1, <3>2, <4>1, <4>2
      <4>3. CASE x.name # Blank
        <5>1. Defined(n)'
          <6>1. Intern(x) /\ n = DeltaIfCompound(x.name, e, Len(task.expr))
            BY <1>8, <2>3, <2>4, <3>2 DEF ParseName
          <6> QED  BY <1>0, <1>1, <1>8, <2>1, <2>3, <2>7, <4>3, <6>1, ReadDefined
        <5>2. DOMAIN Add(task.out, n, e) \subseteq DOMAIN task.out \cup {n}
          BY DEF Add, Put
        <5> QED  BY <3>1, <3>2, <4>1, <4>3, <5>1, <5>2
      <4> QED  BY <4>2, <4>3
    <3> QED  BY <2>5, <3>1, <3>2 DEF DefinedInv
  <2> QED  BY <2>6, <2>7
<1>9. CASE ParseDone
  <2>1. /\ pc = "parse" /\ pc' = "idle" /\ stale' = stale /\ UNCHANGED <<units, byName>>
        /\ parseCache' = IF task.op = "ParseUnits" THEN Put(parseCache, task.expr, task.out)
                         ELSE parseCache
    BY <1>9 DEF ParseDone
  <2>2. \A n : Defined(n)' <=> Defined(n)
    BY <2>1 DEF Defined
  <2>3. CASE task.op # "ParseUnits"
    BY <1>0, <2>1, <2>2, <2>3 DEF DefinedInv
  <2>4. CASE task.op = "ParseUnits"
    <3>1. /\ DOMAIN parseCache' = DOMAIN parseCache \cup {task.expr}
          /\ parseCache'[task.expr] = task.out
          /\ \A d \in DOMAIN parseCache : d # task.expr => parseCache'[d] = parseCache[d]
      BY <2>1, <2>4 DEF Put
    <3>2. \A m \in DOMAIN task.out : Defined(m)
      BY <1>0, <2>1, <2>4 DEF DefinedInv
    <3> QED  BY <1>0, <2>1, <2>2, <3>1, <3>2 DEF DefinedInv
  <2> QED  BY <2>3, <2>4
<1>10. CASE \E n \in References : Walk(n)
  <2>1. parseCache' = parseCache /\ pc = "idle" /\ pc' = "idle" /\ stale' = stale
    BY <1>10 DEF Walk
  <2> QED  BY <1>0, <1>1, <1>2, <1>10, <2>1, DefinedRest
<1> QED  BY <1>3, <1>4, <1>5, <1>6, <1>7, <1>8, <1>9, <1>10 DEF Next, LoadStep
-----------------------------------------------------------------------------
(* The index of products *)

\* The index names a product by the one unit defined as it.
LEMMA UniqueValue ==
  ASSUME NEW S, NEW def, NEW n \in S, Alone(n, S, def)
  PROVE  /\ def[n].ref \in DOMAIN UniqueIndex(S, def)
         /\ UniqueIndex(S, def)[def[n].ref] = n
<1>1. def[n].ref \in DOMAIN UniqueIndex(S, def)
  BY DEF UniqueIndex
<1>2. UniqueIndex(S, def)[def[n].ref] = CHOOSE m \in S : def[m].ref = def[n].ref
  BY <1>1 DEF UniqueIndex
<1>3. \A m \in S : def[m].ref = def[n].ref => m = n
  BY DEF Alone
<1> QED  BY <1>1, <1>2, <1>3

\* ... and names nothing else.
LEMMA UniqueDomain ==
  ASSUME NEW S, NEW def, NEW key \in DOMAIN UniqueIndex(S, def)
  PROVE  \E n \in S : Alone(n, S, def) /\ key = def[n].ref /\ UniqueIndex(S, def)[key] = n
<1>1. PICK n \in S : Alone(n, S, def) /\ key = def[n].ref
  BY DEF UniqueIndex
<1> QED  BY <1>1, UniqueValue

\* It is a function of the units defined as the products: nothing else about them counts.
LEMMA IndexOf ==
  ASSUME NEW S, NEW def, NEW f, f = [key \in DOMAIN f |-> f[key]],
         \A key \in DOMAIN f : f[key] \in S /\ Alone(f[key], S, def) /\ def[f[key]].ref = key,
         \A n \in S : Alone(n, S, def) => def[n].ref \in DOMAIN f
  PROVE  f = UniqueIndex(S, def)
<1>1. DOMAIN f = DOMAIN UniqueIndex(S, def)
  <2>1. ASSUME NEW key \in DOMAIN f PROVE key \in DOMAIN UniqueIndex(S, def)
    BY UniqueValue
  <2>2. ASSUME NEW key \in DOMAIN UniqueIndex(S, def) PROVE key \in DOMAIN f
    BY UniqueDomain
  <2> QED  BY <2>1, <2>2
<1>2. \A key \in DOMAIN f : f[key] = UniqueIndex(S, def)[key]
  BY UniqueValue
<1>3. UniqueIndex(S, def) = [key \in DOMAIN UniqueIndex(S, def) |-> UniqueIndex(S, def)[key]]
  BY DEF UniqueIndex
<1> QED  BY <1>1, <1>2, <1>3

\* The same products give the same index.
LEMMA SameIndex ==
  ASSUME NEW S, NEW def, NEW def1, \A n \in S : def1[n].ref = def[n].ref
  PROVE  UniqueIndex(S, def1) = UniqueIndex(S, def)
<1>1. \A n \in S : Alone(n, S, def1) <=> Alone(n, S, def)
  BY DEF Alone
<1> PICK f : f = UniqueIndex(S, def1)
  OBVIOUS
<1>2. f = [key \in DOMAIN f |-> f[key]]
  BY DEF UniqueIndex
<1>3. \A key \in DOMAIN f : f[key] \in S /\ Alone(f[key], S, def) /\ def[f[key]].ref = key
  BY <1>1, UniqueDomain
<1>4. \A n \in S : Alone(n, S, def) => def[n].ref \in DOMAIN f
  BY <1>1, UniqueValue
<1> QED  BY <1>2, <1>3, <1>4, IndexOf

\* No products have no index.
LEMMA EmptyIndex ==
  ASSUME NEW def
  PROVE  NoUnits = UniqueIndex({}, def) /\ {} = Repeated({}, def)
BY DEF NoUnits, UniqueIndex, Repeated

\* Who is alone after one more product.
LEMMA OneMore ==
  ASSUME NEW S, NEW def, NEW n, n \notin S
  PROVE  LET T == S \cup {n}
             key == def[n].ref
         IN  /\ \A m \in S : Alone(m, T, def) <=> Alone(m, S, def) /\ def[m].ref # key
             /\ Alone(n, T, def) <=> \A m \in S : def[m].ref # key
BY DEF Alone

\* One turn of the loop of catalogExprIndex, in its three cases: a product known to be
\* repeated, one met a second time, and a new one.
LEMMA IndexTurn ==
  ASSUME NEW S, NEW def, NEW n, n \notin S, NEW key, key = def[n].ref,
         NEW f, f = UniqueIndex(S, def), NEW T, T = S \cup {n}
  PROVE  /\ key \in Repeated(S, def) =>
              f = UniqueIndex(T, def) /\ Repeated(T, def) = Repeated(S, def)
         /\ key \in DOMAIN f /\ key \notin Repeated(S, def) =>
              /\ [k \in DOMAIN f \ {key} |-> f[k]] = UniqueIndex(T, def)
              /\ Repeated(T, def) = Repeated(S, def) \cup {key}
         /\ key \notin DOMAIN f /\ key \notin Repeated(S, def) =>
              Put(f, key, n) = UniqueIndex(T, def) /\ Repeated(T, def) = Repeated(S, def)
<1>1. /\ \A m \in S : Alone(m, T, def) <=> Alone(m, S, def) /\ def[m].ref # key
      /\ Alone(n, T, def) <=> \A m \in S : def[m].ref # key
  BY OneMore
<1>2. /\ f = [k \in DOMAIN f |-> f[k]]
      /\ \A k \in DOMAIN f : f[k] \in S /\ Alone(f[k], S, def) /\ def[f[k]].ref = k
      /\ \A m \in S : Alone(m, S, def) => def[m].ref \in DOMAIN f
  <2>1. f = [k \in DOMAIN f |-> f[k]]
    BY DEF UniqueIndex
  <2> QED  BY <2>1, UniqueDomain, UniqueValue
<1>3. \A k : k \in Repeated(S, def) <=> \E m \in S : ~Alone(m, S, def) /\ def[m].ref = k
  BY DEF Repeated
<1>4. \A k : k \in Repeated(T, def) <=> \E m \in T : ~Alone(m, T, def) /\ def[m].ref = k
  BY DEF Repeated
<1>5. key \in Repeated(S, def) => key \notin DOMAIN f
  <2> SUFFICES ASSUME key \in DOMAIN f, NEW m \in S, ~Alone(m, S, def), def[m].ref = key
               PROVE  FALSE
    BY <1>3
  <2>1. f[key] \in S /\ Alone(f[key], S, def) /\ def[f[key]].ref = key
    BY <1>2
  <2>2. m = f[key]
    BY <2>1 DEF Alone
  <2> QED  BY <2>1, <2>2
<1>6. (\E m \in S : def[m].ref = key) <=> key \in DOMAIN f \/ key \in Repeated(S, def)
  BY <1>2, <1>3
<1>7. ASSUME key \in Repeated(S, def)
      PROVE  f = UniqueIndex(T, def) /\ Repeated(T, def) = Repeated(S, def)
  <2>1. ~Alone(n, T, def)
    BY <1>1, <1>6, <1>7
  <2>2. PICK g : g = f
    OBVIOUS
  <2>3. \A k \in DOMAIN g : g[k] \in T /\ Alone(g[k], T, def) /\ def[g[k]].ref = k
    BY <1>1, <1>2, <1>5, <1>7, <2>2
  <2>6. \A m \in T : Alone(m, T, def) => def[m].ref \in DOMAIN g
    BY <1>1, <1>2, <2>1, <2>2
  <2>7. g = [k \in DOMAIN g |-> g[k]]
    BY <1>2, <2>2
  <2>8. g = UniqueIndex(T, def)
    BY <2>3, <2>6, <2>7, IndexOf
  <2>4. f = UniqueIndex(T, def)
    BY <2>2, <2>8
  <2>5. \A k : k \in Repeated(T, def) <=> k \in Repeated(S, def)
    BY <1>1, <1>3, <1>4, <1>7, <2>1
  <2> QED  BY <2>4, <2>5
<1>8. ASSUME key \in DOMAIN f, key \notin Repeated(S, def)
      PROVE  /\ [k \in DOMAIN f \ {key} |-> f[k]] = UniqueIndex(T, def)
             /\ Repeated(T, def) = Repeated(S, def) \cup {key}
  <2> DEFINE g == [k \in DOMAIN f \ {key} |-> f[k]]
  <2>1. ~Alone(n, T, def)
    BY <1>1, <1>6, <1>8
  <2>2. \A k \in DOMAIN g : g[k] \in T /\ Alone(g[k], T, def) /\ def[g[k]].ref = k
    BY <1>1, <1>2
  <2>3. \A m \in T : Alone(m, T, def) => def[m].ref \in DOMAIN g
    BY <1>1, <1>2, <2>1
  <2>4. g = UniqueIndex(T, def)
    <3>1. g = [k \in DOMAIN g |-> g[k]]
      OBVIOUS
    <3> HIDE DEF g
    <3> QED  BY <2>2, <2>3, <3>1, IndexOf
  <2>5. \A k : k \in Repeated(T, def) <=> k \in Repeated(S, def) \cup {key}
    BY <1>1, <1>2, <1>3, <1>4, <1>8, <2>1
  <2> QED  BY <2>4, <2>5
<1>9. ASSUME key \notin DOMAIN f, key \notin Repeated(S, def)
      PROVE  Put(f, key, n) = UniqueIndex(T, def) /\ Repeated(T, def) = Repeated(S, def)
  <2> DEFINE g == Put(f, key, n)
  <2>0. /\ DOMAIN g = DOMAIN f \cup {key} /\ g[key] = n
        /\ \A k \in DOMAIN f : k # key => g[k] = f[k]
        /\ g = [k \in DOMAIN g |-> g[k]]
    BY DEF Put
  <2> HIDE DEF g
  <2>1. Alone(n, T, def) /\ \A m \in S : def[m].ref # key
    BY <1>1, <1>6, <1>9
  <2>2. \A k \in DOMAIN g : g[k] \in T /\ Alone(g[k], T, def) /\ def[g[k]].ref = k
    <3>1. ASSUME NEW k \in DOMAIN f
          PROVE  g[k] \in T /\ Alone(g[k], T, def) /\ def[g[k]].ref = k
      <4>1. f[k] \in S /\ Alone(f[k], S, def) /\ def[f[k]].ref = k /\ k # key
        BY <1>2, <1>9, <3>1
      <4>2. g[k] = f[k]
        BY <2>0, <4>1
      <4> QED  BY <1>1, <4>1, <4>2
    <3> QED  BY <2>0, <2>1, <3>1
  <2>3. \A m \in T : Alone(m, T, def) => def[m].ref \in DOMAIN g
    BY <1>1, <1>2, <2>0
  <2>4. g = UniqueIndex(T, def)
    BY <2>0, <2>2, <2>3, IndexOf
  <2>5. \A k : k \in Repeated(T, def) <=> k \in Repeated(S, def)
    BY <1>1, <1>3, <1>4, <2>1
  <2> QED  BY <2>4, <2>5 DEF g
<1> QED  BY <1>7, <1>8, <1>9

\* A unit that a lookup enters is no product.
LEMMA ProductsStay ==
  ASSUME UnitsInv, NEW n, NEW d, Entered(n, d)
  PROVE  /\ Products' = Products
         /\ UniqueIndex(Products', byName') = UniqueIndex(Products, byName)
<1>1. /\ DOMAIN byName' = DOMAIN byName \cup {n} /\ byName'[n] = d /\ n \notin DOMAIN byName
      /\ \A m \in DOMAIN byName : byName'[m] = byName[m]
  <2>1. byName' = Put(byName, n, d) /\ n \notin DOMAIN byName
    BY DEF Entered
  <2> QED  BY <2>1 DEF Put
<1>2. ~(Cardinality(DOMAIN d.ref) >= 2)
  <2>1. PICK u : d.ref = [x \in {u} |-> 1]
    BY DEF Entered
  <2>2. DOMAIN d.ref = {u}
    BY <2>1
  <2>3. Cardinality({u}) = 1
    BY FS_Singleton
  <2> QED  BY <2>2, <2>3
<1>3. Products' = Products
  <2>1. ASSUME NEW m PROVE m \in Products' <=> m \in Products
    BY <1>1, <1>2 DEF Products
  <2> QED  BY <2>1
<1>4. \A m \in Products : byName'[m].ref = byName[m].ref
  BY <1>1 DEF Products
<1> QED  BY <1>3, <1>4, SameIndex

\* The index of the products has containers for keys and names for values.
LEMMA IndexTyped ==
  ASSUME UnitsInv, NEW e \in DOMAIN UniqueIndex(Products, byName)
  PROVE  IsContainer(e) /\ UniqueIndex(Products, byName)[e] \in Name
<1>1. PICK n \in Products : e = byName[n].ref /\ UniqueIndex(Products, byName)[e] = n
  BY UniqueDomain
<1>2. n \in Name /\ IsUnitDef(byName[n])
  BY DEF Products, UnitsInv
<1> QED  BY <1>1, <1>2 DEF IsUnitDef

\* A step that leaves the index alone.
LEMMA IndexRest ==
  ASSUME IndexInv, UNCHANGED unitByExpr, pc' # "index",
         \/ pc' \notin {"idle", "parse"}
         \/ stale'
         \/ /\ pc \in {"idle", "parse"} /\ stale' = stale
            /\ UniqueIndex(Products', byName') = UniqueIndex(Products, byName)
  PROVE  IndexInv'
BY DEF IndexInv

\* The loop keeps the index of the products it has passed.
LEMMA IndexUnitKept ==
  ASSUME IInv, UnitsInv, IndexInv, IndexUnit
  PROVE  IndexInv'
<1>1. pc = "index" /\ UNCHANGED <<byName, unitByExpr, pc>>
  BY DEF IndexUnit, registry, caches
<1>2. PICK n \in task.left :
        LET key == byName[n].ref
        IN  /\ task'.left = task.left \ {n}
            /\ \/ /\ key \in task.ambiguous
                  /\ task'.index = task.index /\ task'.ambiguous = task.ambiguous
               \/ /\ key \in DOMAIN task.index /\ key \notin task.ambiguous
                  /\ task'.index = [k \in DOMAIN task.index \ {key} |-> task.index[k]]
                  /\ task'.ambiguous = task.ambiguous \cup {key}
               \/ /\ key \notin DOMAIN task.index /\ key \notin task.ambiguous
                  /\ task'.index = Put(task.index, key, n)
                  /\ task'.ambiguous = task.ambiguous
  BY IndexUnitHand
<1>3. PICK S : S = Products \ task.left
  OBVIOUS
<1>4. PICK T : T = Products' \ task'.left
  OBVIOUS
<1>5. PICK f : f = UniqueIndex(S, byName)
  OBVIOUS
<1>6. PICK def : def = byName
  OBVIOUS
<1>7. PICK key : key = def[n].ref
  OBVIOUS
<1>8. /\ task.left \subseteq Products /\ task.index = f
      /\ task.ambiguous = Repeated(S, def) /\ f = UniqueIndex(S, def)
  BY <1>1, <1>3, <1>5, <1>6 DEF IndexInv
<1>9. Products' = Products
  BY <1>1 DEF Products
<1>10. n \notin S /\ T = S \cup {n} /\ task'.left \subseteq Products'
  BY <1>2, <1>3, <1>4, <1>8, <1>9
<1>11. task'.index = UniqueIndex(T, def) /\ task'.ambiguous = Repeated(T, def)
  <2>1. /\ key \in Repeated(S, def) =>
             f = UniqueIndex(T, def) /\ Repeated(T, def) = Repeated(S, def)
        /\ key \in DOMAIN f /\ key \notin Repeated(S, def) =>
             /\ [k \in DOMAIN f \ {key} |-> f[k]] = UniqueIndex(T, def)
             /\ Repeated(T, def) = Repeated(S, def) \cup {key}
        /\ key \notin DOMAIN f /\ key \notin Repeated(S, def) =>
             Put(f, key, n) = UniqueIndex(T, def) /\ Repeated(T, def) = Repeated(S, def)
    BY <1>7, <1>8, <1>10, IndexTurn
  <2>2. \/ /\ key \in task.ambiguous
           /\ task'.index = task.index /\ task'.ambiguous = task.ambiguous
        \/ /\ key \in DOMAIN task.index /\ key \notin task.ambiguous
           /\ task'.index = [k \in DOMAIN task.index \ {key} |-> task.index[k]]
           /\ task'.ambiguous = task.ambiguous \cup {key}
        \/ /\ key \notin DOMAIN task.index /\ key \notin task.ambiguous
           /\ task'.index = Put(task.index, key, n)
           /\ task'.ambiguous = task.ambiguous
    BY <1>2, <1>6, <1>7
  <2> QED  BY <1>8, <2>1, <2>2
<1>12. byName' = def
  BY <1>1, <1>6
<1> QED  BY <1>1, <1>4, <1>10, <1>11, <1>12 DEF IndexInv

\* The index is that of the products when no load is in progress.
LEMMA IndexStep ==
  ASSUME ContentsInv, Next
  PROVE  IndexInv'
<1> USE DEF registry, caches
<1>0. IInv /\ UnitsInv /\ PrefixInv /\ RecordInv /\ IndexInv
  BY DEF ContentsInv
<1>1. CASE \/ \E file \in File : Load(file)
           \/ BeginUnit \/ BeginPrefix \/ BeginAlias \/ AddDimension \/ BadLine
           \/ UnitKey \/ UnitDone \/ DeltaKey \/ DeltaDone \/ AliasKey \/ AliasDone
           \/ PrefixKey \/ PrefixDone
  <2>1. unitByExpr' = unitByExpr /\ pc' \notin {"parse", "index"} /\ (pc' # "idle" \/ stale')
    BY <1>1 DEF Load, BeginUnit, BeginPrefix, BeginAlias, AddDimension, BadLine, UnitKey, UnitDone,
                DeltaKey, DeltaDone, AliasKey, AliasDone, PrefixKey, PrefixDone, Abandon, AtLine
  <2> QED  BY <1>0, <2>1, IndexRest
<1>2. CASE BuildCaches
  <2>1. /\ UNCHANGED <<byName, unitByExpr>> /\ pc' = "index"
        /\ task'.left = Products /\ task'.index = NoUnits /\ task'.ambiguous = {}
    BY <1>0, <1>2, InHand DEF BuildCaches
  <2>2. Products' = Products
    BY <2>1 DEF Products
  <2>3. Products' \ task'.left = {}
    BY <2>1, <2>2
  <2>4. task'.index = UniqueIndex({}, byName') /\ task'.ambiguous = Repeated({}, byName')
    BY <2>1, EmptyIndex
  <2> QED  BY <1>0, <2>1, <2>2, <2>3, <2>4 DEF IndexInv
<1>3. CASE IndexUnit
  BY <1>0, <1>3, IndexUnitKept
<1>4. CASE IndexDone
  <2>1. /\ byName' = byName /\ unitByExpr' = task.index /\ pc' = "idle" /\ pc = "index"
        /\ task.left = {}
    BY <1>4 DEF IndexDone
  <2>2. Products' = Products /\ Products \ task.left = Products
    BY <2>1 DEF Products
  <2>3. unitByExpr' = UniqueIndex(Products, byName)
    BY <1>0, <2>1, <2>2 DEF IndexInv
  <2>4. \A e \in DOMAIN unitByExpr' : IsContainer(e) /\ unitByExpr'[e] \in Name
    BY <1>0, <2>3, IndexTyped
  <2> QED  BY <2>1, <2>2, <2>3, <2>4 DEF IndexInv
<1>5. CASE ParseDone \/ \E op \in {"ParseUnits", "Parse"}, e \in Lookup : BeginParse(op, e)
  <2>1. /\ UNCHANGED <<byName, unitByExpr, stale>> /\ {pc, pc'} \subseteq {"idle", "parse"}
    BY <1>5 DEF ParseDone, BeginParse
  <2>2. Products' = Products
    BY <2>1 DEF Products
  <2> QED  BY <1>0, <2>1, <2>2, IndexRest
<1>6. CASE ParseName \/ \E n \in References : Walk(n)
  <2>1. UNCHANGED <<unitByExpr, stale>> /\ {pc, pc'} \subseteq {"idle", "parse"}
    BY <1>6 DEF ParseName, Walk
  <2>2. ~Begun /\ \E name : Intern(Resolve(name))
    BY <1>6, <2>1 DEF ParseName, Walk, Begun, Registering
  <2>3. UniqueIndex(Products', byName') = UniqueIndex(Products, byName)
    <3>1. CASE byName' = byName
      <4>1. Products' = Products
        BY <3>1 DEF Products
      <4> QED  BY <3>1, <4>1
    <3>2. CASE \E n, d : Entered(n, d)
      BY <1>0, <3>2, ProductsStay
    <3> QED  BY <1>0, <2>2, <3>1, <3>2, InternEffect
  <2> QED  BY <1>0, <2>1, <2>3, IndexRest
<1> QED  BY <1>1, <1>2, <1>3, <1>4, <1>5, <1>6 DEF Next, LoadStep

-----------------------------------------------------------------------------
(* The invariant and what it shows *)

\* An empty registry.
LEMMA InitContents == Init => ContentsInv
<1> SUFFICES ASSUME Init PROVE ContentsInv
  OBVIOUS
<1> USE DEF Init
<1>1. IInv
  BY InitInv
<1>2. DOMAIN NoUnits = {} /\ task.keys = << >> /\ task.out = NoUnits
  BY NoTaskFields DEF NoUnits
<1>3. UnitsInv
  BY <1>2 DEF UnitsInv
<1>4. PrefixInv
  <2>1. EmptyPrefix \in PrefixDefs /\ EmptyPrefix.name = Blank /\ Blank \in Name
    BY DEF PrefixDefs, EmptyPrefix, Blank, Name
  <2>2. prefixList \in Seq(PrefixDefs) /\ \A i \in DOMAIN prefixList : prefixList[i] = EmptyPrefix
    BY <2>1
  <2> QED  BY <2>1, <2>2 DEF PrefixInv
<1>5. RecordInv
  <2>1. MaxLoads \in Nat /\ loads = 0
    BY OptionAssumption
  <2>2. loads \in 0..MaxLoads
    BY <2>1
  <2>3. /\ onRedefinition \in Policy /\ pc = "idle" /\ dims = {} /\ refused = {}
        /\ stale = FALSE
    OBVIOUS
  <2> QED  BY <2>2, <2>3 DEF RecordInv
<1>6. ParseInv
  BY <1>2, EmptyContainer DEF ParseInv
<1>7. DeltaInv /\ SynthesizedCurrent
  BY <1>2 DEF DeltaInv, SynthesizedCurrent
<1>8. DefinedInv
  BY <1>2 DEF DefinedInv
<1>9. IndexInv
  <2>1. Products = {}
    BY <1>2 DEF Products
  <2> QED  BY <1>2, <2>1, EmptyIndex DEF IndexInv
<1> QED  BY <1>1, <1>3, <1>4, <1>5, <1>6, <1>7, <1>8, <1>9 DEF ContentsInv

\* Nothing moves, nothing changes.
LEMMA ContentsStutter == ASSUME ContentsInv, UNCHANGED vars PROVE ContentsInv'
<1> USE DEF vars, registry, caches
<1>1. IInv'
  BY StutterInv DEF ContentsInv
<1>2. UnitsInv'
  BY DEF ContentsInv, UnitsInv
<1>3. PrefixInv'
  BY DEF ContentsInv, PrefixInv
<1>4. RecordInv'
  BY DEF ContentsInv, RecordInv
<1>5. ParseInv'
  BY DEF ContentsInv, ParseInv
<1>6. DeltaInv'
  BY DEF ContentsInv, DeltaInv
<1>7. SynthesizedCurrent'
  BY DEF ContentsInv, SynthesizedCurrent
<1>8. DefinedInv'
  <2>1. \A n : Defined(n)' <=> Defined(n)
    BY DEF Defined
  <2> QED  BY <2>1 DEF ContentsInv, DefinedInv
<1>9. IndexInv'
  <2>1. Products' = Products
    BY DEF Products
  <2> QED  BY <2>1 DEF ContentsInv, IndexInv
<1> QED  BY <1>1, <1>2, <1>3, <1>4, <1>5, <1>6, <1>7, <1>8, <1>9 DEF ContentsInv

\* All parts together.
LEMMA ContentsStep == ASSUME ContentsInv, [Next]_vars PROVE ContentsInv'
<1>1. CASE UNCHANGED vars
  BY <1>1, ContentsStutter
<1>2. CASE Next
  <2>0. /\ IInv /\ UnitsInv /\ PrefixInv /\ RecordInv /\ ParseInv /\ DeltaInv
        /\ SynthesizedCurrent /\ DefinedInv /\ IndexInv
    BY DEF ContentsInv
  <2>1. IInv'
    BY <2>0, <1>2, StepInv
  <2>2. UnitsInv'
    BY <2>0, <1>2, UnitsStep
  <2>3. PrefixInv'
    BY <2>0, <1>2, PrefixStep
  <2>4. RecordInv'
    BY <2>0, <1>2, RecordStep
  <2>5. ParseInv'
    BY <2>0, <1>2, ParseStep
  <2>6. DeltaInv'
    BY <2>0, <1>2, DeltaStep
  <2>7. SynthesizedCurrent'
    BY <2>0, <1>2, SynthesizedStep
  <2>8. DefinedInv'
    BY <1>2, <2>2, DefinedStep
  <2>9. IndexInv'
    BY <1>2, IndexStep
  <2> QED  BY <2>1, <2>2, <2>3, <2>4, <2>5, <2>6, <2>7, <2>8, <2>9 DEF ContentsInv
<1> QED  BY <1>1, <1>2

\* The inductive invariant holds throughout: what every map holds, and what the call in
\* progress has in hand for it.
THEOREM ContentsInvariant == Spec => []ContentsInv
<1>1. Init => ContentsInv
  BY InitContents
<1>2. ContentsInv /\ [Next]_vars => ContentsInv'
  BY ContentsStep
<1> QED  BY <1>1, <1>2, PTL DEF Spec

\* Every map of the registry holds definitions of its kind, r.unitByName each under its
\* own name, whatever line fails in the middle of a registration (addUnit, addPrefix,
\* addAliases, registerUnit, maybeAddDelta, getName, ParseUnits, catalogExprIndex).
THEOREM RegistryWellFormed == Spec => []TypeOK
<1>1. ContentsInv => TypeOK
  <2> SUFFICES ASSUME ContentsInv PROVE TypeOK
    OBVIOUS
  <2>0. IInv /\ UnitsInv /\ PrefixInv /\ RecordInv /\ ParseInv /\ IndexInv
    BY DEF ContentsInv
  <2>1. /\ IsMap(units, Name, IsUnitDef) /\ IsMap(byName, Name, IsUnitDef)
        /\ \A n \in DOMAIN byName : byName[n].name = n
    BY <2>0 DEF UnitsInv, IsMap
  <2>2. IsMap(prefixes, Name, IsPrefixDef)
    BY <2>0, PrefixKeysStart DEF PrefixInv, IsMap
  <2>3. \A i \in DOMAIN prefixList : IsPrefixDef(prefixList[i])
    <3>1. \A i \in DOMAIN prefixList : prefixList[i] \in PrefixDefs
      BY <2>0 DEF PrefixInv
    <3> QED  BY <3>1, PrefixKeysStart
  <2>4. onRedefinition \in Policy /\ dims \subseteq Name /\ refused \subseteq Name
    BY <2>0 DEF RecordInv, UnitsInv
  <2>5. IsMap(parseCache, Lookup, IsContainer) /\ IsContainer(task.out)
    BY <2>0 DEF ParseInv, IsMap
  <2>6. \A e \in DOMAIN unitByExpr : IsContainer(e) /\ unitByExpr[e] \in Name
    BY <2>0 DEF IndexInv
  <2>7. /\ pc \in {"idle", "line", "unit", "delta", "alias", "prefix", "parse", "index"}
        /\ loads \in 0..MaxLoads /\ stale \in BOOLEAN
    BY <2>0 DEF RecordInv
  <2>8. /\ pc \in {"unit", "delta", "alias"} => IsUnitDef(task.def)
        /\ pc = "prefix" => IsPrefixDef(task.def)
        /\ task.keys \in Seq(Name)
    BY <2>0, PrefixKeysStart DEF UnitsInv, PrefixInv
  <2> QED  BY <2>1, <2>2, <2>3, <2>4, <2>5, <2>6, <2>7, <2>8 DEF TypeOK
<1> QED  BY <1>1, ContentsInvariant, PTL

\* Every offset unit of the catalog has its delta unit, whatever was refused in
\* between, and if the registry raises on redefinition it has the size and the
\* reference of its unit (maybeAddDelta, deltaDefinition).
THEOREM DeltasAlwaysExist == Spec => []DeltasExist
<1>1. ContentsInv => DeltasExist
  BY DEF ContentsInv, DeltaInv, Differs, DeltasExist
<1> QED  BY <1>1, ContentsInvariant, PTL

\* A synthesized unit never disagrees with the prefix and the unit it was made from,
\* in a registry that raises on redefinition (getName).
THEOREM SynthesizedStaysCurrent == Spec => []SynthesizedCurrent
<1>1. ContentsInv => SynthesizedCurrent
  BY DEF ContentsInv
<1> QED  BY <1>1, ContentsInvariant, PTL

\* A cached parse names units that can be looked up, but for the difference of a
\* logarithmic unit (ParseUnits, buildCaches).
THEOREM ParsedUnitsAlwaysDefined == Spec => []ParsedUnitsDefined
<1>1. ContentsInv => ParsedUnitsDefined
  BY DEF ContentsInv, DefinedInv, ParsedUnitsDefined
<1> QED  BY <1>1, ContentsInvariant, PTL

\* After every load that succeeds the index of products names exactly the products that
\* one unit is defined as, whatever the order in which the catalog is ranged over
\* (buildCaches, catalogExprIndex), and looking names up does not change it.
THEOREM IndexedProductsUnique == Spec => []UniqueProducts
<1>1. ContentsInv => UniqueProducts
  BY DEF ContentsInv, IndexInv, UniqueProducts
<1> QED  BY <1>1, ContentsInvariant, PTL

=============================================================================
