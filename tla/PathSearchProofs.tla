-------------------------- MODULE PathSearchProofs --------------------------
(***************************************************************************)
(* The search of contextPath for any contexts and any dimensions: it ends  *)
(* within as many turns as there are dimensions, finds a path whenever the *)
(* transforms lead from the one to the other, and none is shorter.         *)
(*                                                                         *)
(* A loop of the code is a recursive function here, so each begins with    *)
(* the lemma that there is such a function: the facts about recursive      *)
(* functions in the library cannot be instantiated.  Induction is over     *)
(* sets of numbers for the same reason.                                    *)
(***************************************************************************)
EXTENDS ContextScopes, SequenceTheorems, FiniteSetTheorems, WellFoundedInduction, TLAPS

-----------------------------------------------------------------------------
(* Induction and loops *)

\* A set of numbers that has 0 and the successor of each of its members has them all.
LEMMA SetInduction ==
  ASSUME NEW T, 0 \in T, \A n \in Nat : n \in T => n + 1 \in T
  PROVE  \A n \in Nat : n \in T
<1> SUFFICES ASSUME Nat \ T # {} PROVE FALSE
  OBVIOUS
<1>1. PICK m \in Nat \ T : \A k \in Nat \ T : ~(<<k, m>> \in OpToRel(<, Nat))
  BY NatLessThanWellFounded, WFMin, Zenon
<1>2. m # 0
  OBVIOUS
<1>3. m - 1 \in Nat /\ m - 1 < m /\ (m - 1) + 1 = m
  BY <1>2
<1>4. m - 1 \in T
  BY <1>1, <1>3 DEF OpToRel
<1> QED  BY <1>3, <1>4

\* The loop over the transforms, for one path taken from the queue.
Loop(path, start, T) ==
  LET loop[i \in 0..Len(T)] ==
        IF i = 0 THEN start ELSE Extend(path, loop[i - 1], T[i])
  IN  loop

\* The loop over the transforms exists as a function, and each turn extends the one before.
LEMMA LoopTurns ==
  ASSUME NEW path, NEW start, NEW T, Len(T) \in Nat
  PROVE  /\ Loop(path, start, T)[0] = start
         /\ \A i \in 1..Len(T) : Loop(path, start, T)[i] = Extend(path, Loop(path, start, T)[i - 1], T[i])
<1> DEFINE IsLoop(f, m) == f = [i \in 0..m |-> IF i = 0 THEN start ELSE Extend(path, f[i - 1], T[i])]
           Good == {m \in Nat : \E f : IsLoop(f, m)}
<1>1. 0 \in Good
  <2>1. IsLoop([i \in 0..0 |-> start], 0)
    OBVIOUS
  <2> QED  BY <2>1
<1>2. ASSUME NEW m \in Nat, m \in Good PROVE m + 1 \in Good
  <2>1. PICK f : IsLoop(f, m)
    BY <1>2
  <2> DEFINE g == [i \in 0..(m + 1) |->
                     IF i = m + 1 THEN Extend(path, f[m], T[m + 1]) ELSE f[i]]
  <2>2. \A i \in 0..m : g[i] = f[i] /\ f[i] = IF i = 0 THEN start ELSE Extend(path, f[i - 1], T[i])
    BY <2>1
  <2>3. \A i \in 0..(m + 1) : g[i] = IF i = 0 THEN start ELSE Extend(path, g[i - 1], T[i])
    <3> SUFFICES ASSUME NEW i \in 0..(m + 1)
                 PROVE  g[i] = IF i = 0 THEN start ELSE Extend(path, g[i - 1], T[i])
      OBVIOUS
    <3>1. CASE i = m + 1
      BY <2>2, <3>1
    <3>2. CASE i # m + 1
      BY <2>2, <3>2
    <3> QED  BY <3>1, <3>2
  <2>4. IsLoop(g, m + 1)
    BY <2>3
  <2> HIDE DEF g, IsLoop
  <2>5. \E h : IsLoop(h, m + 1)
    BY <2>4
  <2> QED  BY <2>5
<1>3. Len(T) \in Good
  <2> HIDE DEF Good
  <2> QED  BY <1>1, <1>2, SetInduction
<1>4. PICK f : IsLoop(f, Len(T))
  BY <1>3
<1>5. IsLoop(Loop(path, start, T), Len(T))
  BY <1>4 DEF Loop
<1> QED  BY <1>5

\* The sequences put together, up to the i-th.
Flat(seqs, n) ==
  LET flatten[i \in 1..n] == IF i = 1 THEN seqs[i] ELSE flatten[i - 1] \o seqs[i]
  IN  flatten

\* The concatenation exists as a function, and each turn appends one sequence.
LEMMA FlatTurns ==
  ASSUME NEW seqs, NEW n \in Nat
  PROVE  \A i \in 1..n : Flat(seqs, n)[i] = IF i = 1 THEN seqs[i] ELSE Flat(seqs, n)[i - 1] \o seqs[i]
<1> DEFINE IsFlat(f, m) == f = [i \in 1..m |-> IF i = 1 THEN seqs[i] ELSE f[i - 1] \o seqs[i]]
           Good == {m \in Nat : \E f : IsFlat(f, m)}
<1>1. 0 \in Good
  <2>1. IsFlat([i \in 1..0 |-> seqs[i]], 0)
    OBVIOUS
  <2> QED  BY <2>1
<1>2. ASSUME NEW m \in Nat, m \in Good PROVE m + 1 \in Good
  <2>1. PICK f : IsFlat(f, m)
    BY <1>2
  <2> DEFINE g == [i \in 1..(m + 1) |->
                     IF i = 1 THEN seqs[i]
                     ELSE IF i = m + 1 THEN f[m] \o seqs[m + 1] ELSE f[i]]
  <2>2. \A i \in 1..m : g[i] = f[i] /\ f[i] = IF i = 1 THEN seqs[i] ELSE f[i - 1] \o seqs[i]
    <3>1. \A i \in 1..m : f[i] = IF i = 1 THEN seqs[i] ELSE f[i - 1] \o seqs[i]
      <4> HIDE DEF g
      <4> QED  BY <2>1
    <3>2. ASSUME NEW i \in 1..m PROVE g[i] = f[i]
      <4>1. i \in 1..(m + 1) /\ i # m + 1
        OBVIOUS
      <4>2. g[i] = IF i = 1 THEN seqs[i] ELSE f[i]
        BY <4>1
      <4> QED  BY <3>1, <4>2
    <3> QED  BY <3>1, <3>2
  <2>3. \A i \in 1..(m + 1) : g[i] = IF i = 1 THEN seqs[i] ELSE g[i - 1] \o seqs[i]
    <3> SUFFICES ASSUME NEW i \in 1..(m + 1)
                 PROVE  g[i] = IF i = 1 THEN seqs[i] ELSE g[i - 1] \o seqs[i]
      OBVIOUS
    <3>1. CASE i = 1
      BY <3>1
    <3>2. CASE i = m + 1 /\ i # 1
      <4>1. g[m] = f[m] /\ g[i] = f[m] \o seqs[m + 1] /\ i - 1 = m
        <5>1. i \in 1..(m + 1) /\ m \in 1..m /\ i - 1 = m
          BY <3>2
        <5>2. g[i] = f[m] \o seqs[m + 1]
          BY <3>2, <5>1
        <5> QED  BY <2>2, <5>1, <5>2
      <4> QED  BY <3>2, <4>1
    <3>3. CASE i # m + 1 /\ i # 1
      <4>1. i \in 1..m /\ i - 1 \in 1..m
        BY <3>3
      <4>2. g[i] = f[i] /\ g[i - 1] = f[i - 1] /\ f[i] = f[i - 1] \o seqs[i]
        BY <2>2, <3>3, <4>1
      <4> HIDE DEF g
      <4> QED  BY <3>3, <4>2
    <3> QED  BY <3>1, <3>2, <3>3
  <2>4. IsFlat(g, m + 1)
    BY <2>3
  <2> HIDE DEF g, IsFlat
  <2>5. \E h : IsFlat(h, m + 1)
    BY <2>4
  <2> QED  BY <2>5
<1>3. n \in Good
  <2> HIDE DEF Good
  <2> QED  BY <1>1, <1>2, SetInduction
<1>4. PICK f : IsFlat(f, n)
  BY <1>3
<1>5. IsFlat(Flat(seqs, n), n)
  BY <1>4 DEF Flat
<1> QED  BY <1>5

\* FlattenSeq puts sequences over a set together to one over it.
LEMMA FlattenTyped ==
  ASSUME NEW S, NEW seqs, NEW n \in Nat, Len(seqs) = n, seqs \in Seq(Seq(S))
  PROVE  FlattenSeq(seqs) \in Seq(S)
<1>1. CASE n = 0
  BY <1>1 DEF FlattenSeq
<1>2. CASE n # 0
  <2>1. FlattenSeq(seqs) = Flat(seqs, n)[n]
    BY <1>2, Zenon DEF FlattenSeq, Flat
  <2>2. \A i \in 1..n : seqs[i] \in Seq(S)
    OBVIOUS
  <2> DEFINE flat == Flat(seqs, n)
  <2>3. \A i \in 1..n : flat[i] = IF i = 1 THEN seqs[i] ELSE flat[i - 1] \o seqs[i]
    BY FlatTurns
  <2> HIDE DEF flat
  <2> DEFINE Typed == {m \in Nat : m + 1 <= n => flat[m + 1] \in Seq(S)}
  <2>4. 0 \in Typed
    <3>1. 1 \in 1..n
      BY <1>2
    <3>2. flat[1] = seqs[1]
      BY <2>3, <3>1
    <3> QED  BY <2>2, <3>1, <3>2
  <2>5. ASSUME NEW m \in Nat, m \in Typed PROVE m + 1 \in Typed
    <3>1. ASSUME m + 2 <= n PROVE flat[m + 2] \in Seq(S)
      <4>1. m + 2 \in 1..n /\ m + 2 # 1 /\ (m + 2) - 1 = m + 1
        BY <3>1
      <4>2. flat[m + 2] = flat[m + 1] \o seqs[m + 2]
        BY <2>3, <4>1
      <4>3. flat[m + 1] \in Seq(S) /\ seqs[m + 2] \in Seq(S)
        BY <2>2, <2>5, <3>1, <4>1
      <4> QED  BY <4>2, <4>3
    <3>2. (m + 1) + 1 = m + 2
      OBVIOUS
    <3> QED  BY <3>1, <3>2
  <2>6. n - 1 \in Typed
    <3>1. n - 1 \in Nat
      BY <1>2
    <3> HIDE DEF Typed
    <3>2. \A m \in Nat : m \in Typed
      BY <2>4, <2>5, SetInduction
    <3> QED  BY <3>1, <3>2
  <2>7. flat[n] \in Seq(S)
    <3>1. (n - 1) + 1 = n
      OBVIOUS
    <3> QED  BY <2>6, <3>1
  <2> QED  BY <2>1, <2>7 DEF flat
<1> QED  BY <1>1, <1>2

-----------------------------------------------------------------------------
(* What transforms reach within n hops *)

\* The transforms of a scope are a list, and lead between dimensions.
Mapped(scope) ==
  /\ Len(Transforms(scope)) \in Nat
  /\ DOMAIN Transforms(scope) = 1..Len(Transforms(scope))
  /\ \A i \in 1..Len(Transforms(scope)) :
       Transforms(scope)[i].src \in Dim /\ Transforms(scope)[i].dst \in Dim

\* Two dimensions have an edge when a transform leads from the one to the other.
LEMMA EdgeIsTransform ==
  ASSUME NEW scope, Mapped(scope), NEW a, NEW b
  PROVE  Edge(scope, a, b) <=>
           \E i \in 1..Len(Transforms(scope)) :
             Transforms(scope)[i].src = a /\ Transforms(scope)[i].dst = b
BY Zenon DEF Edge, Matching, Mapped

\* One hop more.
Wider(scope, close) == close \cup {b \in Dim : \E a \in close : Edge(scope, a, b)}

Near(scope, src, n) ==
  LET near[k \in 0..n] == IF k = 0 THEN {src} ELSE Wider(scope, near[k - 1])
  IN  near

\* The recursion of WithinHops has a solution.
LEMMA NearTurns ==
  ASSUME NEW scope, NEW src, NEW n \in Nat
  PROVE  /\ Near(scope, src, n)[0] = {src}
         /\ \A k \in 1..n : Near(scope, src, n)[k] = Wider(scope, Near(scope, src, n)[k - 1])
<1> DEFINE IsNear(f, m) == f = [k \in 0..m |-> IF k = 0 THEN {src} ELSE Wider(scope, f[k - 1])]
           Good == {m \in Nat : \E f : IsNear(f, m)}
<1>1. 0 \in Good
  <2>1. IsNear([k \in 0..0 |-> {src}], 0)
    OBVIOUS
  <2> QED  BY <2>1
<1>2. ASSUME NEW m \in Nat, m \in Good PROVE m + 1 \in Good
  <2>1. PICK f : IsNear(f, m)
    BY <1>2
  <2> DEFINE g == [k \in 0..(m + 1) |-> IF k = m + 1 THEN Wider(scope, f[m]) ELSE f[k]]
  <2>2. \A k \in 0..m : g[k] = f[k] /\ f[k] = IF k = 0 THEN {src} ELSE Wider(scope, f[k - 1])
    <3>1. \A k \in 0..m : f[k] = IF k = 0 THEN {src} ELSE Wider(scope, f[k - 1])
      <4> HIDE DEF g
      <4> QED  BY <2>1
    <3>2. ASSUME NEW k \in 0..m PROVE g[k] = f[k]
      <4>1. k \in 0..(m + 1) /\ k # m + 1
        OBVIOUS
      <4> QED  BY <4>1
    <3> QED  BY <3>1, <3>2
  <2>3. \A k \in 0..(m + 1) : g[k] = IF k = 0 THEN {src} ELSE Wider(scope, g[k - 1])
    <3> SUFFICES ASSUME NEW k \in 0..(m + 1)
                 PROVE  g[k] = IF k = 0 THEN {src} ELSE Wider(scope, g[k - 1])
      OBVIOUS
    <3>1. CASE k = m + 1
      BY <2>2, <3>1
    <3>2. CASE k # m + 1
      <4>1. k \in 0..m /\ (k # 0 => k - 1 \in 0..m)
        BY <3>2
      <4> HIDE DEF g
      <4> QED  BY <2>2, <4>1
    <3> QED  BY <3>1, <3>2
  <2>4. IsNear(g, m + 1)
    BY <2>3
  <2> HIDE DEF g, IsNear
  <2>5. \E h : IsNear(h, m + 1)
    BY <2>4
  <2> QED  BY <2>5
<1>3. n \in Good
  <2> HIDE DEF Good
  <2> QED  BY <1>1, <1>2, SetInduction
<1>4. PICK f : IsNear(f, n)
  BY <1>3
<1>5. IsNear(Near(scope, src, n), n)
  BY <1>4 DEF Near
<1> HIDE DEF Near
<1>6. \A k \in 0..n : Near(scope, src, n)[k] = IF k = 0 THEN {src} ELSE Wider(scope, Near(scope, src, n)[k - 1])
  BY <1>5
<1>7. 0 \in 0..n /\ \A k \in 1..n : k \in 0..n /\ k # 0
  OBVIOUS
<1> QED  BY <1>6, <1>7

\* WithinHops takes one hop more at each number.
LEMMA HopsWiden ==
  ASSUME NEW scope, NEW src, NEW n \in Nat
  PROVE  /\ WithinHops(scope, src, 0) = {src}
         /\ WithinHops(scope, src, n + 1) = Wider(scope, WithinHops(scope, src, n))
<1>1. ASSUME NEW m \in Nat PROVE WithinHops(scope, src, m) = Near(scope, src, m)[m]
  BY Zenon DEF WithinHops, Near, Wider
<1> DEFINE near(m) == Near(scope, src, m)
<1>2. \A m \in Nat : near(m)[0] = {src} /\ \A k \in 1..m : near(m)[k] = Wider(scope, near(m)[k - 1])
  <2> TAKE m \in Nat
  <2>1. Near(scope, src, m)[0] = {src}
    BY NearTurns
  <2>2. \A k \in 1..m : Near(scope, src, m)[k] = Wider(scope, Near(scope, src, m)[k - 1])
    BY NearTurns
  <2> QED  BY <2>1, <2>2
<1> HIDE DEF near
<1> DEFINE Same == {k \in Nat : k <= n => near(n)[k] = near(n + 1)[k]}
<1>3. 0 \in Same
  <2>1. near(n)[0] = {src} /\ near(n + 1)[0] = {src}
    BY <1>2
  <2> QED  BY <2>1
<1>4. ASSUME NEW k \in Nat, k \in Same PROVE k + 1 \in Same
  <2> SUFFICES ASSUME k + 1 <= n PROVE near(n)[k + 1] = near(n + 1)[k + 1]
    OBVIOUS
  <2>1. k + 1 \in 1..n /\ k + 1 \in 1..(n + 1) /\ (k + 1) - 1 = k
    OBVIOUS
  <2>2. near(n)[k + 1] = Wider(scope, near(n)[k])
    BY <1>2, <2>1
  <2>3. near(n + 1)[k + 1] = Wider(scope, near(n + 1)[k])
    BY <1>2, <2>1
  <2> QED  BY <1>4, <2>2, <2>3
<1>5. n \in Same
  <2> HIDE DEF Same
  <2> QED  BY <1>3, <1>4, SetInduction
<1>6. near(n + 1)[n + 1] = Wider(scope, near(n + 1)[n])
  <2>1. n + 1 \in 1..(n + 1) /\ (n + 1) - 1 = n
    OBVIOUS
  <2> QED  BY <1>2, <2>1
<1>7. near(0)[0] = {src}
  BY <1>2
<1> QED  BY <1>1, <1>5, <1>6, <1>7 DEF near

\* What is near stays near.
LEMMA HopsGrow ==
  ASSUME NEW scope, NEW src, NEW m \in Nat, NEW n \in Nat, m <= n
  PROVE  WithinHops(scope, src, m) \subseteq WithinHops(scope, src, n)
<1> DEFINE W(k) == WithinHops(scope, src, k)
           Good == {k \in Nat : W(m) \subseteq W(m + k)}
<1>1. 0 \in Good
  OBVIOUS
<1>2. ASSUME NEW k \in Nat, k \in Good PROVE k + 1 \in Good
  <2>1. W((m + k) + 1) = Wider(scope, W(m + k))
    BY HopsWiden
  <2>2. (m + k) + 1 = m + (k + 1)
    OBVIOUS
  <2> HIDE DEF W
  <2>3. W(m + k) \subseteq Wider(scope, W(m + k))
    BY DEF Wider
  <2>4. W(m) \subseteq W(m + (k + 1))
    BY <1>2, <2>1, <2>2, <2>3
  <2> QED  BY <2>4
<1>3. n - m \in Good
  <2>1. n - m \in Nat
    OBVIOUS
  <2> HIDE DEF Good
  <2>2. \A k \in Nat : k \in Good
    BY <1>1, <1>2, SetInduction
  <2> QED  BY <2>1, <2>2
<1>4. m + (n - m) = n
  OBVIOUS
<1> QED  BY <1>3, <1>4

\* A set that no transform leaves holds all that is near.
LEMMA HopsStay ==
  ASSUME NEW scope, NEW src, NEW S, src \in S,
         \A a \in S : \A b \in Dim : Edge(scope, a, b) => b \in S
  PROVE  \A n \in Nat : WithinHops(scope, src, n) \subseteq S
<1> DEFINE W(k) == WithinHops(scope, src, k)
           Good == {k \in Nat : W(k) \subseteq S}
<1>1. 0 \in Good
  <2>1. W(0) = {src}
    BY HopsWiden
  <2> QED  BY <2>1
<1>2. ASSUME NEW k \in Nat, k \in Good PROVE k + 1 \in Good
  <2>1. W(k + 1) = Wider(scope, W(k))
    BY HopsWiden
  <2> HIDE DEF W
  <2>2. W(k) \subseteq S
    BY <1>2
  <2>3. Wider(scope, W(k)) \subseteq S
    BY <2>2 DEF Wider
  <2> QED  BY <2>1, <2>3
<1>3. \A n \in Nat : n \in Good
  <2> HIDE DEF Good
  <2> QED  BY <1>1, <1>2, SetInduction
<1> QED  BY <1>3

\* A walk along transforms from src.
IsTrail(scope, src, path) ==
  /\ path \in Seq(Dim) /\ path # << >> /\ path[1] = src
  /\ \A i \in 1..(Len(path) - 1) : Edge(scope, path[i], path[i + 1])

\* The end of a walk is as near as the walk is long.
LEMMA TrailReaches ==
  ASSUME NEW scope, NEW src, NEW path, IsTrail(scope, src, path)
  PROVE  Last(path) \in WithinHops(scope, src, Len(path) - 1)
<1> DEFINE W(k) == WithinHops(scope, src, k)
           Good == {k \in Nat : k + 1 <= Len(path) => path[k + 1] \in W(k)}
<1>1. Len(path) \in Nat /\ Len(path) > 0 /\ \A i \in 1..Len(path) : path[i] \in Dim
  BY DEF IsTrail
<1>2. 0 \in Good
  <2>1. W(0) = {src}
    BY HopsWiden
  <2> QED  BY <2>1 DEF IsTrail
<1>3. ASSUME NEW k \in Nat, k \in Good PROVE k + 1 \in Good
  <2>1. W(k + 1) = Wider(scope, W(k))
    BY HopsWiden
  <2> HIDE DEF W
  <2>2. ASSUME k + 2 <= Len(path) PROVE path[k + 2] \in W(k + 1)
    <3>1. path[k + 1] \in W(k) /\ path[k + 2] \in Dim
      BY <1>1, <1>3, <2>2
    <3>2. k + 1 \in 1..(Len(path) - 1) /\ (k + 1) + 1 = k + 2
      BY <1>1, <2>2
    <3>3. Edge(scope, path[k + 1], path[k + 2])
      BY <3>2 DEF IsTrail
    <3> QED  BY <2>1, <3>1, <3>3 DEF Wider
  <2>3. (k + 1) + 1 = k + 2
    OBVIOUS
  <2> QED  BY <2>2, <2>3
<1>4. Len(path) - 1 \in Good
  <2>1. Len(path) - 1 \in Nat
    BY <1>1
  <2> HIDE DEF Good
  <2>2. \A k \in Nat : k \in Good
    BY <1>2, <1>3, SetInduction
  <2> QED  BY <2>1, <2>2
<1>5. (Len(path) - 1) + 1 = Len(path)
  BY <1>1
<1> QED  BY <1>1, <1>4, <1>5 DEF Last

-----------------------------------------------------------------------------
(* One path of the queue *)

\* What the first i transforms have made of the search, path being the one taken
\* from the queue: the queue has grown at its end, by paths to dimensions first
\* seen now, and every dimension the transforms lead to has been seen.
Extended(path, start, T, i, search) ==
  LET old == Len(start.queue)
      new == Len(search.queue)
  IN  /\ search \in [queue : Seq(Seq(Dim)), seen : SUBSET Dim]
      /\ old <= new /\ start.seen \subseteq search.seen
      /\ \A j \in 1..old : search.queue[j] = start.queue[j]
      /\ \A j \in (old + 1)..new : \E k \in 1..Len(T) :
           /\ T[k].src = Last(path) /\ T[k].dst \in search.seen \ start.seen
           /\ search.queue[j] = Append(path, T[k].dst)
      /\ \A k \in 1..i : T[k].src = Last(path) => T[k].dst \in search.seen
      /\ \A d \in search.seen \ start.seen : \E j \in (old + 1)..new :
           search.queue[j] = Append(path, d)
      /\ Cardinality(search.seen) - new = Cardinality(start.seen) - old

\* Each transform keeps that.
LEMMA ExtendExtends ==
  ASSUME NEW path \in Seq(Dim), NEW start, NEW T, NEW i \in Nat, NEW search,
         Len(T) \in Nat, i + 1 <= Len(T), T[i + 1].dst \in Dim,
         Len(start.queue) \in Nat, Extended(path, start, T, i, search)
  PROVE  Extended(path, start, T, i + 1, Extend(path, search, T[i + 1]))
<1> DEFINE d == T[i + 1].dst
           old == Len(start.queue)
           new == Len(search.queue)
           next == Extend(path, search, T[i + 1])
<1>1. search.queue \in Seq(Seq(Dim)) /\ search.seen \in SUBSET Dim /\ new \in Nat
  BY DEF Extended
<1>0. old \in Nat
  OBVIOUS
<1>2. CASE T[i + 1].src = Last(path) /\ d \notin search.seen
  <2>1. next.queue = Append(search.queue, Append(path, d)) /\ next.seen = search.seen \cup {d}
    BY <1>2 DEF Extend
  <2>2. Append(path, d) \in Seq(Dim)
    OBVIOUS
  <2>0. next = [queue |-> next.queue, seen |-> next.seen]
    BY <1>2 DEF Extend
  <2>3. /\ next.queue \in Seq(Seq(Dim)) /\ next.seen \in SUBSET Dim
        /\ Len(next.queue) = new + 1
        /\ \A j \in 1..new : next.queue[j] = search.queue[j]
        /\ next.queue[new + 1] = Append(path, d)
    <3> HIDE DEF next, d
    <3>1. d \in Dim
      BY DEF d
    <3> QED  BY <1>1, <2>1, <2>2, <3>1
  <2>4. Cardinality(next.seen) = Cardinality(search.seen) + 1 /\ Cardinality(search.seen) \in Nat
    <3>1. IsFiniteSet(search.seen)
      BY <1>1, ScopeAssumption, FS_Subset
    <3> HIDE DEF next, d
    <3> QED  BY <1>2, <2>1, <3>1, FS_AddElement, FS_CardinalityType
  <2> HIDE DEF next
  <2>5. old <= new + 1 /\ start.seen \subseteq next.seen
    BY <1>1, <2>1 DEF Extended
  <2>6. \A j \in 1..old : next.queue[j] = start.queue[j]
    BY <1>1, <2>3 DEF Extended
  <2>7. ASSUME NEW j \in (old + 1)..(new + 1)
        PROVE  \E k \in 1..Len(T) :
                 /\ T[k].src = Last(path) /\ T[k].dst \in next.seen \ start.seen
                 /\ next.queue[j] = Append(path, T[k].dst)
    <3>1. CASE j = new + 1
      <4>1. d \notin start.seen
        BY <1>2 DEF Extended
      <4>2. i + 1 \in 1..Len(T)
        OBVIOUS
      <4> QED  BY <1>2, <2>1, <2>3, <3>1, <4>1, <4>2
    <3>2. CASE j # new + 1
      <4>1. j \in (old + 1)..new /\ j \in 1..new
        <5> HIDE DEF old, new
        <5> QED  BY <1>0, <1>1, <3>2
      <4>2. PICK k \in 1..Len(T) :
              /\ T[k].src = Last(path) /\ T[k].dst \in search.seen \ start.seen
              /\ search.queue[j] = Append(path, T[k].dst)
        BY <4>1 DEF Extended
      <4> QED  BY <2>1, <2>3, <4>1, <4>2
    <3> QED  BY <3>1, <3>2
  <2>8. ASSUME NEW k \in 1..(i + 1), T[k].src = Last(path) PROVE T[k].dst \in next.seen
    BY <2>1, <2>8 DEF Extended
  <2>9. ASSUME NEW x \in next.seen \ start.seen
        PROVE  \E j \in (old + 1)..(new + 1) : next.queue[j] = Append(path, x)
    <3>1. CASE x = d
      <4>1. new + 1 \in (old + 1)..(new + 1)
        BY <1>1 DEF Extended
      <4> QED  BY <2>3, <3>1, <4>1
    <3>2. CASE x # d
      <4>1. PICK j \in (old + 1)..new : search.queue[j] = Append(path, x)
        BY <2>1, <3>2 DEF Extended
      <4>2. j \in 1..new /\ j \in (old + 1)..(new + 1)
        <5> HIDE DEF old, new
        <5> QED  BY <1>0, <1>1
      <4> QED  BY <2>3, <4>1, <4>2
    <3> QED  BY <3>1, <3>2
  <2>10. Cardinality(next.seen) - (new + 1) = Cardinality(start.seen) - old
    <3>1. Cardinality(search.seen) - new = Cardinality(start.seen) - old
      BY DEF Extended
    <3> QED  BY <1>1, <2>4, <3>1
  <2> HIDE DEF d
  <2>11. Extended(path, start, T, i + 1, next)
    BY <2>0, <2>3, <2>5, <2>6, <2>7, <2>8, <2>9, <2>10 DEF Extended
  <2> QED  BY <2>11 DEF next
<1>3. CASE ~(T[i + 1].src = Last(path) /\ d \notin search.seen)
  <2>1. next = search
    BY <1>3 DEF Extend
  <2>2. \A k \in 1..(i + 1) : T[k].src = Last(path) => T[k].dst \in search.seen
    BY <1>3 DEF Extended
  <2> HIDE DEF next, d
  <2>3. Extended(path, start, T, i + 1, search)
    BY <2>2 DEF Extended
  <2> QED  BY <2>1, <2>3 DEF next
<1> QED  BY <1>2, <1>3

\* So the whole loop does.
LEMMA LoopExtends ==
  ASSUME NEW path \in Seq(Dim), NEW start, NEW T, Len(T) \in Nat,
         \A i \in 1..Len(T) : T[i].dst \in Dim,
         start \in [queue : Seq(Seq(Dim)), seen : SUBSET Dim]
  PROVE  Extended(path, start, T, Len(T), Loop(path, start, T)[Len(T)])
<1> DEFINE loop == Loop(path, start, T)
           Good == {i \in Nat : i <= Len(T) => Extended(path, start, T, i, loop[i])}
<1>1. loop[0] = start /\ \A i \in 1..Len(T) : loop[i] = Extend(path, loop[i - 1], T[i])
  <2>1. Loop(path, start, T)[0] = start
    BY LoopTurns
  <2>2. \A i \in 1..Len(T) : Loop(path, start, T)[i] = Extend(path, Loop(path, start, T)[i - 1], T[i])
    BY LoopTurns
  <2> QED  BY <2>1, <2>2
<1> HIDE DEF loop
<1>2. Len(start.queue) \in Nat
  OBVIOUS
<1>3. 0 \in Good
  <2>1. Extended(path, start, T, 0, start)
    BY <1>2, SMT DEF Extended
  <2> QED  BY <1>1, <2>1
<1>4. ASSUME NEW i \in Nat, i \in Good PROVE i + 1 \in Good
  <2> SUFFICES ASSUME i + 1 <= Len(T) PROVE Extended(path, start, T, i + 1, loop[i + 1])
    OBVIOUS
  <2>1. i + 1 \in 1..Len(T) /\ (i + 1) - 1 = i
    OBVIOUS
  <2>2. loop[i + 1] = Extend(path, loop[i], T[i + 1])
    BY <1>1, <2>1
  <2>3. Extended(path, start, T, i, loop[i])
    BY <1>4
  <2>4. Extended(path, start, T, i + 1, Extend(path, loop[i], T[i + 1]))
    BY <1>2, <2>1, <2>3, ExtendExtends
  <2> QED  BY <2>2, <2>4
<1>5. Len(T) \in Good
  <2> HIDE DEF Good
  <2> QED  BY <1>3, <1>4, SetInduction
<1> QED  BY <1>5 DEF loop

-----------------------------------------------------------------------------
(* The turns of the search *)

Stuck(dst, search) == search.queue = << >> \/ Last(Head(search.queue)) = dst

\* The queue holds walks from src to dimensions that have been seen ...
Queued(scope, src, search) ==
  /\ search \in [queue : Seq(Seq(Dim)), seen : SUBSET Dim] /\ src \in search.seen
  /\ \A j \in 1..Len(search.queue) :
       IsTrail(scope, src, search.queue[j]) /\ Last(search.queue[j]) \in search.seen

\* ... the shorter ones first, of two lengths at most ...
Ordered(search) ==
  /\ \A j \in 1..Len(search.queue) : Len(search.queue[j]) <= Len(search.queue[1]) + 1
  /\ \A j, k \in 1..Len(search.queue) :
       j <= k => Len(search.queue[j]) <= Len(search.queue[k])

\* ... each as short as it can be ...
Shortest(scope, src, search) ==
  \A j \in 1..Len(search.queue) :
    Len(search.queue[j]) >= 2 =>
      Last(search.queue[j]) \notin WithinHops(scope, src, Len(search.queue[j]) - 2)

\* ... and what has been seen and is not in the queue is not dst and left behind.
Explored(scope, dst, search) ==
  \A x \in search.seen :
    \/ \E j \in 1..Len(search.queue) : Last(search.queue[j]) = x
    \/ x # dst /\ \A y \in Dim : Edge(scope, x, y) => y \in search.seen

\* All that is nearer than the head of the queue has been seen.
Swept(scope, src, search) ==
  search.queue # << >> =>
    WithinHops(scope, src, Len(search.queue[1]) - 1) \subseteq search.seen

\* A turn takes one path from the queue, and a dimension seen is a path put there.
Counted(dst, n, search) ==
  /\ Stuck(dst, search) \/ Cardinality(search.seen) = Len(search.queue) + n
  /\ \A j \in 1..Len(search.queue) : Len(search.queue[j]) <= n + 1

SearchInv(scope, src, dst, n, search) ==
  /\ Queued(scope, src, search)
  /\ Ordered(search)
  /\ Shortest(scope, src, search)
  /\ Explored(scope, dst, search)
  /\ Swept(scope, src, search)
  /\ Counted(dst, n, search)

\* A walk and one transform more are a walk.
LEMMA TrailGrows ==
  ASSUME NEW scope, NEW src, NEW path, IsTrail(scope, src, path),
         NEW d \in Dim, Edge(scope, Last(path), d)
  PROVE  /\ IsTrail(scope, src, Append(path, d))
         /\ Last(Append(path, d)) = d /\ Len(Append(path, d)) = Len(path) + 1
<1> DEFINE more == Append(path, d)
<1>1. path \in Seq(Dim) /\ path # << >> /\ path[1] = src /\ Len(path) \in Nat /\ Len(path) >= 1
  BY DEF IsTrail
<1>2. /\ more \in Seq(Dim) /\ Len(more) = Len(path) + 1 /\ more[Len(path) + 1] = d
      /\ \A i \in 1..Len(path) : more[i] = path[i]
  BY <1>1
<1> HIDE DEF more
<1>3. more # << >> /\ more[1] = src /\ Last(more) = d
  BY <1>1, <1>2 DEF Last
<1>4. ASSUME NEW i \in 1..(Len(more) - 1) PROVE Edge(scope, more[i], more[i + 1])
  <2>1. i \in 1..Len(path)
    BY <1>1, <1>2
  <2>2. CASE i = Len(path)
    BY <1>2, <2>1, <2>2 DEF Last
  <2>3. CASE i # Len(path)
    <3>1. i \in 1..(Len(path) - 1) /\ i + 1 \in 1..Len(path)
      BY <1>1, <2>1, <2>3
    <3>2. Edge(scope, path[i], path[i + 1])
      BY <3>1 DEF IsTrail
    <3> QED  BY <1>2, <2>1, <3>1, <3>2
  <2> QED  BY <2>2, <2>3
<1>5. IsTrail(scope, src, more)
  BY <1>2, <1>3, <1>4 DEF IsTrail
<1> QED  BY <1>2, <1>3, <1>5 DEF more

\* A turn that is not stuck, q being the queue before and p the path at its head:
\* the rest of the queue moves up and walks one longer than p to dimensions not
\* seen before come after it; all that p leads to has been seen.
Advanced(scope, st, next) ==
  LET q == st.queue
      p == q[1]
      m == Len(q) - 1
  IN  /\ next \in [queue : Seq(Seq(Dim)), seen : SUBSET Dim]
      /\ m <= Len(next.queue) /\ st.seen \subseteq next.seen
      /\ \A j \in 1..m : next.queue[j] = q[j + 1]
      /\ \A j \in (m + 1)..Len(next.queue) : \E d \in next.seen \ st.seen :
           Edge(scope, Last(p), d) /\ next.queue[j] = Append(p, d)
      /\ \A d \in Dim : Edge(scope, Last(p), d) => d \in next.seen
      /\ \A d \in next.seen \ st.seen : \E j \in (m + 1)..Len(next.queue) :
           next.queue[j] = Append(p, d)
      /\ Cardinality(next.seen) - Len(next.queue) = Cardinality(st.seen) - m

\* One turn of the search takes one path off the queue and adds each neighbour not yet seen, once.
LEMMA TurnAdvances ==
  ASSUME NEW scope, Mapped(scope), NEW src, NEW dst, NEW st,
         Queued(scope, src, st), ~Stuck(dst, st)
  PROVE  Advanced(scope, st, Turn(st, scope, dst))
<1> DEFINE T == Transforms(scope)
           q == st.queue
           p == q[1]
           m == Len(q) - 1
           start == [st EXCEPT !.queue = Tail(@)]
           next == Turn(st, scope, dst)
<1>1. /\ st \in [queue : Seq(Seq(Dim)), seen : SUBSET Dim]
      /\ q \in Seq(Seq(Dim)) /\ q # << >> /\ Head(q) = p
  BY DEF Queued, Stuck
<1>2. p \in Seq(Dim) /\ m \in Nat
  BY <1>1
<1>3. /\ start \in [queue : Seq(Seq(Dim)), seen : SUBSET Dim] /\ start.seen = st.seen
      /\ Len(start.queue) = m /\ \A j \in 1..m : start.queue[j] = q[j + 1]
  <2>1. Tail(q) \in Seq(Seq(Dim)) /\ Len(Tail(q)) = m /\ \A j \in 1..m : Tail(q)[j] = q[j + 1]
    BY <1>1
  <2>2. start.queue = Tail(q) /\ start.seen = st.seen
    BY <1>1
  <2>3. start \in [queue : Seq(Seq(Dim)), seen : SUBSET Dim]
    BY <1>1, <2>1
  <2> QED  BY <2>1, <2>2, <2>3
<1>4. next = Loop(p, start, T)[Len(T)]
  BY <1>1, Zenon DEF Turn, Loop, Stuck
<1>5. Len(T) \in Nat /\ \A i \in 1..Len(T) : T[i].dst \in Dim
  BY DEF Mapped
<1>6. \A a, b : Edge(scope, a, b) <=> \E i \in 1..Len(T) : T[i].src = a /\ T[i].dst = b
  BY EdgeIsTransform
<1> HIDE DEF T, next, start
<1>7. Extended(p, start, T, Len(T), next)
  BY <1>2, <1>3, <1>4, <1>5, LoopExtends
<1> HIDE DEF p
<1>8. /\ next \in [queue : Seq(Seq(Dim)), seen : SUBSET Dim]
      /\ m <= Len(next.queue) /\ st.seen \subseteq next.seen
      /\ \A j \in 1..m : next.queue[j] = q[j + 1]
  BY <1>3, <1>7 DEF Extended
<1>9. \A j \in (m + 1)..Len(next.queue) : \E d \in next.seen \ st.seen :
        Edge(scope, Last(p), d) /\ next.queue[j] = Append(p, d)
  <2> TAKE j \in (m + 1)..Len(next.queue)
  <2>1. PICK k \in 1..Len(T) :
          /\ T[k].src = Last(p) /\ T[k].dst \in next.seen \ st.seen
          /\ next.queue[j] = Append(p, T[k].dst)
    BY <1>3, <1>7 DEF Extended
  <2> QED  BY <1>6, <2>1
<1>10. \A d \in Dim : Edge(scope, Last(p), d) => d \in next.seen
  BY <1>6, <1>7 DEF Extended
<1>11. \A d \in next.seen \ st.seen : \E j \in (m + 1)..Len(next.queue) : next.queue[j] = Append(p, d)
  BY <1>3, <1>7 DEF Extended
<1>12. Cardinality(next.seen) - Len(next.queue) = Cardinality(st.seen) - m
  BY <1>3, <1>7 DEF Extended
<1> QED  BY <1>8, <1>9, <1>10, <1>11, <1>12 DEF Advanced, next, p

\* Every turn keeps the invariant of the search.
LEMMA TurnKeeps ==
  ASSUME NEW scope, Mapped(scope), NEW src, NEW dst, NEW n \in Nat, NEW st,
         SearchInv(scope, src, dst, n, st)
  PROVE  SearchInv(scope, src, dst, n + 1, Turn(st, scope, dst))
<1>1. CASE Stuck(dst, st)
  <2>1. Turn(st, scope, dst) = st
    BY <1>1 DEF Turn, Stuck
  <2>2. \A j \in 1..Len(st.queue) : st.queue[j] \in Seq(Dim) /\ Len(st.queue[j]) \in Nat
    BY DEF SearchInv, Queued
  <2>3. Counted(dst, n + 1, st)
    BY <1>1, <2>2 DEF SearchInv, Counted
  <2> QED  BY <2>1, <2>3 DEF SearchInv
<1>2. CASE ~Stuck(dst, st)
  <2> DEFINE q == st.queue
             p == q[1]
             L == Len(p)
             m == Len(q) - 1
             W(k) == WithinHops(scope, src, k)
  <2>1. PICK next : next = Turn(st, scope, dst)
    OBVIOUS
  <2>2. Queued(scope, src, st)
    BY DEF SearchInv
  <2>3. Advanced(scope, st, next)
    BY <1>2, <2>1, <2>2, TurnAdvances
  <2>4. /\ q \in Seq(Seq(Dim)) /\ q # << >> /\ m \in Nat /\ Head(q) = p /\ 1 \in 1..Len(q)
        /\ \A j \in 1..Len(q) : IsTrail(scope, src, q[j]) /\ Len(q[j]) \in Nat /\ Len(q[j]) >= 1
    BY <1>2, <2>2 DEF Queued, Stuck, IsTrail
  <2>5. L \in Nat /\ L >= 1 /\ IsTrail(scope, src, p)
    BY <2>4
  <2> DEFINE qq == next.queue
  <2>6. qq \in Seq(Seq(Dim)) /\ Len(qq) \in Nat /\ m <= Len(qq) /\ st.seen \subseteq next.seen
        /\ next.seen \subseteq Dim
    BY <2>3 DEF Advanced
  <2>7. \A j \in 1..m : j + 1 \in 1..Len(q) /\ qq[j] = q[j + 1]
    BY <2>3, <2>4 DEF Advanced
  <2>8. \A j \in 1..Len(qq) : j \in 1..m \/ j \in (m + 1)..Len(qq)
    BY <2>4, <2>6
  \* The rest of the queue has L or L + 1 elements each, the new walks have L + 1.
  <2>9. \A j \in 1..m : Len(qq[j]) \in Nat /\ L <= Len(qq[j]) /\ Len(qq[j]) <= L + 1
    <3> TAKE j \in 1..m
    <3>1. j + 1 \in 1..Len(q) /\ qq[j] = q[j + 1]
      BY <2>7
    <3>2. Len(q[1]) <= Len(q[j + 1]) /\ Len(q[j + 1]) <= Len(q[1]) + 1
      <4>1. 1 <= j + 1
        BY <2>4
      <4> QED  BY <2>4, <3>1, <4>1 DEF SearchInv, Ordered
    <3>3. Len(q[j + 1]) \in Nat
      BY <2>4, <3>1
    <3> QED  BY <3>1, <3>2, <3>3
  <2>10. \A j \in (m + 1)..Len(qq) :
           /\ IsTrail(scope, src, qq[j]) /\ Len(qq[j]) = L + 1
           /\ Last(qq[j]) \in next.seen \ st.seen
    <3> TAKE j \in (m + 1)..Len(qq)
    <3>1. PICK d \in next.seen \ st.seen : Edge(scope, Last(p), d) /\ qq[j] = Append(p, d)
      BY <2>3 DEF Advanced
    <3>2. d \in Dim
      BY <2>6
    <3> QED  BY <2>5, <3>1, <3>2, TrailGrows
  <2> HIDE DEF q, p, L, m, W, qq
  <2>11. Queued(scope, src, next)
    <3>1. next \in [queue : Seq(Seq(Dim)), seen : SUBSET Dim] /\ src \in next.seen
      BY <2>2, <2>3 DEF Advanced, Queued
    <3>2. ASSUME NEW j \in 1..Len(qq) PROVE IsTrail(scope, src, qq[j]) /\ Last(qq[j]) \in next.seen
      <4>1. CASE j \in 1..m
        <5>1. Last(q[j + 1]) \in st.seen
          BY <2>2, <2>7, <4>1 DEF Queued, q
        <5> QED  BY <2>4, <2>6, <2>7, <4>1, <5>1
      <4>2. CASE j \in (m + 1)..Len(qq)
        BY <2>10, <4>2
      <4> QED  BY <2>8, <4>1, <4>2
    <3> QED  BY <3>1, <3>2 DEF Queued, qq
  <2>12. \A j \in 1..Len(qq) : Len(qq[j]) \in Nat /\ L <= Len(qq[j]) /\ Len(qq[j]) <= L + 1
    BY <2>5, <2>8, <2>9, <2>10
  <2>13. \A j, k \in 1..Len(qq) : j <= k => Len(qq[j]) <= Len(qq[k])
    <3> SUFFICES ASSUME NEW j \in 1..Len(qq), NEW k \in 1..Len(qq), j <= k
                 PROVE  Len(qq[j]) <= Len(qq[k])
      OBVIOUS
    <3>1. CASE k \in 1..m
      <4>1. j \in 1..m
        BY <2>4, <3>1
      <4>2. j + 1 \in 1..Len(q) /\ k + 1 \in 1..Len(q) /\ j + 1 <= k + 1
        BY <2>7, <3>1, <4>1
      <4>3. Len(q[j + 1]) <= Len(q[k + 1])
        BY <4>2 DEF SearchInv, Ordered, q
      <4> QED  BY <2>7, <3>1, <4>1, <4>3
    <3>2. CASE k \in (m + 1)..Len(qq)
      BY <2>10, <2>12, <3>2
    <3> QED  BY <2>8, <3>1, <3>2
  <2>14. Ordered(next)
    <3>1. ASSUME NEW j \in 1..Len(qq) PROVE Len(qq[j]) <= Len(qq[1]) + 1
      <4>1. 1 \in 1..Len(qq)
        BY <2>6
      <4> QED  BY <2>5, <2>12, <4>1
    <3> QED  BY <2>13, <3>1 DEF Ordered, qq
  <2>15. Shortest(scope, src, next)
    <3>1. ASSUME NEW j \in 1..Len(qq), Len(qq[j]) >= 2
          PROVE  Last(qq[j]) \notin WithinHops(scope, src, Len(qq[j]) - 2)
      <4>1. CASE j \in 1..m
        <5>1. j + 1 \in 1..Len(q) /\ qq[j] = q[j + 1]
          BY <2>7, <4>1
        <5> QED  BY <3>1, <5>1 DEF SearchInv, Shortest, q
      <4>2. CASE j \in (m + 1)..Len(qq)
        <5>1. WithinHops(scope, src, L - 1) \subseteq st.seen
          BY <2>4 DEF SearchInv, Swept, q, p, L
        <5>2. Len(qq[j]) - 2 = L - 1
          BY <2>5, <2>10, <4>2
        <5> QED  BY <2>10, <4>2, <5>1, <5>2
      <4> QED  BY <2>8, <4>1, <4>2
    <3> QED  BY <3>1 DEF Shortest, qq
  <2>16. ASSUME NEW x \in next.seen
         PROVE  \/ \E j \in 1..Len(qq) : Last(qq[j]) = x
                \/ x # dst /\ \A y \in Dim : Edge(scope, x, y) => y \in next.seen
    <3>1. CASE x \notin st.seen
      <4>1. PICK j \in (m + 1)..Len(qq) : qq[j] = Append(p, x)
        BY <2>3, <3>1 DEF Advanced, q, p, m, qq
      <4>2. j \in 1..Len(qq)
        BY <2>4, <2>6
      <4>3. Last(Append(p, x)) = x
        <5>1. p \in Seq(Dim) /\ x \in Dim
          BY <2>5, <2>6 DEF IsTrail
        <5>2. Append(p, x) \in Seq(Dim) /\ Len(Append(p, x)) = Len(p) + 1 /\ Append(p, x)[Len(p) + 1] = x
          BY <5>1
        <5> QED  BY <5>2 DEF Last
      <4> QED  BY <4>1, <4>2, <4>3
    <3>2. CASE x \in st.seen
      <4>1. \/ \E j \in 1..Len(q) : Last(q[j]) = x
            \/ x # dst /\ \A y \in Dim : Edge(scope, x, y) => y \in st.seen
        BY <3>2 DEF SearchInv, Explored, q
      <4>2. ASSUME NEW j \in 1..Len(q), Last(q[j]) = x
            PROVE  \/ \E k \in 1..Len(qq) : Last(qq[k]) = x
                   \/ x # dst /\ \A y \in Dim : Edge(scope, x, y) => y \in next.seen
        <5>1. CASE j = 1
          <6>1. x = Last(p)
            BY <4>2, <5>1 DEF p
          <6>2. x # dst
            BY <1>2, <2>4, <6>1 DEF Stuck, q
          <6>3. \A y \in Dim : Edge(scope, x, y) => y \in next.seen
            BY <2>3, <6>1 DEF Advanced, q, p
          <6> QED  BY <6>2, <6>3
        <5>2. CASE j # 1
          <6>1. j - 1 \in 1..m /\ (j - 1) + 1 = j /\ j - 1 \in 1..Len(qq)
            BY <2>4, <2>6, <5>2 DEF m
          <6>2. qq[j - 1] = q[j]
            BY <2>7, <6>1
          <6> QED  BY <4>2, <6>1, <6>2
        <5> QED  BY <5>1, <5>2
      <4> QED  BY <2>6, <4>1, <4>2
    <3> QED  BY <3>1, <3>2
  <2>17. Explored(scope, dst, next)
    BY <2>16 DEF Explored, qq
  <2>18. Swept(scope, src, next)
    <3>1. ASSUME qq # << >> PROVE WithinHops(scope, src, Len(qq[1]) - 1) \subseteq next.seen
      <4>1. 1 \in 1..Len(qq)
        BY <2>6, <3>1
      <4>2. WithinHops(scope, src, L - 1) \subseteq st.seen
        BY <2>4 DEF SearchInv, Swept, q, p, L
      <4>3. CASE Len(qq[1]) = L
        BY <2>6, <4>2, <4>3
      <4>4. CASE Len(qq[1]) = L + 1
        <5>1. L - 1 \in Nat /\ (L - 1) + 1 = Len(qq[1]) - 1
          BY <2>5, <4>4
        <5>2. WithinHops(scope, src, Len(qq[1]) - 1) = Wider(scope, WithinHops(scope, src, L - 1))
          BY <5>1, HopsWiden
        <5>3. ASSUME NEW y \in Dim, NEW a \in WithinHops(scope, src, L - 1), Edge(scope, a, y)
              PROVE  y \in next.seen
          <6>1. a \in next.seen
            BY <2>6, <4>2
          <6>2. ASSUME NEW j \in 1..Len(qq), Last(qq[j]) = a PROVE FALSE
            <7>1. Len(qq[j]) >= L + 1 /\ Len(qq[j]) \in Nat
              BY <2>12, <2>13, <4>1, <4>4
            <7>2. a \notin WithinHops(scope, src, Len(qq[j]) - 2)
              BY <2>5, <2>15, <6>2, <7>1 DEF Shortest, qq
            <7>3. Len(qq[j]) - 2 \in Nat /\ L - 1 <= Len(qq[j]) - 2
              BY <2>5, <7>1
            <7>4. WithinHops(scope, src, L - 1) \subseteq WithinHops(scope, src, Len(qq[j]) - 2)
              BY <5>1, <7>3, HopsGrow
            <7> QED  BY <7>2, <7>4
          <6> QED  BY <2>16, <5>3, <6>1, <6>2
        <5> QED  BY <2>6, <4>2, <5>2, <5>3 DEF Wider
      <4> QED  BY <2>5, <2>12, <4>1, <4>3, <4>4
    <3> QED  BY <3>1 DEF Swept, qq
  <2>19. Counted(dst, n + 1, next)
    <3>1. Cardinality(st.seen) = Len(q) + n /\ \A j \in 1..Len(q) : Len(q[j]) <= n + 1
      BY <1>2 DEF SearchInv, Counted, q
    <3>2. Cardinality(next.seen) - Len(qq) = Cardinality(st.seen) - m
      BY <2>3 DEF Advanced, q, m, qq
    <3>3. Cardinality(next.seen) \in Nat
      BY <2>6, ScopeAssumption, FS_Subset, FS_CardinalityType
    <3>4. Cardinality(next.seen) = Len(qq) + (n + 1)
      <4>1. Len(q) \in Nat /\ Len(qq) \in Nat
        BY <2>4, <2>6
      <4>2. ASSUME NEW a \in Nat, NEW b \in Nat, NEW c \in Nat, c - b = (a + n) - (a - 1)
            PROVE  c = b + (n + 1)
        BY <4>2
      <4>3. Cardinality(next.seen) - Len(qq) = (Len(q) + n) - (Len(q) - 1)
        BY <3>1, <3>2 DEF m
      <4> QED  BY <3>3, <4>1, <4>2, <4>3
    <3>5. \A j \in 1..Len(qq) : Len(qq[j]) <= (n + 1) + 1
      <4>1. L <= n + 1
        BY <2>4, <3>1 DEF L, p
      <4> QED  BY <2>5, <2>12, <4>1
    <3> QED  BY <3>4, <3>5 DEF Counted, qq
  <2> QED  BY <2>1, <2>11, <2>14, <2>15, <2>17, <2>18, <2>19 DEF SearchInv
<1> QED  BY <1>1, <1>2

-----------------------------------------------------------------------------
(* The whole search *)

Searched(scope, src, dst, n) ==
  LET search[k \in 0..n] ==
        IF k = 0 THEN [queue |-> <<<<src>>>>, seen |-> {src}]
        ELSE Turn(search[k - 1], scope, dst)
  IN  search

\* The n turns of the search, one after the other.
Turns(scope, src, dst, n, search) ==
  /\ search[0] = [queue |-> <<<<src>>>>, seen |-> {src}]
  /\ \A k \in 1..n : search[k] = Turn(search[k - 1], scope, dst)

\* The recursion of contextPath has a solution.
LEMMA SearchTurns ==
  ASSUME NEW scope, NEW src, NEW dst, NEW n \in Nat
  PROVE  Turns(scope, src, dst, n, Searched(scope, src, dst, n))
<1> DEFINE start == [queue |-> <<<<src>>>>, seen |-> {src}]
           IsSearch(f, m) == f = [k \in 0..m |-> IF k = 0 THEN start ELSE Turn(f[k - 1], scope, dst)]
           Good == {m \in Nat : \E f : IsSearch(f, m)}
<1> HIDE DEF start
<1>1. 0 \in Good
  <2>1. IsSearch([k \in 0..0 |-> start], 0)
    OBVIOUS
  <2> QED  BY <2>1
<1>2. ASSUME NEW m \in Nat, m \in Good PROVE m + 1 \in Good
  <2>1. PICK f : IsSearch(f, m)
    BY <1>2
  <2> DEFINE g == [k \in 0..(m + 1) |-> IF k = m + 1 THEN Turn(f[m], scope, dst) ELSE f[k]]
  <2>2. \A k \in 0..m : g[k] = f[k] /\ f[k] = IF k = 0 THEN start ELSE Turn(f[k - 1], scope, dst)
    <3>1. \A k \in 0..m : f[k] = IF k = 0 THEN start ELSE Turn(f[k - 1], scope, dst)
      <4> HIDE DEF g
      <4> QED  BY <2>1
    <3>2. ASSUME NEW k \in 0..m PROVE g[k] = f[k]
      <4>1. k \in 0..(m + 1) /\ k # m + 1
        OBVIOUS
      <4> QED  BY <4>1
    <3> QED  BY <3>1, <3>2
  <2>3. \A k \in 0..(m + 1) : g[k] = IF k = 0 THEN start ELSE Turn(g[k - 1], scope, dst)
    <3> SUFFICES ASSUME NEW k \in 0..(m + 1)
                 PROVE  g[k] = IF k = 0 THEN start ELSE Turn(g[k - 1], scope, dst)
      OBVIOUS
    <3>1. CASE k = m + 1
      BY <2>2, <3>1
    <3>2. CASE k # m + 1
      <4>1. k \in 0..m /\ (k # 0 => k - 1 \in 0..m)
        BY <3>2
      <4> HIDE DEF g
      <4> QED  BY <2>2, <4>1
    <3> QED  BY <3>1, <3>2
  <2>4. IsSearch(g, m + 1)
    BY <2>3
  <2> HIDE DEF g, IsSearch
  <2>5. \E h : IsSearch(h, m + 1)
    BY <2>4
  <2> QED  BY <2>5
<1>3. n \in Good
  <2> HIDE DEF Good
  <2> QED  BY <1>1, <1>2, SetInduction
<1>4. PICK f : IsSearch(f, n)
  BY <1>3
<1>5. IsSearch(Searched(scope, src, dst, n), n)
  BY <1>4 DEF Searched, start
<1> HIDE DEF Searched
<1>6. \A k \in 0..n : Searched(scope, src, dst, n)[k] =
                        IF k = 0 THEN start ELSE Turn(Searched(scope, src, dst, n)[k - 1], scope, dst)
  BY <1>5
<1>7. 0 \in 0..n /\ \A k \in 1..n : k \in 0..n /\ k # 0
  OBVIOUS
<1> QED  BY <1>6, <1>7 DEF start, Turns

\* The search begins in its invariant.
LEMMA SearchStarts ==
  ASSUME NEW scope, NEW src \in Dim, NEW dst
  PROVE  SearchInv(scope, src, dst, 0, [queue |-> <<<<src>>>>, seen |-> {src}])
<1> DEFINE st == [queue |-> <<<<src>>>>, seen |-> {src}]
<1>1. /\ st.queue = <<<<src>>>> /\ st.seen = {src} /\ Len(st.queue) = 1 /\ st.queue[1] = <<src>>
      /\ st \in [queue : Seq(Seq(Dim)), seen : SUBSET Dim]
  OBVIOUS
<1>2. <<src>> \in Seq(Dim) /\ <<src>> # << >> /\ <<src>>[1] = src /\ Len(<<src>>) = 1
  OBVIOUS
<1> HIDE DEF st
<1>3. Last(<<src>>) = src /\ IsTrail(scope, src, <<src>>)
  BY <1>2 DEF Last, IsTrail
<1>4. \A j \in 1..Len(st.queue) :
        /\ j = 1 /\ st.queue[j] = <<src>> /\ Len(st.queue[j]) = 1
        /\ Len(st.queue[j]) <= 1 /\ ~(Len(st.queue[j]) >= 2)
  <2> TAKE j \in 1..Len(st.queue)
  <2>1. j = 1 /\ st.queue[j] = <<src>>
    BY <1>1
  <2> QED  BY <1>2, <2>1
<1>5. 1 \in 1..Len(st.queue)
  BY <1>1
<1>6. Queued(scope, src, st)
  BY <1>1, <1>3, <1>4 DEF Queued
<1>7. Ordered(st)
  <2>1. Len(<<src>>) <= Len(<<src>>) + 1 /\ Len(<<src>>) <= Len(<<src>>)
    OBVIOUS
  <2> QED  BY <1>1, <1>4, <2>1, Zenon DEF Ordered
<1>8. Shortest(scope, src, st)
  BY <1>4, Zenon DEF Shortest
<1>9. Explored(scope, dst, st)
  BY <1>1, <1>3, <1>5 DEF Explored
<1>10. Swept(scope, src, st)
  <2>1. WithinHops(scope, src, 0) = {src}
    BY HopsWiden
  <2> QED  BY <1>1, <1>2, <2>1 DEF Swept
<1>11. Counted(dst, 0, st)
  <2>1. Cardinality({src}) = 1
    BY FS_Singleton
  <2>2. Cardinality(st.seen) = Len(st.queue) + 0
    BY <1>1, <2>1
  <2>3. \A j \in 1..Len(st.queue) : Len(st.queue[j]) <= 0 + 1
    <3>1. 0 + 1 = 1
      OBVIOUS
    <3> QED  BY <1>4, <3>1, Zenon
  <2> QED  BY <2>2, <2>3 DEF Counted
<1> QED  BY <1>6, <1>7, <1>8, <1>9, <1>10, <1>11 DEF SearchInv, st

\* And stays in it.
LEMMA SearchKeeps ==
  ASSUME NEW scope, Mapped(scope), NEW src \in Dim, NEW dst, NEW n \in Nat
  PROVE  SearchInv(scope, src, dst, n, Searched(scope, src, dst, n)[n])
<1>1. PICK search : search = Searched(scope, src, dst, n)
  OBVIOUS
<1>2. Turns(scope, src, dst, n, search)
  BY <1>1, SearchTurns
<1> DEFINE Good == {k \in Nat : k <= n => SearchInv(scope, src, dst, k, search[k])}
<1>3. 0 \in Good
  BY <1>2, SearchStarts DEF Turns
<1>4. ASSUME NEW k \in Nat, k \in Good PROVE k + 1 \in Good
  <2> SUFFICES ASSUME k + 1 <= n PROVE SearchInv(scope, src, dst, k + 1, search[k + 1])
    OBVIOUS
  <2>1. k + 1 \in 1..n /\ (k + 1) - 1 = k
    OBVIOUS
  <2>2. search[k + 1] = Turn(search[k], scope, dst)
    BY <1>2, <2>1 DEF Turns
  <2>3. SearchInv(scope, src, dst, k, search[k])
    BY <1>4
  <2> QED  BY <2>2, <2>3, TurnKeeps
<1>5. n \in Good
  <2> HIDE DEF Good
  <2> QED  BY <1>3, <1>4, SetInduction
<1> QED  BY <1>1, <1>5

\* Without contexts there are no transforms.
LEMMA NothingLeads ==
  ASSUME NEW a, NEW b
  PROVE  ~Edge(<< >>, a, b)
<1>1. [i \in DOMAIN << >> |-> << >>[i].ctx.transforms] = << >>
  OBVIOUS
<1>2. Transforms(<< >>) = << >>
  BY <1>1 DEF Transforms, FlattenSeq
<1> QED  BY <1>2 DEF Edge, Matching

\* contextPath finds a walk of transforms whenever there is one, and none is shorter.
LEMMA PathIsShortest ==
  ASSUME NEW scope, Mapped(scope), NEW src \in Dim, NEW dst, src # dst
  PROVE  LET path == ContextPath(scope, src, dst)
         IN  IF dst \notin WithinHops(scope, src, Cardinality(Dim))
             THEN path = << >>
             ELSE /\ IsTrail(scope, src, path) /\ Last(path) = dst /\ Len(path) >= 2
                  /\ dst \notin WithinHops(scope, src, Len(path) - 2)
<1> DEFINE C == Cardinality(Dim)
           path == ContextPath(scope, src, dst)
           st == Searched(scope, src, dst, C)[C]
<1>1. C \in Nat
  BY ScopeAssumption, FS_CardinalityType
<1>2. path = IF scope = << >> \/ st.queue = << >> THEN << >> ELSE Head(st.queue)
  BY Zenon DEF ContextPath, Searched
<1>3. SearchInv(scope, src, dst, C, st)
  BY <1>1, SearchKeeps
<1> HIDE DEF C, path, st
<1>4. st.queue \in Seq(Seq(Dim)) /\ st.seen \subseteq Dim /\ src \in st.seen
  BY <1>3 DEF SearchInv, Queued
<1>5. CASE scope = << >>
  <2>1. \A n \in Nat : WithinHops(scope, src, n) \subseteq {src}
    BY <1>5, NothingLeads, HopsStay
  <2>2. dst \notin WithinHops(scope, src, C)
    BY <1>1, <2>1
  <2> QED  BY <1>2, <1>5, <2>2 DEF C, path
<1>6. CASE scope # << >> /\ st.queue = << >>
  <2>1. \A x \in st.seen : x # dst /\ \A y \in Dim : Edge(scope, x, y) => y \in st.seen
    BY <1>3, <1>6 DEF SearchInv, Explored
  <2>2. \A n \in Nat : WithinHops(scope, src, n) \subseteq st.seen
    BY <1>4, <2>1, HopsStay
  <2>3. dst \notin WithinHops(scope, src, C)
    BY <1>1, <2>1, <2>2
  <2> QED  BY <1>2, <1>6, <2>3 DEF C, path
<1>7. CASE scope # << >> /\ st.queue # << >>
  <2>1. path = st.queue[1] /\ 1 \in 1..Len(st.queue) /\ Len(st.queue) \in Nat
    BY <1>2, <1>4, <1>7
  <2>2. IsTrail(scope, src, path) /\ Len(path) \in Nat /\ Len(path) >= 1
    BY <1>3, <2>1 DEF SearchInv, Queued, IsTrail
  \* As many turns as dimensions leave nothing to do.
  <2>3. Stuck(dst, st)
    <3>1. IsFiniteSet(Dim)
      BY ScopeAssumption
    <3>2. Cardinality(st.seen) <= C
      BY <1>4, <3>1, FS_Subset DEF C
    <3>3. Cardinality(st.seen) \in Nat
      BY <1>4, <3>1, FS_Subset, FS_CardinalityType
    <3>4. CASE Cardinality(st.seen) = Len(st.queue) + C
      BY <1>1, <2>1, <3>2, <3>3, <3>4
    <3> QED  BY <1>3, <3>4 DEF SearchInv, Counted
  <2>4. Last(path) = dst
    BY <1>4, <1>7, <2>1, <2>3 DEF Stuck
  <2>5. Len(path) >= 2
    <3>1. Len(path) # 1
      <4>1. Len(path) = 1 => Last(path) = src
        BY <2>2 DEF Last, IsTrail
      <4> QED  BY <2>4, <4>1
    <3>2. \A l \in Nat : l >= 1 /\ l # 1 => l >= 2
      OBVIOUS
    <3> QED  BY <2>2, <3>1, <3>2, Zenon
  <2>6. dst \notin WithinHops(scope, src, Len(path) - 2)
    BY <1>3, <2>1, <2>4, <2>5 DEF SearchInv, Shortest
  <2>7. dst \in WithinHops(scope, src, C)
    <3>1. dst \in WithinHops(scope, src, Len(path) - 1)
      BY <2>2, <2>4, TrailReaches
    <3>2. Len(path) <= C + 1
      BY <1>3, <2>1 DEF SearchInv, Counted
    <3>3. Len(path) - 1 \in Nat /\ Len(path) - 1 <= C
      BY <1>1, <2>2, <3>2
    <3> QED  BY <1>1, <3>1, <3>3, HopsGrow
  <2> QED  BY <2>2, <2>4, <2>5, <2>6, <2>7 DEF C, path
<1> QED  BY <1>5, <1>6, <1>7

=============================================================================
