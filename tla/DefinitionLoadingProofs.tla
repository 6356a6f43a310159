----------------------- MODULE DefinitionLoadingProofs -----------------------
(***************************************************************************)
(* First: the block machine of parseDefinitionFile makes of every text,    *)
(* however long, what its sections say.  While a block is open its lines   *)
(* have not been looked at yet: the definitions so far are those that      *)
(* begin elsewhere (Finished), and the lines elsewhere are the ones that   *)
(* are known to be where they may be.                                      *)
(*                                                                         *)
(* Second: whatever texts and calls make of groups, Expanded finds the     *)
(* members of the groups that are included, AddGroups closes no circle and *)
(* root covers the registry.  The walk of Expanded is a recursion over     *)
(* groups seen and names to visit; it is shown to end in the least set     *)
(* that it leads to (Least), by induction over what is not seen yet and,   *)
(* within it, over what is left to visit.                                  *)
(***************************************************************************)
EXTENDS RegistryQueries, SequenceTheorems, FiniteSetTheorems, WellFoundedInduction, TLAPS

-----------------------------------------------------------------------------
(* Induction, and the numbers of a set in order *)

\* A set of numbers that has 0 and the successor of each of its members has them all.
LEMMA NumberInduction ==
  ASSUME NEW T, 0 \in T, \A n \in Nat : n \in T => n + 1 \in T
  PROVE  \A n \in Nat : n \in T
<1> SUFFICES ASSUME Nat \ T # {} PROVE FALSE
  OBVIOUS
<1>1. PICK m \in Nat \ T : \A k \in Nat \ T : ~(<<k, m>> \in OpToRel(<, Nat))
  BY NatLessThanWellFounded, WFMin, Zenon
<1>2. m - 1 \in Nat /\ m - 1 < m /\ (m - 1) + 1 = m
  OBVIOUS
<1>3. m - 1 \in T
  BY <1>1, <1>2 DEF OpToRel
<1> QED  BY <1>2, <1>3

\* The loop of InOrder.
Collect(I, s, i) == IF i \in I THEN Append(s, i) ELSE s
Counting(I, n) ==
  LET upTo[i \in 0..n] == IF i = 0 THEN << >>
                          ELSE IF i \in I THEN Append(upTo[i - 1], i) ELSE upTo[i - 1]
  IN  upTo
Counts(f, I, n) ==
  f[0] = << >> /\ \A i \in 1..n : f[i] = Collect(I, f[i - 1], i)

\* The loop exists as a function.
LEMMA CountingTurns ==
  ASSUME NEW I, NEW n \in Nat
  PROVE  Counts(Counting(I, n), I, n)
<1> DEFINE IsCount(f, m) ==
             f = [i \in 0..m |-> IF i = 0 THEN << >>
                                 ELSE IF i \in I THEN Append(f[i - 1], i) ELSE f[i - 1]]
           Good == {m \in Nat : \E f : IsCount(f, m)}
<1>1. 0 \in Good
  <2>1. IsCount([i \in 0..0 |-> << >>], 0)
    OBVIOUS
  <2> QED  BY <2>1
<1>2. ASSUME NEW m \in Nat, m \in Good PROVE m + 1 \in Good
  <2>1. PICK f : IsCount(f, m)
    BY <1>2
  <2> DEFINE g == [i \in 0..(m + 1) |-> IF i = m + 1 THEN Collect(I, f[m], i) ELSE f[i]]
  <2>2. \A i \in 0..m : g[i] = f[i] /\ f[i] = IF i = 0 THEN << >> ELSE Collect(I, f[i - 1], i)
    <3>1. \A i \in 0..m : f[i] = IF i = 0 THEN << >> ELSE Collect(I, f[i - 1], i)
      <4> HIDE DEF g
      <4> QED  BY <2>1 DEF Collect
    <3>2. ASSUME NEW i \in 0..m PROVE g[i] = f[i]
      <4>1. i \in 0..(m + 1) /\ i # m + 1
        OBVIOUS
      <4> QED  BY <4>1
    <3> QED  BY <3>1, <3>2
  <2>3. \A i \in 0..(m + 1) : g[i] = IF i = 0 THEN << >> ELSE Collect(I, g[i - 1], i)
    <3> SUFFICES ASSUME NEW i \in 0..(m + 1)
                 PROVE  g[i] = IF i = 0 THEN << >> ELSE Collect(I, g[i - 1], i)
      OBVIOUS
    <3>1. CASE i = m + 1
      BY <2>2, <3>1
    <3>2. CASE i # m + 1
      <4>1. i \in 0..m /\ (i # 0 => i - 1 \in 0..m)
        BY <3>2
      <4> HIDE DEF g
      <4> QED  BY <2>2, <4>1
    <3> QED  BY <3>1, <3>2
  <2>4. IsCount(g, m + 1)
    BY <2>3 DEF Collect
  <2> HIDE DEF g, IsCount
  <2>5. \E h : IsCount(h, m + 1)
    BY <2>4
  <2> QED  BY <2>5
<1>3. n \in Good
  <2> HIDE DEF Good
  <2> QED  BY <1>1, <1>2, NumberInduction
<1>4. PICK f : IsCount(f, n)
  BY <1>3
<1>5. IsCount(Counting(I, n), n)
  BY <1>4 DEF Counting
<1> HIDE DEF Counting
<1>6. \A i \in 0..n : Counting(I, n)[i] = IF i = 0 THEN << >> ELSE Collect(I, Counting(I, n)[i - 1], i)
  BY <1>5 DEF Collect
<1>7. 0 \in 0..n /\ \A i \in 1..n : i \in 0..n /\ i # 0
  OBVIOUS
<1> QED  BY <1>6, <1>7 DEF Counts

\* Two loops over sets with the same numbers up to n agree that far.
LEMMA CountsAgree ==
  ASSUME NEW n \in Nat, NEW I, NEW J, I \cap 1..n = J \cap 1..n,
         NEW f, NEW g, Counts(f, I, n), Counts(g, J, n)
  PROVE  f[n] = g[n]
<1> DEFINE Good == {m \in Nat : m <= n => f[m] = g[m]}
<1>1. 0 \in Good
  BY DEF Counts
<1>2. ASSUME NEW m \in Nat, m \in Good PROVE m + 1 \in Good
  <2> SUFFICES ASSUME m + 1 <= n PROVE f[m + 1] = g[m + 1]
    OBVIOUS
  <2>1. m + 1 \in 1..n /\ (m + 1) - 1 = m /\ f[m] = g[m]
    BY <1>2
  <2>2. f[m + 1] = Collect(I, f[m], m + 1) /\ g[m + 1] = Collect(J, g[m], m + 1)
    BY <2>1 DEF Counts
  <2> QED  BY <2>1, <2>2 DEF Collect
<1> QED
  <2> HIDE DEF Good
  <2>1. n \in Good
    BY <1>1, <1>2, NumberInduction
  <2> QED  BY <2>1 DEF Good

\* Each number in turn is collected or passed over.
LEMMA InOrderTurns ==
  ASSUME NEW I, NEW n \in Nat
  PROVE  /\ InOrder(I, 0) = << >>
         /\ InOrder(I, n + 1) = Collect(I, InOrder(I, n), n + 1)
<1>1. \A m \in Nat : InOrder(I, m) = Counting(I, m)[m]
  BY DEF InOrder, Counting
<1>2. Counts(Counting(I, 0), I, 0) /\ Counts(Counting(I, n), I, n)
  BY CountingTurns
<1>3. Counts(Counting(I, n + 1), I, n + 1)
  BY CountingTurns
<1> HIDE DEF Counting
<1>4. PICK f : f = Counting(I, n + 1)
  OBVIOUS
<1>5. Counts(f, I, n)
  BY <1>3, <1>4 DEF Counts
<1>6. f[n] = Counting(I, n)[n]
  BY <1>2, <1>5, CountsAgree
<1>7. f[n + 1] = Collect(I, f[n], n + 1)
  <2>1. n + 1 \in 1..(n + 1) /\ (n + 1) - 1 = n
    OBVIOUS
  <2> QED  BY <1>3, <1>4, <2>1 DEF Counts
<1>8. InOrder(I, n + 1) = f[n + 1] /\ InOrder(I, n) = f[n]
  BY <1>1, <1>4, <1>6
<1>9. InOrder(I, 0) = << >>
  BY <1>1, <1>2 DEF Counts
<1> QED  BY <1>7, <1>8, <1>9

\* Only the numbers up to n of a set matter.
LEMMA InOrderSame ==
  ASSUME NEW n \in Nat, NEW I, NEW J, I \cap 1..n = J \cap 1..n
  PROVE  InOrder(I, n) = InOrder(J, n)
<1>1. InOrder(I, n) = Counting(I, n)[n] /\ InOrder(J, n) = Counting(J, n)[n]
  BY DEF InOrder, Counting
<1>2. Counts(Counting(I, n), I, n) /\ Counts(Counting(J, n), J, n)
  BY CountingTurns
<1> HIDE DEF Counting
<1> QED  BY <1>1, <1>2, CountsAgree

\* Nothing is collected but numbers of the set, up to n.
LEMMA InOrderTyped ==
  ASSUME NEW I, NEW n \in Nat
  PROVE  InOrder(I, n) \in Seq(I \cap 1..n)
<1> DEFINE Good == {m \in Nat : InOrder(I, m) \in Seq(I \cap 1..m)}
<1>1. 0 \in Good
  <2>1. InOrder(I, 0) = << >>
    BY InOrderTurns
  <2>2. << >> \in Seq(I \cap 1..0)
    OBVIOUS
  <2> QED  BY <2>1, <2>2
<1>2. ASSUME NEW m \in Nat, m \in Good PROVE m + 1 \in Good
  <2>1. InOrder(I, m + 1) = Collect(I, InOrder(I, m), m + 1)
    BY InOrderTurns
  <2>2. PICK s : s = InOrder(I, m)
    OBVIOUS
  <2>3. s \in Seq(I \cap 1..m)
    BY <1>2, <2>2
  <2>4. I \cap 1..m \subseteq I \cap 1..(m + 1)
    OBVIOUS
  <2>5. s \in Seq(I \cap 1..(m + 1))
    BY <2>3, <2>4
  <2>6. m + 1 \in I => m + 1 \in I \cap 1..(m + 1)
    OBVIOUS
  <2>7. Collect(I, s, m + 1) \in Seq(I \cap 1..(m + 1))
    BY <2>5, <2>6 DEF Collect
  <2> QED  BY <2>1, <2>2, <2>7
<1> QED
  <2> HIDE DEF Good
  <2>1. n \in Good
    BY <1>1, <1>2, NumberInduction
  <2> QED  BY <2>1 DEF Good

\* Beyond the last of the numbers there is nothing to collect.
LEMMA InOrderStops ==
  ASSUME NEW I, NEW m \in Nat, NEW n \in Nat, m <= n, \A i \in I \cap 1..n : i <= m
  PROVE  InOrder(I, n) = InOrder(I, m)
<1> DEFINE Good == {k \in Nat : m <= k /\ k <= n => InOrder(I, k) = InOrder(I, m)}
<1>1. 0 \in Good
  OBVIOUS
<1>2. ASSUME NEW k \in Nat, k \in Good PROVE k + 1 \in Good
  <2> SUFFICES ASSUME m <= k + 1, k + 1 <= n, k + 1 # m
               PROVE  InOrder(I, k + 1) = InOrder(I, m)
    OBVIOUS
  <2>1. k + 1 \notin I
    OBVIOUS
  <2>2. InOrder(I, k) = InOrder(I, m)
    BY <1>2
  <2> QED  BY <2>1, <2>2, InOrderTurns DEF Collect
<1> QED
  <2> HIDE DEF Good
  <2>1. n \in Good
    BY <1>1, <1>2, NumberInduction
  <2> QED  BY <2>1 DEF Good

\* The last of the numbers comes last.
LEMMA InOrderLast ==
  ASSUME NEW n \in Nat, NEW I, NEW h \in I, h \in 1..n, \A i \in I \cap 1..n : i <= h
  PROVE  InOrder(I, n) = Append(InOrder(I \ {h}, n), h)
<1>1. h - 1 \in Nat /\ h \in Nat /\ h <= n /\ h - 1 <= n /\ (h - 1) + 1 = h
  OBVIOUS
<1>2. InOrder(I, n) = InOrder(I, h)
  BY <1>1, InOrderStops
<1>3. InOrder(I, h) = Append(InOrder(I, h - 1), h)
  <2>1. InOrder(I, (h - 1) + 1) = Collect(I, InOrder(I, h - 1), (h - 1) + 1)
    BY <1>1, InOrderTurns
  <2> QED  BY <1>1, <2>1 DEF Collect
<1>4. InOrder(I \ {h}, n) = InOrder(I \ {h}, h - 1)
  <2>1. \A i \in (I \ {h}) \cap 1..n : i <= h - 1
    OBVIOUS
  <2> QED  BY <1>1, <2>1, InOrderStops
<1>5. InOrder(I, h - 1) = InOrder(I \ {h}, h - 1)
  <2>1. I \cap 1..(h - 1) = (I \ {h}) \cap 1..(h - 1)
    OBVIOUS
  <2> QED  BY <1>1, <2>1, InOrderSame
<1> QED  BY <1>2, <1>3, <1>4, <1>5

\* Every number of the set is there.
LEMMA InOrderHasAll ==
  ASSUME NEW I, NEW n \in Nat
  PROVE  \A i \in I \cap 1..n : \E k \in DOMAIN InOrder(I, n) : InOrder(I, n)[k] = i
<1> DEFINE Has(s, i) == \E k \in DOMAIN s : s[k] = i
           Good == {m \in Nat : \A i \in I \cap 1..m : Has(InOrder(I, m), i)}
<1>1. 0 \in Good
  OBVIOUS
<1>2. ASSUME NEW m \in Nat, m \in Good PROVE m + 1 \in Good
  <2>1. PICK s : s = InOrder(I, m)
    OBVIOUS
  <2>2. s \in Seq(I \cap 1..m) /\ InOrder(I, m + 1) = Collect(I, s, m + 1)
    BY <2>1, InOrderTyped, InOrderTurns
  <2>3. \A i \in I \cap 1..m : Has(s, i)
    BY <1>2, <2>1
  <2>4. ASSUME NEW i \in I \cap 1..(m + 1) PROVE Has(Collect(I, s, m + 1), i)
    <3>1. CASE m + 1 \notin I
      <4>1. i \in I \cap 1..m
        BY <3>1
      <4> QED  BY <2>3, <3>1, <4>1 DEF Collect
    <3>2. CASE m + 1 \in I
      <4> DEFINE more == Append(s, m + 1)
      <4>1. /\ DOMAIN s = 1..Len(s) /\ Len(s) \in Nat /\ DOMAIN more = 1..(Len(s) + 1)
            /\ \A k \in 1..Len(s) : more[k] = s[k]
            /\ more[Len(s) + 1] = m + 1
        BY <2>2
      <4>2. Collect(I, s, m + 1) = more
        BY <3>2 DEF Collect
      <4> HIDE DEF more
      <4>3. CASE i = m + 1
        BY <4>1, <4>2, <4>3
      <4>4. CASE i # m + 1
        <5>1. i \in I \cap 1..m
          BY <4>4
        <5>2. PICK k \in DOMAIN s : s[k] = i
          BY <2>3, <5>1
        <5>3. k \in DOMAIN more /\ more[k] = i
          BY <4>1, <5>2
        <5> QED  BY <4>2, <5>3
      <4> QED  BY <4>3, <4>4
    <3> QED  BY <3>1, <3>2
  <2>5. \A i \in I \cap 1..(m + 1) : Has(InOrder(I, m + 1), i)
    BY <2>2, <2>4
  <2> QED  BY <2>5
<1> QED
  <2> HIDE DEF Good
  <2>1. n \in Good
    BY <1>1, <1>2, NumberInduction
  <2> QED  BY <2>1 DEF Good

\* What a function makes of the elements of a sequence.
Image(f, s) == [k \in DOMAIN s |-> f[s[k]]]

\* The image of a longer sequence is longer by the image of the last element.
LEMMA ImageAppend ==
  ASSUME NEW D, NEW s \in Seq(D), NEW e \in D, NEW f
  PROVE  Image(f, Append(s, e)) = Append(Image(f, s), f[e])
<1> DEFINE n == Len(s)
           X == {f[d] : d \in D}
           more == Append(s, e)
           short == Image(f, s)
           long == Image(f, more)
<1>1. /\ n \in Nat /\ DOMAIN s = 1..n /\ DOMAIN more = 1..(n + 1)
      /\ \A k \in 1..n : more[k] = s[k] /\ s[k] \in D
      /\ more[n + 1] = e
  OBVIOUS
<1> HIDE DEF n, more
<1>2. short \in [1..n -> X] /\ \A k \in 1..n : short[k] = f[s[k]]
  BY <1>1 DEF Image
<1>3. /\ long \in [1..(n + 1) -> X] /\ \A k \in 1..n : long[k] = f[s[k]]
      /\ long[n + 1] = f[e]
  BY <1>1 DEF Image
<1>4. short \in Seq(X) /\ Len(short) = n
  BY <1>1, <1>2
<1>5. f[e] \in X
  OBVIOUS
<1> HIDE DEF short, long, X
<1>6. /\ DOMAIN Append(short, f[e]) = 1..(n + 1)
      /\ \A k \in 1..n : Append(short, f[e])[k] = short[k]
      /\ Append(short, f[e])[n + 1] = f[e]
      /\ Append(short, f[e]) \in Seq(X) /\ Len(Append(short, f[e])) = n + 1
  BY <1>4, <1>5
<1>7. long \in Seq(X) /\ Len(long) = n + 1
  BY <1>1, <1>3
<1>8. \A k \in 1..(n + 1) : long[k] = Append(short, f[e])[k]
  <2> SUFFICES ASSUME NEW k \in 1..(n + 1) PROVE long[k] = Append(short, f[e])[k]
    OBVIOUS
  <2>1. CASE k = n + 1
    BY <1>3, <1>6, <2>1
  <2>2. CASE k # n + 1
    <3>1. k \in 1..n
      BY <1>1, <2>2
    <3> QED  BY <1>2, <1>3, <1>6, <3>1
  <2> QED  BY <2>1, <2>2
<1>9. long = Append(short, f[e])
  BY <1>6, <1>7, <1>8, SeqEqual
<1> QED  BY <1>9 DEF long, short, more

\* Functions that agree on the elements of a sequence have the same image of it.
LEMMA ImageSame ==
  ASSUME NEW D, NEW s \in Seq(D), NEW f, NEW g, \A d \in D : f[d] = g[d]
  PROVE  Image(f, s) = Image(g, s)
<1>1. \A k \in DOMAIN s : s[k] \in D
  OBVIOUS
<1> QED  BY <1>1 DEF Image

-----------------------------------------------------------------------------
(* Sections *)

Marks(text_, i) == {j \in 1..i : IsHeader(text_[j]) \/ text_[j].is = "end"}

\* A header begins a section, an @end ends one, and other lines stay in theirs.
LEMMA SectionTurns ==
  ASSUME NEW t, NEW i \in Nat
  PROVE  /\ Section(t, 0) = 0
         /\ Section(t, i + 1) = IF IsHeader(t[i + 1]) THEN i + 1
                                ELSE IF t[i + 1].is = "end" THEN 0 ELSE Section(t, i)
<1> DEFINE last(m) == CHOOSE j \in Marks(t, m) : \A k \in Marks(t, m) : k <= j
<1>1. \A m \in Nat : Section(t, m) = IF Marks(t, m) # {} /\ IsHeader(t[last(m)]) THEN last(m) ELSE 0
  BY DEF Section, Marks
<1>2. Marks(t, 0) = {}
  BY DEF Marks
<1>3. CASE IsHeader(t[i + 1]) \/ t[i + 1].is = "end"
  <2>1. i + 1 \in Marks(t, i + 1) /\ \A k \in Marks(t, i + 1) : k \in Nat /\ k <= i + 1
    BY <1>3 DEF Marks
  <2>2. last(i + 1) = i + 1
    <3>1. \E j \in Marks(t, i + 1) : \A k \in Marks(t, i + 1) : k <= j
      BY <2>1
    <3>2. last(i + 1) \in Marks(t, i + 1) /\ \A k \in Marks(t, i + 1) : k <= last(i + 1)
      BY <3>1
    <3> HIDE DEF last
    <3> QED  BY <2>1, <3>2
  <2>3. IsHeader(t[i + 1]) \/ (t[i + 1].is = "end" /\ ~IsHeader(t[i + 1]))
    BY <1>3
  <2> HIDE DEF last
  <2> QED  BY <1>1, <1>2, <2>1, <2>2, <2>3
<1>4. CASE ~(IsHeader(t[i + 1]) \/ t[i + 1].is = "end")
  <2>1. Marks(t, i + 1) = Marks(t, i)
    BY <1>4 DEF Marks
  <2>2. last(i + 1) = last(i)
    BY <2>1
  <2> HIDE DEF last
  <2>3. Section(t, i + 1) = Section(t, i)
    BY <1>1, <2>1, <2>2
  <2> QED  BY <1>1, <1>2, <1>4, <2>3
<1> QED  BY <1>3, <1>4

\* The section of a line begins with a header, before it or there, and holds all between.
LEMMA SectionHolds ==
  ASSUME NEW t, NEW n \in Nat
  PROVE  LET h == Section(t, n)
         IN  /\ h \in 0..n
             /\ h # 0 => IsHeader(t[h]) /\ \A j \in h..n : Section(t, j) = h
<1> DEFINE P(m) == /\ Section(t, m) \in 0..m
                   /\ Section(t, m) # 0 =>
                        /\ IsHeader(t[Section(t, m)])
                        /\ \A j \in Section(t, m)..m : Section(t, j) = Section(t, m)
           Good == {m \in Nat : P(m)}
<1>1. 0 \in Good
  BY SectionTurns
<1>2. ASSUME NEW m \in Nat, m \in Good PROVE m + 1 \in Good
  <2>1. PICK h : h = Section(t, m)
    OBVIOUS
  <2>2. PICK k : k = Section(t, m + 1)
    OBVIOUS
  <2>3. k = IF IsHeader(t[m + 1]) THEN m + 1 ELSE IF t[m + 1].is = "end" THEN 0 ELSE h
    BY <2>1, <2>2, SectionTurns
  <2>4. h \in 0..m /\ (h # 0 => IsHeader(t[h]) /\ \A j \in h..m : Section(t, j) = h)
    BY <1>2, <2>1
  <2>5. k \in 0..(m + 1)
    BY <2>3, <2>4
  <2>6. ASSUME k # 0 PROVE IsHeader(t[k]) /\ \A j \in k..(m + 1) : Section(t, j) = k
    <3>1. CASE IsHeader(t[m + 1])
      <4>1. k = m + 1 /\ \A j \in k..(m + 1) : j = m + 1
        BY <2>3, <3>1
      <4> QED  BY <2>2, <3>1, <4>1
    <3>2. CASE ~IsHeader(t[m + 1])
      <4>1. k = h
        BY <2>3, <2>6, <3>2
      <4>2. \A j \in k..(m + 1) : j = m + 1 \/ j \in h..m
        BY <2>4, <4>1
      <4> QED  BY <2>2, <2>4, <2>6, <4>1, <4>2
    <3> QED  BY <3>1, <3>2
  <2>7. P(m + 1)
    BY <2>2, <2>5, <2>6
  <2> HIDE DEF P
  <2> QED  BY <2>7
<1>3. n \in Good
  <2> HIDE DEF Good
  <2> QED  BY <1>1, <1>2, NumberInduction
<1> QED  BY <1>3

\* A further line changes nothing about those before it.
LEMMA SectionStays ==
  ASSUME NEW t \in Seq(Line), NEW l \in Line
  PROVE  \A i \in 0..Len(t) : Section(Append(t, l), i) = Section(t, i)
<1> DEFINE new == Append(t, l)
           Good == {i \in Nat : i <= Len(t) => Section(new, i) = Section(t, i)}
<1>1. \A i \in 1..Len(t) : new[i] = t[i]
  OBVIOUS
<1>2. Len(t) \in Nat
  OBVIOUS
<1> HIDE DEF new
<1>3. 0 \in Good
  BY SectionTurns
<1>4. ASSUME NEW i \in Nat, i \in Good PROVE i + 1 \in Good
  <2> SUFFICES ASSUME i + 1 <= Len(t) PROVE Section(new, i + 1) = Section(t, i + 1)
    OBVIOUS
  <2>1. i + 1 \in 1..Len(t) /\ i <= Len(t)
    BY <1>2
  <2>2. new[i + 1] = t[i + 1] /\ Section(new, i) = Section(t, i)
    BY <1>1, <1>4, <2>1
  <2>3. Section(new, i + 1) = IF IsHeader(t[i + 1]) THEN i + 1
                              ELSE IF t[i + 1].is = "end" THEN 0 ELSE Section(t, i)
    BY <2>2, SectionTurns
  <2> QED  BY <2>3, SectionTurns
<1>5. \A i \in Nat : i \in Good
  <2> HIDE DEF Good
  <2> QED  BY <1>3, <1>4, NumberInduction
<1>6. \A i \in 0..Len(t) : i \in Nat /\ i <= Len(t)
  OBVIOUS
<1> QED  BY <1>5, <1>6 DEF new

\* A further line does not decide on the place of those before it.
LEMMA PlacedStays ==
  ASSUME NEW t \in Seq(Line), NEW l \in Line
  PROVE  \A i \in 1..Len(t) : Placed(Append(t, l), i) = Placed(t, i)
<1> DEFINE new == Append(t, l)
<1> SUFFICES ASSUME NEW i \in 1..Len(t) PROVE Placed(new, i) = Placed(t, i)
  OBVIOUS
<1>1. \A j \in 1..Len(t) : new[j] = t[j]
  OBVIOUS
<1>2. Section(new, i) = Section(t, i)
  <2>1. i \in 0..Len(t)
    OBVIOUS
  <2> QED  BY <2>1, SectionStays
<1>3. Section(t, i) \in 0..i
  <2>1. i \in Nat
    OBVIOUS
  <2> QED  BY <2>1, SectionHolds
<1> HIDE DEF new
<1>4. PICK h : h = Section(t, i)
  OBVIOUS
<1>5. h # 0 => h \in 1..Len(t)
  <2>1. Len(t) \in Nat
    OBVIOUS
  <2> QED  BY <1>3, <1>4, <2>1
<1>6. new[i] = t[i] /\ (h # 0 => new[h] = t[h])
  BY <1>1, <1>5
<1>7. Section(new, i) = h
  BY <1>2, <1>4
<1>8. CASE h = i
  BY <1>4, <1>6, <1>7, <1>8 DEF Placed
<1>9. CASE h # i /\ h = 0
  BY <1>4, <1>6, <1>7, <1>9 DEF Placed
<1>10. CASE h # i /\ h # 0
  BY <1>4, <1>6, <1>7, <1>10 DEF Placed
<1> QED  BY <1>8, <1>9, <1>10

\* A line adds itself to the section it is in and to no other.
LEMMA LinesGrow ==
  ASSUME NEW t \in Seq(Line), NEW l \in Line, NEW h \in 1..Len(t)
  PROVE  LinesOf(Append(t, l), h) =
           IF Section(Append(t, l), Len(t) + 1) = h THEN Append(LinesOf(t, h), l)
           ELSE LinesOf(t, h)
<1> DEFINE new == Append(t, l)
           n == Len(t)
           D == 1..n
           k == Section(new, n + 1)
<1>1. /\ n \in Nat /\ DOMAIN t = D /\ DOMAIN new = 1..(n + 1) /\ Len(new) = n + 1
      /\ \A j \in D : new[j] = t[j]
      /\ new[n + 1] = l
  OBVIOUS
<1>2. \A j \in D : Section(new, j) = Section(t, j)
  <2>1. \A j \in D : j \in 0..n
    OBVIOUS
  <2> QED  BY <2>1, SectionStays
<1> HIDE DEF new, n, k
<1>3. Inside(new, h) \cap 1..n = Inside(t, h) \cap 1..n
  BY <1>1, <1>2 DEF Inside
<1>4. InOrder(Inside(new, h), n) = InOrder(Inside(t, h), n)
  BY <1>1, <1>3, InOrderSame
<1>5. PICK s : s = InOrder(Inside(t, h), n)
  OBVIOUS
<1>6. s \in Seq(D)
  <2>1. s \in Seq(Inside(t, h) \cap 1..n)
    BY <1>1, <1>5, InOrderTyped
  <2>2. Inside(t, h) \cap 1..n \subseteq D
    OBVIOUS
  <2> HIDE DEF D
  <2> QED  BY <2>1, <2>2
<1>7. InOrder(Inside(new, h), n + 1) = Collect(Inside(new, h), s, n + 1)
  BY <1>1, <1>4, <1>5, InOrderTurns
<1>8. n + 1 \in Inside(new, h) <=> k = h
  <2>1. h # n + 1 /\ n + 1 \in 1..(n + 1)
    BY <1>1 DEF n
  <2> QED  BY <1>1, <2>1 DEF Inside, k
<1>9. LinesOf(t, h) = Image(t, s) /\ LinesOf(new, h) = Image(new, Collect(Inside(new, h), s, n + 1))
  BY <1>1, <1>5, <1>7 DEF LinesOf, Image, n
<1>10. Image(new, s) = Image(t, s)
  BY <1>1, <1>6, ImageSame
<1>11. CASE k # h
  BY <1>8, <1>9, <1>10, <1>11 DEF Collect, new, n, k
<1>12. CASE k = h
  <2>1. s \in Seq(D \cup {n + 1})
    <3>1. D \subseteq D \cup {n + 1}
      OBVIOUS
    <3> HIDE DEF D
    <3> QED  BY <1>6, <3>1
  <2>2. n + 1 \in D \cup {n + 1}
    OBVIOUS
  <2>3. Image(new, Append(s, n + 1)) = Append(Image(new, s), new[n + 1])
    BY <2>1, <2>2, ImageAppend
  <2>4. LinesOf(new, h) = Append(LinesOf(t, h), l)
    BY <1>1, <1>8, <1>9, <1>10, <1>12, <2>3 DEF Collect
  <2> QED  BY <1>12, <2>4 DEF new, n, k
<1> QED  BY <1>11, <1>12

-----------------------------------------------------------------------------
(* What has been read so far *)

\* The section that the next line may belong to, and its lines, which wait for its end.
OpenSection(t) == Section(t, Len(t))
Waiting(t) == IF OpenSection(t) = 0 THEN {} ELSE Inside(t, OpenSection(t))

Telling(t) == [i \in DOMAIN t |-> Says(t, i)]
Finished(t) == Starts(t) \ {OpenSection(t)}

PartFields == {"header", "body", "out", "refused"}
ReadSoFar(t) ==
  LET h == OpenSection(t)
  IN  [header |-> IF h = 0 THEN NoHeader ELSE t[h],
       body |-> IF h = 0 THEN << >> ELSE LinesOf(t, h),
       out |-> Image(Telling(t), InOrder(Finished(t), Len(t))),
       refused |-> FALSE]

\* The parser has refused the text for a reason, or it has what the sections say.
ReadRight(t, p) ==
  /\ DOMAIN p = PartFields /\ p.refused \in BOOLEAN
  /\ p.refused => ~Sensible(t)
  /\ ~p.refused => /\ p = ReadSoFar(t)
                   /\ \A i \in DOMAIN t \ Waiting(t) : Placed(t, i)

\* A section that is open goes on to the end.
LEMMA OpenSectionHolds ==
  ASSUME NEW t \in Seq(Line)
  PROVE  LET h == OpenSection(t)
         IN  /\ h \in 0..Len(t)
             /\ h # 0 => /\ h \in DOMAIN t /\ IsHeader(t[h])
                         /\ \A j \in h..Len(t) : Section(t, j) = h
<1>1. Len(t) \in Nat /\ DOMAIN t = 1..Len(t)
  OBVIOUS
<1>2. LET h == Section(t, Len(t))
      IN  /\ h \in 0..Len(t)
          /\ h # 0 => IsHeader(t[h]) /\ \A j \in h..Len(t) : Section(t, j) = h
  BY <1>1, SectionHolds
<1> QED  BY <1>1, <1>2 DEF OpenSection

\* An open section is the last thing that the text begins.
LEMMA OpenSectionLast ==
  ASSUME NEW t \in Seq(Line), OpenSection(t) # 0
  PROVE  /\ OpenSection(t) \in Starts(t) /\ OpenSection(t) \in 1..Len(t)
         /\ InOrder(Starts(t), Len(t)) = Append(InOrder(Finished(t), Len(t)), OpenSection(t))
<1>1. PICK h : h = OpenSection(t)
  OBVIOUS
<1>2. /\ h \in 1..Len(t) /\ IsHeader(t[h]) /\ \A j \in h..Len(t) : Section(t, j) = h
      /\ Len(t) \in Nat /\ DOMAIN t = 1..Len(t)
  BY <1>1, OpenSectionHolds
<1>3. h \in Starts(t)
  <2>1. Section(t, h) = h
    BY <1>2
  <2> QED  BY <1>2, <2>1 DEF Starts, IsHeader
<1>4. \A i \in Starts(t) \cap 1..Len(t) : i <= h
  <2> SUFFICES ASSUME NEW i \in Starts(t), i \in 1..Len(t), ~(i <= h) PROVE FALSE
    OBVIOUS
  <2>1. i \in h..Len(t) /\ i # h /\ i # 0 /\ h # 0
    BY <1>2
  <2>2. Section(t, i) = h
    BY <1>2, <2>1
  <2> QED  BY <2>1, <2>2 DEF Starts
<1>5. InOrder(Starts(t), Len(t)) = Append(InOrder(Starts(t) \ {h}, Len(t)), h)
  BY <1>2, <1>3, <1>4, InOrderLast
<1> QED  BY <1>1, <1>2, <1>3, <1>5 DEF Finished

\* What a text means is what its beginnings say, in order.
LEMMA MeantIsTold ==
  ASSUME NEW t \in Seq(Line)
  PROVE  Meant(t) = Image(Telling(t), InOrder(Starts(t), Len(t)))
<1>1. PICK s : s = InOrder(Starts(t), Len(t))
  OBVIOUS
<1>2. Len(t) \in Nat /\ DOMAIN t = 1..Len(t)
  OBVIOUS
<1>3. s \in Seq(Starts(t) \cap 1..Len(t))
  BY <1>1, <1>2, InOrderTyped
<1>4. \A k \in DOMAIN s : s[k] \in DOMAIN t
  BY <1>2, <1>3
<1>5. \A k \in DOMAIN s : Telling(t)[s[k]] = Says(t, s[k])
  BY <1>4 DEF Telling
<1> QED  BY <1>1, <1>5 DEF Meant, Image

\* An open section is put in order with what was finished before.
LEMMA MeantGrows ==
  ASSUME NEW t \in Seq(Line)
  PROVE  LET h == OpenSection(t)
             told == Image(Telling(t), InOrder(Finished(t), Len(t)))
         IN  Meant(t) = IF h = 0 THEN told ELSE Append(told, Block(t[h], LinesOf(t, h)))
<1>1. CASE OpenSection(t) = 0
  <2>1. 0 \notin Starts(t)
    BY DEF Starts
  <2>2. Finished(t) = Starts(t)
    BY <1>1, <2>1 DEF Finished
  <2> QED  BY <1>1, <2>2, MeantIsTold
<1>2. CASE OpenSection(t) # 0
  <2>1. PICK h : h = OpenSection(t)
    OBVIOUS
  <2>2. /\ h \in 1..Len(t) /\ h \in DOMAIN t /\ IsHeader(t[h]) /\ Len(t) \in Nat
        /\ InOrder(Starts(t), Len(t)) = Append(InOrder(Finished(t), Len(t)), h)
    BY <1>2, <2>1, OpenSectionLast, OpenSectionHolds
  <2>3. PICK s : s = InOrder(Finished(t), Len(t))
    OBVIOUS
  <2>4. s \in Seq(1..Len(t))
    <3>1. s \in Seq(Finished(t) \cap 1..Len(t))
      BY <2>2, <2>3, InOrderTyped
    <3>2. Finished(t) \cap 1..Len(t) \subseteq 1..Len(t)
      OBVIOUS
    <3> QED  BY <3>1, <3>2
  <2>5. Image(Telling(t), Append(s, h)) = Append(Image(Telling(t), s), Telling(t)[h])
    BY <2>2, <2>4, ImageAppend
  <2>6. Telling(t)[h] = Block(t[h], LinesOf(t, h))
    BY <2>2 DEF Telling, Says
  <2>7. Meant(t) = Append(Image(Telling(t), s), Block(t[h], LinesOf(t, h)))
    BY <2>2, <2>3, <2>5, <2>6, MeantIsTold
  <2> QED  BY <1>2, <2>1, <2>3, <2>7
<1> QED  BY <1>1, <1>2

\* What the parser has when no section is open.
Told(out) == [header |-> NoHeader, body |-> << >>, out |-> out, refused |-> FALSE]

\* Forgetting the section and its lines leaves nothing but the definitions.
LEMMA NoTextTold ==
  ASSUME NEW out
  PROVE  [NoText EXCEPT !.out = out] = Told(out)
<1>1. PICK r : r = NoText
  OBVIOUS
<1>2. PICK none : none = NoHeader
  OBVIOUS
<1>3. r = [header |-> none, body |-> << >>, out |-> << >>, refused |-> FALSE]
  BY <1>1, <1>2 DEF NoText
<1>4. PICK q : q = [r EXCEPT !.out = out]
  OBVIOUS
<1>5. q = [header |-> none, body |-> << >>, out |-> out, refused |-> FALSE]
  BY <1>3, <1>4
<1> QED  BY <1>1, <1>2, <1>4, <1>5 DEF Told

\* The end of the open section decides on its lines.
LEMMA FlushDecides ==
  ASSUME NEW t \in Seq(Line), NEW p, ReadRight(t, p), ~p.refused
  PROVE  /\ Flush(p).refused <=> ~Sensible(t)
         /\ Flush(p).refused \in BOOLEAN /\ DOMAIN Flush(p) = PartFields
         /\ ~Flush(p).refused => Flush(p) = Told(Meant(t))
<1>1. p = ReadSoFar(t) /\ (\A i \in DOMAIN t \ Waiting(t) : Placed(t, i)) /\ DOMAIN p = PartFields
  BY DEF ReadRight
<1>2. PICK h : h = OpenSection(t)
  OBVIOUS
<1>3. PICK told : told = Image(Telling(t), InOrder(Finished(t), Len(t)))
  OBVIOUS
<1>4. p = [header |-> IF h = 0 THEN NoHeader ELSE t[h],
           body |-> IF h = 0 THEN << >> ELSE LinesOf(t, h), out |-> told, refused |-> FALSE]
  BY <1>1, <1>2, <1>3 DEF ReadSoFar
<1>5. Meant(t) = IF h = 0 THEN told ELSE Append(told, Block(t[h], LinesOf(t, h)))
  BY <1>2, <1>3, MeantGrows
<1>6. CASE h = 0
  <2>1. Sensible(t)
    BY <1>1, <1>2, <1>6 DEF Waiting, Sensible
  <2>2. Flush(p) = p
    BY <1>4, <1>6 DEF Flush
  <2>3. p = [header |-> NoHeader, body |-> << >>, out |-> Meant(t), refused |-> FALSE]
    BY <1>4, <1>5, <1>6
  <2>4. p = Told(Meant(t))
    BY <2>3 DEF Told
  <2>5. p.refused = FALSE
    BY <2>3
  <2> QED  BY <1>1, <2>1, <2>2, <2>4, <2>5
<1>7. CASE h # 0
  <2>1. h \in DOMAIN t /\ h \in 1..Len(t) /\ IsHeader(t[h]) /\ Len(t) \in Nat /\ DOMAIN t = 1..Len(t)
    BY <1>2, <1>7, OpenSectionHolds, OpenSectionLast
  <2>2. t[h] # NoHeader
    BY <2>1 DEF IsHeader, NoHeader
  <2>3. PICK body : body = LinesOf(t, h)
    OBVIOUS
  <2>4. p.header = t[h] /\ p.body = body /\ p.out = told /\ ~p.refused
    BY <1>4, <1>7, <2>3
  <2>5. (\E i \in DOMAIN body : ~Accepts(t[h], body[i])) <=> ~Sensible(t)
    <3>1. PICK s : s = InOrder(Inside(t, h), Len(t))
      OBVIOUS
    <3>2. s \in Seq(Inside(t, h) \cap 1..Len(t))
      BY <2>1, <3>1, InOrderTyped
    <3>3. DOMAIN body = DOMAIN s /\ \A k \in DOMAIN s : body[k] = t[s[k]]
      BY <2>3, <3>1 DEF LinesOf
    <3>4. \A i \in Inside(t, h) : Placed(t, i) <=> Accepts(t[h], t[i])
      BY <1>7 DEF Inside, Placed
    <3>5. ASSUME NEW k \in DOMAIN body, ~Accepts(t[h], body[k]) PROVE ~Sensible(t)
      <4>1. s[k] \in Inside(t, h) /\ s[k] \in DOMAIN t
        BY <2>1, <3>2, <3>3
      <4> QED  BY <3>3, <3>4, <3>5, <4>1 DEF Sensible
    <3>6. ASSUME NEW i \in DOMAIN t, ~Placed(t, i)
          PROVE  \E k \in DOMAIN body : ~Accepts(t[h], body[k])
      <4>1. i \in Inside(t, h)
        BY <1>1, <1>2, <1>7, <3>6 DEF Waiting
      <4>2. PICK k \in DOMAIN s : s[k] = i
        BY <2>1, <3>1, <4>1, InOrderHasAll
      <4> QED  BY <3>3, <3>4, <3>6, <4>1, <4>2
    <3> QED  BY <3>5, <3>6 DEF Sensible
  <2>6. CASE \E i \in DOMAIN body : ~Accepts(t[h], body[i])
    <3>1. Flush(p) = [p EXCEPT !.refused = TRUE]
      BY <2>2, <2>4, <2>6 DEF Flush
    <3>2. Flush(p).refused = TRUE /\ DOMAIN Flush(p) = PartFields
      BY <1>1, <3>1 DEF PartFields
    <3> QED  BY <2>5, <2>6, <3>2
  <2>7. CASE ~\E i \in DOMAIN body : ~Accepts(t[h], body[i])
    <3>1. Flush(p) = [NoText EXCEPT !.out = Append(told, Block(t[h], body))]
      BY <2>2, <2>4, <2>7 DEF Flush
    <3>2. Flush(p) = Told(Meant(t))
      BY <1>5, <1>7, <2>3, <3>1, NoTextTold
    <3>3. Flush(p).refused = FALSE /\ DOMAIN Flush(p) = PartFields
      BY <3>2 DEF Told, PartFields
    <3> QED  BY <2>5, <2>7, <3>2, <3>3
  <2> QED  BY <2>6, <2>7
<1> QED  BY <1>6, <1>7

-----------------------------------------------------------------------------
(* One more line *)

\* What a text is with one more line, whose section is k.
GrownBy(new, t, l, k) ==
  /\ Len(t) \in Nat /\ DOMAIN t = 1..Len(t)
  /\ Len(new) = Len(t) + 1 /\ DOMAIN new = 1..(Len(t) + 1)
  /\ new[Len(t) + 1] = l /\ Section(new, Len(t) + 1) = k
  /\ \A i \in 1..Len(t) : /\ new[i] = t[i] /\ Section(new, i) = Section(t, i)
                          /\ Placed(new, i) = Placed(t, i)
  /\ Starts(new) \cap 1..Len(t) = Starts(t) /\ Starts(t) \subseteq 1..Len(t)
  /\ Len(t) + 1 \in Starts(new) <=> l.is # "end" /\ k \in {0, Len(t) + 1}
  /\ OpenSection(new) = k

\* The line is the end of a section, the beginning of one, or goes to the open one.
LEMMA TextGrows ==
  ASSUME NEW t \in Seq(Line), NEW l \in Line
  PROVE  GrownBy(Append(t, l), t, l, IF IsHeader(l) THEN Len(t) + 1
                                     ELSE IF l.is = "end" THEN 0 ELSE OpenSection(t))
<1>1. PICK new : new = Append(t, l)
  OBVIOUS
<1>2. PICK n : n = Len(t)
  OBVIOUS
<1>3. PICK k : k = IF IsHeader(l) THEN n + 1 ELSE IF l.is = "end" THEN 0 ELSE OpenSection(t)
  OBVIOUS
<1>4. /\ n \in Nat /\ DOMAIN t = 1..n /\ DOMAIN new = 1..(n + 1) /\ Len(new) = n + 1
      /\ new[n + 1] = l /\ \A i \in 1..n : new[i] = t[i]
  BY <1>1, <1>2
<1>5. \A i \in 0..n : Section(new, i) = Section(t, i)
  BY <1>1, <1>2, SectionStays
<1>6. \A i \in 1..n : Placed(new, i) = Placed(t, i)
  BY <1>1, <1>2, PlacedStays
<1>7. Section(new, n + 1) = k
  <2>1. Section(new, n) = OpenSection(t)
    BY <1>2, <1>4, <1>5 DEF OpenSection
  <2> QED  BY <1>3, <1>4, <2>1, SectionTurns
<1>8. \A i \in 1..n : i \in 0..n /\ i \in 1..(n + 1)
  BY <1>4
<1>9. \A i \in 1..n : i \in Starts(new) <=> i \in Starts(t)
  BY <1>4, <1>5, <1>8 DEF Starts
<1>10. n + 1 \in Starts(new) <=> l.is # "end" /\ k \in {0, n + 1}
  <2>1. n + 1 \in 1..(n + 1)
    BY <1>4
  <2> QED  BY <1>4, <1>7, <2>1 DEF Starts
<1>11. Starts(t) \subseteq 1..n
  BY <1>4 DEF Starts
<1>12. Starts(new) \cap 1..n = Starts(t)
  BY <1>9, <1>11
<1>13. OpenSection(new) = k
  BY <1>4, <1>7 DEF OpenSection
<1>14. \A i \in 1..n : new[i] = t[i] /\ Section(new, i) = Section(t, i) /\ Placed(new, i) = Placed(t, i)
  BY <1>4, <1>5, <1>6, <1>8
<1>15. GrownBy(new, t, l, k)
  BY <1>2, <1>4, <1>7, <1>10, <1>11, <1>12, <1>13, <1>14 DEF GrownBy
<1> QED  BY <1>1, <1>2, <1>3, <1>15

\* What the sections say that the line does not belong to stays as it is.
LEMMA ToldStays ==
  ASSUME NEW t \in Seq(Line), NEW l \in Line, NEW J, J \subseteq 1..Len(t),
         Section(Append(t, l), Len(t) + 1) \notin J, NEW s \in Seq(J)
  PROVE  Image(Telling(Append(t, l)), s) = Image(Telling(t), s)
<1>1. PICK new : new = Append(t, l)
  OBVIOUS
<1>2. /\ DOMAIN t = 1..Len(t) /\ DOMAIN new = 1..(Len(t) + 1) /\ Len(t) \in Nat
      /\ \A i \in 1..Len(t) : new[i] = t[i]
  BY <1>1
<1>3. ASSUME NEW i \in J PROVE Telling(new)[i] = Telling(t)[i]
  <2>1. i \in 1..Len(t) /\ i \in DOMAIN new /\ new[i] = t[i]
    BY <1>2
  <2>2. LinesOf(new, i) = LinesOf(t, i)
    BY <1>1, <2>1, LinesGrow
  <2>3. Says(new, i) = Says(t, i)
    BY <2>1, <2>2 DEF Says
  <2> QED  BY <1>2, <2>1, <2>3 DEF Telling
<1>4. PICK f, g : f = Telling(new) /\ g = Telling(t)
  OBVIOUS
<1>5. Image(f, s) = Image(g, s)
  <2>1. \A i \in J : f[i] = g[i]
    BY <1>3, <1>4
  <2>2. \A k \in DOMAIN s : s[k] \in J
    OBVIOUS
  <2> QED  BY <2>1, <2>2 DEF Image
<1> QED  BY <1>1, <1>4, <1>5

\* With the end or the beginning of a section all is finished that began before.
LEMMA ToldAtMark ==
  ASSUME NEW t \in Seq(Line), NEW l \in Line, IsHeader(l) \/ l.is = "end"
  PROVE  LET new == Append(t, l)
         IN  Image(Telling(new), InOrder(Finished(new), Len(new))) = Meant(t)
<1>1. PICK new : new = Append(t, l)
  OBVIOUS
<1>2. PICK k : k = IF IsHeader(l) THEN Len(t) + 1 ELSE 0
  OBVIOUS
<1>3. GrownBy(new, t, l, k)
  BY <1>1, <1>2, TextGrows
<1>4. PICK n : n = Len(t)
  OBVIOUS
<1>5. n \in Nat /\ Len(new) = n + 1 /\ OpenSection(new) = k
      /\ Section(new, n + 1) = k
  BY <1>3, <1>4 DEF GrownBy
<1>6. k \notin 1..n /\ n + 1 \notin 1..n
  BY <1>2, <1>4, <1>5
<1>7. Finished(new) \cap 1..n = Starts(t) \cap 1..n
  BY <1>3, <1>4, <1>5, <1>6 DEF Finished, GrownBy
<1>8. n + 1 \notin Finished(new)
  <2>1. CASE IsHeader(l)
    BY <1>2, <1>4, <1>5, <2>1 DEF Finished
  <2>2. CASE ~IsHeader(l)
    BY <1>3, <1>4, <2>2 DEF Finished, GrownBy
  <2> QED  BY <2>1, <2>2
<1>9. PICK s : s = InOrder(Starts(t), n)
  OBVIOUS
<1>10. InOrder(Finished(new), n) = s
  BY <1>5, <1>7, <1>9, InOrderSame
<1>11. InOrder(Finished(new), n + 1) = s
  BY <1>5, <1>8, <1>10, InOrderTurns DEF Collect
<1>12. s \in Seq(Starts(t) \cap 1..n)
  BY <1>5, <1>9, InOrderTyped
<1>13. Image(Telling(new), s) = Image(Telling(t), s)
  BY <1>1, <1>4, <1>5, <1>6, <1>12, ToldStays
<1>14. Image(Telling(t), s) = Meant(t)
  BY <1>4, <1>9, MeantIsTold
<1> QED  BY <1>1, <1>5, <1>11, <1>13, <1>14

\* A text that is refused for a line stays refused.
LEMMA SenseStays ==
  ASSUME NEW t \in Seq(Line), NEW l \in Line
  PROVE  Sensible(Append(t, l)) <=> Sensible(t) /\ Placed(Append(t, l), Len(t) + 1)
<1>1. PICK new : new = Append(t, l)
  OBVIOUS
<1>2. /\ DOMAIN t = 1..Len(t) /\ DOMAIN new = 1..(Len(t) + 1) /\ Len(t) \in Nat
  BY <1>1
<1>3. \A i \in 1..Len(t) : Placed(new, i) = Placed(t, i)
  BY <1>1, PlacedStays
<1>4. \A i : i \in 1..(Len(t) + 1) <=> i \in 1..Len(t) \/ i = Len(t) + 1
  BY <1>2
<1> QED  BY <1>1, <1>2, <1>3, <1>4 DEF Sensible

\* A refusal is for a reason, and stays.
LEMMA RefusedRight ==
  ASSUME NEW t, NEW p, DOMAIN p = PartFields, p.refused = TRUE, ~Sensible(t)
  PROVE  ReadRight(t, p)
BY DEF ReadRight

\* An @end is read right.
LEMMA EndReadRight ==
  ASSUME NEW t \in Seq(Line), NEW p, ReadRight(t, p), NEW l \in Line, ~p.refused, l.is = "end"
  PROVE  ReadRight(Append(t, l), ReadLine(p, l))
<1>1. PICK new : new = Append(t, l)
  OBVIOUS
<1>2. PICK q : q = Flush(p)
  OBVIOUS
<1>3. /\ q.refused <=> ~Sensible(t)
      /\ q.refused \in BOOLEAN /\ DOMAIN q = PartFields
      /\ ~q.refused => q = Told(Meant(t))
  BY <1>2, FlushDecides
<1>4. ReadLine(p, l) = q
  BY <1>2 DEF ReadLine
<1>5. Sensible(new) <=> Sensible(t) /\ Placed(new, Len(t) + 1)
  BY <1>1, SenseStays
<1>6. CASE q.refused
  <2>1. ReadRight(new, q)
    BY <1>3, <1>5, <1>6, RefusedRight
  <2> QED  BY <1>1, <1>4, <2>1
<1>7. CASE ~q.refused
  <2>1. GrownBy(new, t, l, 0)
    BY <1>1, TextGrows DEF IsHeader
  <2>2. Placed(new, Len(t) + 1)
    BY <2>1 DEF GrownBy, Placed
  <2>3. Sensible(new)
    BY <1>3, <1>5, <1>7, <2>2
  <2>4. OpenSection(new) = 0
    BY <2>1 DEF GrownBy
  <2>5. Image(Telling(new), InOrder(Finished(new), Len(new))) = Meant(t)
    BY <1>1, ToldAtMark
  <2>6. ReadSoFar(new) = Told(Meant(t))
    BY <2>4, <2>5 DEF ReadSoFar, Told
  <2>7. q = ReadSoFar(new) /\ \A i \in DOMAIN new \ Waiting(new) : Placed(new, i)
    BY <1>3, <1>7, <2>3, <2>6 DEF Sensible
  <2>8. ReadRight(new, q)
    BY <1>3, <1>7, <2>7 DEF ReadRight
  <2> QED  BY <1>1, <1>4, <2>8
<1> QED  BY <1>6, <1>7

\* A header is read right.
LEMMA HeaderReadRight ==
  ASSUME NEW t \in Seq(Line), NEW p, ReadRight(t, p), NEW l \in Line, ~p.refused, IsHeader(l)
  PROVE  ReadRight(Append(t, l), ReadLine(p, l))
<1>1. PICK new : new = Append(t, l)
  OBVIOUS
<1>2. PICK n : n = Len(t)
  OBVIOUS
<1>3. GrownBy(new, t, l, n + 1)
  BY <1>1, <1>2, TextGrows
<1>4. /\ n \in Nat /\ Len(new) = n + 1 /\ DOMAIN new = 1..(n + 1) /\ new[n + 1] = l
      /\ Section(new, n + 1) = n + 1 /\ OpenSection(new) = n + 1
  BY <1>2, <1>3 DEF GrownBy
<1>5. Sensible(new) <=> Sensible(t) /\ Placed(new, n + 1)
  BY <1>1, <1>2, SenseStays
<1>6. Placed(new, n + 1) <=> WellFormed(l)
  BY <1>4 DEF Placed
<1>7. DOMAIN p = PartFields
  BY DEF ReadRight
<1>8. l.is # "end"
  BY DEF IsHeader
<1>9. CASE ~WellFormed(l)
  <2>1. ReadLine(p, l) = [p EXCEPT !.refused = TRUE]
    BY <1>8, <1>9 DEF ReadLine
  <2>2. ReadLine(p, l).refused = TRUE /\ DOMAIN ReadLine(p, l) = PartFields
    BY <1>7, <2>1 DEF PartFields
  <2> QED  BY <1>1, <1>5, <1>6, <1>9, <2>2, RefusedRight
<1>10. CASE WellFormed(l)
  <2>1. PICK q : q = Flush(p)
    OBVIOUS
  <2>2. /\ q.refused <=> ~Sensible(t)
        /\ q.refused \in BOOLEAN /\ DOMAIN q = PartFields
        /\ ~q.refused => q = Told(Meant(t))
    BY <2>1, FlushDecides
  <2>3. PICK r : r = [q EXCEPT !.header = l]
    OBVIOUS
  <2>4. ReadLine(p, l) = r
    BY <1>8, <1>10, <2>1, <2>3 DEF ReadLine
  <2>5. DOMAIN r = PartFields /\ r.refused = q.refused
    BY <2>2, <2>3 DEF PartFields
  <2>6. CASE q.refused
    <3>1. ReadRight(new, r)
      BY <1>5, <2>2, <2>5, <2>6, RefusedRight
    <3> QED  BY <1>1, <2>4, <3>1
  <2>7. CASE ~q.refused
    <3>1. PICK out : out = Meant(t)
      OBVIOUS
    <3>2. q = [header |-> NoHeader, body |-> << >>, out |-> out, refused |-> FALSE]
      BY <2>2, <2>7, <3>1 DEF Told
    <3>3. r = [header |-> l, body |-> << >>, out |-> out, refused |-> FALSE]
      BY <2>3, <3>2
    <3>4. Inside(new, n + 1) = {}
      <4> SUFFICES ASSUME NEW i \in Inside(new, n + 1) PROVE FALSE
        OBVIOUS
      <4>1. i \in 1..n /\ i \in Nat /\ Section(new, i) = n + 1
        BY <1>4 DEF Inside
      <4>2. Section(new, i) \in 0..i
        BY <4>1, SectionHolds
      <4> QED  BY <1>4, <4>1, <4>2
    <3>5. LinesOf(new, n + 1) = << >>
      <4>1. PICK s : s = InOrder({}, n + 1)
        OBVIOUS
      <4>2. s = << >>
        <5>1. 0 \in Nat /\ n + 1 \in Nat /\ 0 <= n + 1
          BY <1>4
        <5>2. InOrder({}, n + 1) = InOrder({}, 0)
          BY <5>1, InOrderStops
        <5> QED  BY <4>1, <5>1, <5>2, InOrderTurns
      <4>3. LinesOf(new, n + 1) = [k \in DOMAIN s |-> new[s[k]]]
        BY <1>4, <3>4, <4>1 DEF LinesOf
      <4> QED  BY <4>2, <4>3
    <3>6. Image(Telling(new), InOrder(Finished(new), Len(new))) = out
      BY <1>1, <3>1, ToldAtMark
    <3>7. ReadSoFar(new) = r
      <4>1. n + 1 # 0
        BY <1>4
      <4> QED  BY <1>4, <3>3, <3>5, <3>6, <4>1 DEF ReadSoFar
    <3>8. Sensible(new)
      BY <1>5, <1>6, <1>10, <2>2, <2>7
    <3>9. \A i \in DOMAIN new \ Waiting(new) : Placed(new, i)
      BY <3>8 DEF Sensible
    <3>10. r.refused = FALSE
      BY <3>3
    <3>11. ReadRight(new, r)
      BY <2>5, <3>7, <3>9, <3>10 DEF ReadRight
    <3> QED  BY <1>1, <2>4, <3>11
  <2> QED  BY <2>6, <2>7
<1> QED  BY <1>9, <1>10

\* A line of a section is read right.
LEMMA InsideReadRight ==
  ASSUME NEW t \in Seq(Line), NEW p, ReadRight(t, p), NEW l \in Line, ~p.refused,
         ~IsHeader(l), l.is # "end", OpenSection(t) # 0
  PROVE  ReadRight(Append(t, l), ReadLine(p, l))
<1>1. PICK new : new = Append(t, l)
  OBVIOUS
<1>2. PICK n, h : n = Len(t) /\ h = OpenSection(t)
  OBVIOUS
<1>3. GrownBy(new, t, l, h)
  BY <1>1, <1>2, TextGrows
<1>4. /\ n \in Nat /\ Len(new) = n + 1 /\ DOMAIN new = 1..(n + 1) /\ new[n + 1] = l
      /\ Section(new, n + 1) = h /\ OpenSection(new) = h /\ DOMAIN t = 1..n
  BY <1>2, <1>3 DEF GrownBy
<1>5. h # 0 /\ h \in 1..n /\ IsHeader(t[h]) /\ new[h] = t[h] /\ h # n + 1
  <2>1. h # 0 /\ h \in 1..n /\ IsHeader(t[h])
    BY <1>2, OpenSectionHolds, OpenSectionLast
  <2> QED  BY <1>2, <1>3, <1>4, <2>1 DEF GrownBy
<1>6. p = ReadSoFar(t) /\ (\A i \in DOMAIN t \ Waiting(t) : Placed(t, i)) /\ DOMAIN p = PartFields
  BY DEF ReadRight
<1>7. PICK told, body : told = Image(Telling(t), InOrder(Finished(t), n)) /\ body = LinesOf(t, h)
  OBVIOUS
<1>8. p = [header |-> t[h], body |-> body, out |-> told, refused |-> FALSE]
  BY <1>2, <1>5, <1>6, <1>7 DEF ReadSoFar
<1>9. PICK r : r = [p EXCEPT !.body = Append(@, l)]
  OBVIOUS
<1>10. ReadLine(p, l) = r
  <2>1. t[h] # NoHeader
    BY <1>5 DEF IsHeader, NoHeader
  <2> QED  BY <1>8, <1>9, <2>1 DEF ReadLine
<1>11. PICK longer : longer = Append(body, l)
  OBVIOUS
<1>12. r = [header |-> t[h], body |-> longer, out |-> told, refused |-> FALSE]
  BY <1>8, <1>9, <1>11
<1>13. LinesOf(new, h) = longer
  BY <1>1, <1>2, <1>4, <1>5, <1>7, <1>11, LinesGrow
<1>14. Image(Telling(new), InOrder(Finished(new), n + 1)) = told
  <2>1. Finished(new) \cap 1..n = Finished(t) \cap 1..n
    BY <1>2, <1>3, <1>4 DEF Finished, GrownBy
  <2>2. n + 1 \notin Finished(new)
    BY <1>2, <1>3, <1>5 DEF Finished, GrownBy
  <2>3. PICK s : s = InOrder(Finished(t), n)
    OBVIOUS
  <2>4. InOrder(Finished(new), n) = s
    BY <1>4, <2>1, <2>3, InOrderSame
  <2>5. InOrder(Finished(new), n + 1) = s
    BY <1>4, <2>2, <2>4, InOrderTurns DEF Collect
  <2>6. s \in Seq(Finished(t) \cap 1..n)
    BY <1>4, <2>3, InOrderTyped
  <2>7. h \notin Finished(t) \cap 1..n
    BY <1>2 DEF Finished
  <2>8. Image(Telling(new), s) = Image(Telling(t), s)
    BY <1>1, <1>2, <1>4, <2>6, <2>7, ToldStays
  <2> QED  BY <1>7, <2>3, <2>5, <2>8
<1>15. ReadSoFar(new) = r
  BY <1>4, <1>5, <1>12, <1>13, <1>14 DEF ReadSoFar
<1>16. \A i \in DOMAIN new \ Waiting(new) : Placed(new, i)
  <2> SUFFICES ASSUME NEW i \in DOMAIN new, i \notin Waiting(new) PROVE Placed(new, i)
    OBVIOUS
  <2>1. ~(i # h /\ Section(new, i) = h)
    BY <1>4, <1>5 DEF Waiting, Inside
  <2>2. i \in 1..n
    BY <1>4, <1>5, <2>1
  <2>3. ~(i # h /\ Section(t, i) = h) /\ Placed(new, i) = Placed(t, i)
    BY <1>2, <1>3, <2>1, <2>2 DEF GrownBy
  <2>4. i \in DOMAIN t \ Waiting(t)
    BY <1>2, <1>4, <1>5, <2>2, <2>3 DEF Waiting, Inside
  <2> QED  BY <1>6, <2>3, <2>4
<1>17. DOMAIN r = PartFields /\ r.refused = FALSE
  BY <1>12 DEF PartFields
<1>18. ReadRight(new, r)
  BY <1>15, <1>16, <1>17 DEF ReadRight
<1> QED  BY <1>1, <1>10, <1>18

\* A line outside of sections is read right.
LEMMA OutsideReadRight ==
  ASSUME NEW t \in Seq(Line), NEW p, ReadRight(t, p), NEW l \in Line, ~p.refused,
         ~IsHeader(l), l.is # "end", OpenSection(t) = 0
  PROVE  ReadRight(Append(t, l), ReadLine(p, l))
<1>1. PICK new : new = Append(t, l)
  OBVIOUS
<1>2. PICK n : n = Len(t)
  OBVIOUS
<1>3. GrownBy(new, t, l, 0)
  BY <1>1, TextGrows
<1>4. /\ n \in Nat /\ Len(new) = n + 1 /\ DOMAIN new = 1..(n + 1) /\ new[n + 1] = l
      /\ Section(new, n + 1) = 0 /\ OpenSection(new) = 0 /\ DOMAIN t = 1..n
  BY <1>2, <1>3 DEF GrownBy
<1>5. p = ReadSoFar(t) /\ (\A i \in DOMAIN t \ Waiting(t) : Placed(t, i)) /\ DOMAIN p = PartFields
  BY DEF ReadRight
<1>6. PICK told : told = Image(Telling(t), InOrder(Finished(t), n))
  OBVIOUS
<1>7. p = Told(told)
  BY <1>2, <1>5, <1>6 DEF ReadSoFar, Told
<1>8. p.header = NoHeader /\ p.refused = FALSE
  BY <1>7 DEF Told
<1>9. Sensible(t)
  BY <1>5 DEF Waiting, Sensible
<1>10. Placed(new, n + 1) <=> IsDefinition(l)
  <2>1. n + 1 # 0
    BY <1>4
  <2> QED  BY <1>4, <2>1 DEF Placed
<1>11. Sensible(new) <=> IsDefinition(l)
  BY <1>1, <1>2, <1>9, <1>10, SenseStays
<1>12. CASE ~IsDefinition(l)
  <2>1. ReadLine(p, l) = [p EXCEPT !.refused = TRUE]
    BY <1>8, <1>12 DEF ReadLine
  <2>2. ReadLine(p, l).refused = TRUE /\ DOMAIN ReadLine(p, l) = PartFields
    BY <1>5, <2>1 DEF PartFields
  <2> QED  BY <1>1, <1>11, <1>12, <2>2, RefusedRight
<1>13. CASE IsDefinition(l)
  <2>1. PICK r : r = [p EXCEPT !.out = Append(@, l)]
    OBVIOUS
  <2>2. ReadLine(p, l) = r
    BY <1>8, <1>13, <2>1 DEF ReadLine
  <2>3. PICK longer : longer = Append(told, l)
    OBVIOUS
  <2>4. r = Told(longer)
    <3>1. PICK none : none = NoHeader
      OBVIOUS
    <3>2. p = [header |-> none, body |-> << >>, out |-> told, refused |-> FALSE]
      BY <1>7, <3>1 DEF Told
    <3>3. r = [header |-> none, body |-> << >>, out |-> longer, refused |-> FALSE]
      BY <2>1, <2>3, <3>2
    <3> QED  BY <3>1, <3>3 DEF Told
  <2>5. Image(Telling(new), InOrder(Finished(new), n + 1)) = longer
    <3>1. PICK s : s = InOrder(Finished(t), n)
      OBVIOUS
    <3>2. Finished(new) \cap 1..n = Finished(t) \cap 1..n
      BY <1>2, <1>3, <1>4 DEF Finished, GrownBy
    <3>3. n + 1 \in Finished(new)
      BY <1>2, <1>3, <1>4 DEF Finished, GrownBy
    <3>4. InOrder(Finished(new), n) = s
      BY <1>4, <3>1, <3>2, InOrderSame
    <3>5. InOrder(Finished(new), n + 1) = Append(s, n + 1)
      BY <1>4, <3>3, <3>4, InOrderTurns DEF Collect
    <3>6. s \in Seq(Finished(t) \cap 1..n)
      BY <1>4, <3>1, InOrderTyped
    <3>7. Image(Telling(new), s) = Image(Telling(t), s)
      <4>1. 0 \notin Finished(t) \cap 1..n /\ Finished(t) \cap 1..n \subseteq 1..n
        BY <1>4
      <4> QED  BY <1>1, <1>2, <1>4, <3>6, <4>1, ToldStays
    <3>8. s \in Seq(1..(n + 1)) /\ n + 1 \in 1..(n + 1)
      <4>1. Finished(t) \cap 1..n \subseteq 1..(n + 1)
        BY <1>4
      <4> QED  BY <1>4, <3>6, <4>1
    <3>9. Image(Telling(new), Append(s, n + 1))
            = Append(Image(Telling(new), s), Telling(new)[n + 1])
      BY <3>8, ImageAppend
    <3>10. Telling(new)[n + 1] = l
      BY <1>4, <3>8 DEF Telling, Says
    <3> QED  BY <1>6, <2>3, <3>1, <3>5, <3>7, <3>9, <3>10
  <2>6. ReadSoFar(new) = r
    BY <1>4, <2>4, <2>5 DEF ReadSoFar, Told
  <2>7. DOMAIN r = PartFields /\ r.refused = FALSE
    BY <2>4 DEF Told, PartFields
  <2>8. ReadRight(new, r)
    BY <1>11, <1>13, <2>6, <2>7 DEF ReadRight, Sensible
  <2> QED  BY <1>1, <2>2, <2>8
<1> QED  BY <1>12, <1>13

\* Every line is read right.
LEMMA LineReadRight ==
  ASSUME NEW t \in Seq(Line), NEW p, ReadRight(t, p), NEW l \in Line
  PROVE  ReadRight(Append(t, l), ReadLine(p, l))
<1>1. CASE p.refused
  <2>1. ReadLine(p, l) = p /\ DOMAIN p = PartFields /\ p.refused = TRUE /\ ~Sensible(t)
    BY <1>1 DEF ReadLine, ReadRight
  <2>2. ~Sensible(Append(t, l))
    BY <2>1, SenseStays
  <2> QED  BY <2>1, <2>2, RefusedRight
<1>2. CASE ~p.refused /\ l.is = "end"
  BY <1>2, EndReadRight
<1>3. CASE ~p.refused /\ IsHeader(l)
  BY <1>3, HeaderReadRight
<1>4. CASE ~p.refused /\ ~IsHeader(l) /\ l.is # "end"
  <2>1. CASE OpenSection(t) = 0
    BY <1>4, <2>1, OutsideReadRight
  <2>2. CASE OpenSection(t) # 0
    BY <1>4, <2>2, InsideReadRight
  <2> QED  BY <2>1, <2>2
<1> QED  BY <1>1, <1>2, <1>3, <1>4

\* The parser begins right, with no line read.
LEMMA NothingReadRight == ReadRight(<< >>, NoText)
<1>1. PICK t : t = << >>
  OBVIOUS
<1>2. Len(t) = 0 /\ DOMAIN t = {} /\ 0 \in Nat
  BY <1>1
<1>3. OpenSection(t) = 0
  BY <1>2, SectionTurns DEF OpenSection
<1>4. InOrder(Finished(t), 0) = << >>
  BY <1>2, InOrderTurns
<1>5. PICK s : s = InOrder(Finished(t), Len(t))
  OBVIOUS
<1>6. s = << >>
  BY <1>2, <1>4, <1>5
<1>7. Image(Telling(t), s) = << >>
  BY <1>6 DEF Image
<1>8. ReadSoFar(t) = NoText
  BY <1>3, <1>5, <1>7 DEF ReadSoFar, NoText
<1>9. DOMAIN NoText = PartFields /\ NoText.refused = FALSE
  BY DEF NoText, PartFields
<1>10. ReadRight(t, NoText)
  BY <1>2, <1>8, <1>9 DEF ReadRight
<1> QED  BY <1>1, <1>10

-----------------------------------------------------------------------------
(* Loading *)

\* The lines read so far are read right.
TextInv ==
  /\ text \in Seq(Line)
  /\ pc = "reading" => ReadRight(text, parsed)

\* The states that the program starts in have it.
LEMMA TextInvInit == Init => TextInv
BY DEF Init, TextInv

\* Every question is a call that looks things up.
LEMMA AskingLooks ==
  ASSUME Asking
  PROVE  Call /\ \E ns, us, vs, pairs : Looked(ns, us, vs, pairs)
<1>1. PICK n \in Asked : \/ \E m \in Asked : Convert(n, m)
                        \/ \E where \in Place : AskCompatible(n, where) \/ AskBaseUnits(n, where)
  BY DEF Asking
<1>2. ASSUME NEW m \in Asked, Convert(n, m)
      PROVE  Call /\ \E ns, us, vs, pairs : Looked(ns, us, vs, pairs)
  <2>1. Call
    BY <1>2 DEF Convert
  <2>2. \E ns, us, vs, pairs : Looked(ns, us, vs, pairs)
    BY <1>2, Zenon DEF Convert
  <2> QED  BY <2>1, <2>2
<1>3. ASSUME NEW where \in Place, AskCompatible(n, where)
      PROVE  Call /\ \E ns, us, vs, pairs : Looked(ns, us, vs, pairs)
  <2>1. Call
    BY <1>3 DEF AskCompatible
  <2>2. \E ns, us, vs, pairs : Looked(ns, us, vs, pairs)
    BY <1>3, Zenon DEF AskCompatible
  <2> QED  BY <2>1, <2>2
<1>4. ASSUME NEW where \in Place, AskBaseUnits(n, where)
      PROVE  Call /\ \E ns, us, vs, pairs : Looked(ns, us, vs, pairs)
  <2>1. Call
    BY <1>4 DEF AskBaseUnits
  <2>2. \E ns, us, vs, pairs : Looked(ns, us, vs, pairs)
    BY <1>4, Zenon DEF AskBaseUnits
  <2> QED  BY <2>1, <2>2
<1> QED  BY <1>1, <1>2, <1>3, <1>4

\* A step reads a line of a text, begins with none, or leaves reading alone.
LEMMA TextInvNext == TextInv /\ [Next]_vars => TextInv'
<1> SUFFICES ASSUME TextInv, [Next]_vars PROVE TextInv'
  OBVIOUS
<1>1. CASE UNCHANGED vars
  BY <1>1 DEF TextInv, vars, session
<1>2. CASE StartLoad
  BY <1>2, NothingReadRight DEF StartLoad, TextInv
<1>3. ASSUME NEW l \in Line, Read(l) PROVE TextInv'
  <2>1. /\ pc = "reading" /\ pc' = "reading"
        /\ text' = Append(text, l) /\ parsed' = ReadLine(parsed, l)
    BY <1>3 DEF Read
  <2>2. text \in Seq(Line) /\ ReadRight(text, parsed)
    BY <2>1 DEF TextInv
  <2>3. ReadRight(Append(text, l), ReadLine(parsed, l))
    BY <2>2, LineReadRight
  <2>4. text' \in Seq(Line)
    BY <2>1, <2>2
  <2> QED  BY <2>1, <2>3, <2>4 DEF TextInv
<1>4. CASE EndOfText
  <2>1. pc' # "reading" /\ text' = << >>
    BY <1>4 DEF EndOfText
  <2> QED  BY <2>1 DEF TextInv
<1>5. ASSUME NEW l \in Line, Define(l) PROVE TextInv'
  BY <1>5 DEF Define, TextInv
<1>6. CASE Apply
  <2>1. pc = "applying" /\ text' = text
    BY <1>6 DEF Apply, Applying, session, ApplyImport, ApplyDefaults, ApplyPrefix,
                ApplyDimension, ApplyDerived, ApplyAlias, ApplyUnit, ApplyGroup, ApplySystem,
                ApplyContext, LoadDone
  <2>2. pc' \in {"applying", "idle", "crashed"}
    <3>1. Applied \/ Abandon \/ Crash \/ pc' = "idle" \/ pc' = pc
      BY <1>6 DEF Apply, Applied, ApplyImport, ApplyDefaults, ApplyPrefix, AddDimension,
                ApplyDimension, ApplyDerived, ApplyAlias, ApplyUnit, ApplyGroup, ApplySystem,
                ApplyContext, LoadDone
    <3> QED  BY <2>1, <3>1 DEF Applied, Abandon, Crash
  <2> QED  BY <2>1, <2>2 DEF TextInv
<1>7. CASE Asking
  <2>1. pc = "idle" /\ pc' \in {"crashed", pc} /\ text' = text
    BY <1>7, AskingLooks DEF Call, Looked
  <2> QED  BY <2>1 DEF TextInv
<1>8. ASSUME NEW ns \in Inclusion, NewGroup(Head(ns)) PROVE TextInv'
  BY <1>8 DEF NewGroup, Call, TextInv
<1>9. ASSUME NEW g \in DOMAIN groups, NEW n \in Stray, AddUnits(g, n) PROVE TextInv'
  BY <1>9 DEF AddUnits, Call, TextInv
<1>10. ASSUME NEW g \in DOMAIN groups, NEW ns \in Inclusion, AddGroups(g, ns) PROVE TextInv'
  BY <1>10 DEF AddGroups, Call, TextInv
<1> QED  BY <1>1, <1>2, <1>3, <1>4, <1>5, <1>6, <1>7, <1>8, <1>9, <1>10 DEF Next, Loading, Grouping

\* Reading right is what the end of the text can be judged by.
LEMMA TextInvSuffices == TextInv => ParsedAsSections
<1> SUFFICES ASSUME TextInv, pc = "reading"
             PROVE  LET p == Flush(parsed)
                    IN  /\ p.refused <=> ~Sensible(text)
                        /\ ~p.refused => p.out = Meant(text)
  BY DEF ParsedAsSections
<1>1. PICK t, p : t = text /\ p = parsed
  OBVIOUS
<1>2. t \in Seq(Line) /\ ReadRight(t, p)
  BY <1>1 DEF TextInv
<1>3. CASE p.refused
  <2>1. p.refused = TRUE /\ ~Sensible(t)
    BY <1>2, <1>3 DEF ReadRight
  <2>2. Flush(p) = p
    BY <1>3 DEF Flush
  <2> QED  BY <1>1, <2>1, <2>2
<1>4. CASE ~p.refused
  <2>1. /\ Flush(p).refused <=> ~Sensible(t)
        /\ ~Flush(p).refused => Flush(p) = Told(Meant(t))
    BY <1>2, <1>4, FlushDecides
  <2>2. ~Flush(p).refused => Flush(p).out = Meant(t)
    BY <2>1 DEF Told
  <2> QED  BY <1>1, <2>1, <2>2
<1> QED  BY <1>3, <1>4

\* Whatever the lines of a text are and however many, the block machine, which looks at
\* one line at a time, makes of the text what its sections say, and refuses those texts
\* in which a line stands where it may not.
THEOREM TextsReadAsSections == Spec => []ParsedAsSections
<1>1. Init => TextInv
  BY TextInvInit
<1>2. TextInv /\ [Next]_vars => TextInv'
  BY TextInvNext
<1>3. TextInv => ParsedAsSections
  BY TextInvSuffices
<1> QED  BY <1>1, <1>2, <1>3, PTL DEF Spec

-----------------------------------------------------------------------------
(* The walk along groups *)

\* What the groups of a registry are: finitely many, by their names, with root.
GroupsOK(gs) ==
  /\ Root \in DOMAIN gs /\ IsFiniteSet(DOMAIN gs) /\ DOMAIN gs \subseteq STRING
  /\ \A g \in DOMAIN gs : DOMAIN gs[g] = {"members", "using"} /\ gs[g].using \in Seq(STRING)

Uses(gs, g) == ToSet(gs[g].using) \cap DOMAIN gs

\* A walk, what it does next, and the walk as a function.
GroupWalks(gs) == [seen : SUBSET DOMAIN gs, todo : Seq(STRING)]
Turn(gs, f, w) ==
  IF w.todo = << >> THEN w.seen
  ELSE IF Head(w.todo) \in w.seen \/ Head(w.todo) \notin DOMAIN gs
  THEN f[[seen |-> w.seen, todo |-> Tail(w.todo)]]
  ELSE f[[seen |-> w.seen \cup {Head(w.todo)},
          todo |-> gs[Head(w.todo)].using \o Tail(w.todo)]]
IsVisit(gs, f) == f = [w \in GroupWalks(gs) |-> Turn(gs, f, w)]
Visit(gs) == CHOOSE f : IsVisit(gs, f)

\* Where a walk ends: in the least set that has what it has seen and where it has to go,
\* and that nothing leads out of but from groups it has seen.
Leads(gs, w, S) ==
  /\ w.seen \subseteq S /\ ToSet(w.todo) \cap DOMAIN gs \subseteq S
  /\ \A g \in S \ w.seen : Uses(gs, g) \subseteq S
Least(gs, w) == {h \in DOMAIN gs : \A S \in SUBSET DOMAIN gs : Leads(gs, w, S) => h \in S}

\* The first of a sequence and the others.
LEMMA FirstAndRest ==
  ASSUME NEW T, NEW t \in Seq(T), t # << >>
  PROVE  /\ Head(t) \in T /\ Tail(t) \in Seq(T) /\ Len(t) = Len(Tail(t)) + 1
         /\ ToSet(t) = {Head(t)} \cup ToSet(Tail(t))
<1>1. /\ Len(t) \in Nat /\ Len(t) # 0 /\ DOMAIN t = 1..Len(t) /\ Head(t) = t[1]
      /\ Tail(t) \in Seq(T) /\ Len(Tail(t)) = Len(t) - 1
      /\ DOMAIN Tail(t) = 1..(Len(t) - 1)
      /\ \A i \in 1..(Len(t) - 1) : Tail(t)[i] = t[i + 1]
  OBVIOUS
<1>2. ASSUME NEW i \in DOMAIN t PROVE t[i] \in {Head(t)} \cup ToSet(Tail(t))
  <2>1. CASE i = 1
    BY <1>1, <2>1
  <2>2. CASE i # 1
    <3>1. i - 1 \in 1..(Len(t) - 1) /\ (i - 1) + 1 = i
      BY <1>1, <2>2
    <3>2. Tail(t)[i - 1] = t[i]
      BY <1>1, <3>1
    <3> QED  BY <1>1, <3>1, <3>2 DEF ToSet
  <2> QED  BY <2>1, <2>2
<1>3. ASSUME NEW i \in DOMAIN Tail(t) PROVE Tail(t)[i] \in ToSet(t)
  <2>1. i + 1 \in 1..Len(t) /\ Tail(t)[i] = t[i + 1]
    BY <1>1
  <2> QED  BY <1>1, <2>1 DEF ToSet
<1>4. Head(t) \in ToSet(t) /\ Head(t) \in T
  <2>1. 1 \in 1..Len(t)
    BY <1>1
  <2> QED  BY <1>1, <2>1 DEF ToSet
<1>5. ToSet(t) \subseteq {Head(t)} \cup ToSet(Tail(t))
  BY <1>2 DEF ToSet
<1>6. ToSet(Tail(t)) \subseteq ToSet(t)
  BY <1>3 DEF ToSet
<1> QED  BY <1>1, <1>4, <1>5, <1>6

\* The elements of two sequences are those of the one and of the other.
LEMMA Joined ==
  ASSUME NEW T, NEW s \in Seq(T), NEW t \in Seq(T)
  PROVE  s \o t \in Seq(T) /\ ToSet(s \o t) = ToSet(s) \cup ToSet(t)
<1>1. /\ Len(s) \in Nat /\ Len(t) \in Nat /\ DOMAIN s = 1..Len(s) /\ DOMAIN t = 1..Len(t)
      /\ s \o t \in Seq(T) /\ DOMAIN (s \o t) = 1..(Len(s) + Len(t))
      /\ \A i \in 1..(Len(s) + Len(t)) :
           (s \o t)[i] = IF i <= Len(s) THEN s[i] ELSE t[i - Len(s)]
  OBVIOUS
<1>2. ASSUME NEW i \in DOMAIN (s \o t) PROVE (s \o t)[i] \in ToSet(s) \cup ToSet(t)
  <2>1. CASE i <= Len(s)
    BY <1>1, <2>1 DEF ToSet
  <2>2. CASE ~(i <= Len(s))
    <3>1. i - Len(s) \in 1..Len(t)
      BY <1>1, <2>2
    <3> QED  BY <1>1, <2>2, <3>1 DEF ToSet
  <2> QED  BY <2>1, <2>2
<1>3. ASSUME NEW i \in DOMAIN s PROVE s[i] \in ToSet(s \o t)
  <2>1. i \in 1..(Len(s) + Len(t)) /\ i <= Len(s)
    BY <1>1
  <2>2. (s \o t)[i] = s[i]
    BY <1>1, <2>1
  <2> QED  BY <1>1, <2>1, <2>2 DEF ToSet
<1>4. ASSUME NEW i \in DOMAIN t PROVE t[i] \in ToSet(s \o t)
  <2>1. Len(s) + i \in 1..(Len(s) + Len(t)) /\ ~(Len(s) + i <= Len(s)) /\ (Len(s) + i) - Len(s) = i
    BY <1>1
  <2>2. (s \o t)[Len(s) + i] = t[i]
    BY <1>1, <2>1
  <2> QED  BY <1>1, <2>1, <2>2 DEF ToSet
<1>5. ToSet(s \o t) \subseteq ToSet(s) \cup ToSet(t)
  BY <1>2 DEF ToSet
<1>6. ToSet(s) \subseteq ToSet(s \o t) /\ ToSet(t) \subseteq ToSet(s \o t)
  BY <1>3, <1>4 DEF ToSet
<1> QED  BY <1>1, <1>5, <1>6

\* Each turn of a walk leads where the walk leads.
LEMMA LeastTurns ==
  ASSUME NEW gs, GroupsOK(gs), NEW w \in GroupWalks(gs), NEW f, \A v \in GroupWalks(gs) : f[v] = Least(gs, v)
  PROVE  Least(gs, w) = Turn(gs, f, w)
<1>1. w.seen \in SUBSET DOMAIN gs /\ w.todo \in Seq(STRING)
  BY DEF GroupWalks
<1>2. CASE w.todo = << >>
  <2>1. ToSet(w.todo) = {}
    BY <1>2 DEF ToSet
  <2>2. Leads(gs, w, w.seen)
    BY <2>1 DEF Leads
  <2>3. Least(gs, w) = w.seen
    BY <1>1, <2>2 DEF Least, Leads
  <2> QED  BY <1>2, <2>3 DEF Turn
<1>3. CASE w.todo # << >> /\ (Head(w.todo) \in w.seen \/ Head(w.todo) \notin DOMAIN gs)
  <2>1. PICK v : v = [seen |-> w.seen, todo |-> Tail(w.todo)]
    OBVIOUS
  <2>2. Tail(w.todo) \in Seq(STRING) /\ ToSet(w.todo) = {Head(w.todo)} \cup ToSet(Tail(w.todo))
    BY <1>1, <1>3, FirstAndRest
  <2>3. v \in GroupWalks(gs) /\ v.seen = w.seen /\ v.todo = Tail(w.todo)
    BY <1>1, <2>1, <2>2 DEF GroupWalks
  <2>4. \A S \in SUBSET DOMAIN gs : Leads(gs, v, S) <=> Leads(gs, w, S)
    BY <1>3, <2>2, <2>3 DEF Leads
  <2>5. Least(gs, w) = Least(gs, v)
    BY <2>4 DEF Least
  <2> QED  BY <1>3, <2>1, <2>3, <2>5 DEF Turn
<1>4. CASE w.todo # << >> /\ Head(w.todo) \notin w.seen /\ Head(w.todo) \in DOMAIN gs
  <2>1. PICK g : g = Head(w.todo)
    OBVIOUS
  <2>2. PICK v : v = [seen |-> w.seen \cup {g}, todo |-> gs[g].using \o Tail(w.todo)]
    OBVIOUS
  <2>3. Tail(w.todo) \in Seq(STRING) /\ ToSet(w.todo) = {g} \cup ToSet(Tail(w.todo))
    BY <1>1, <1>4, <2>1, FirstAndRest
  <2>4. gs[g].using \in Seq(STRING)
    BY <1>4, <2>1 DEF GroupsOK
  <2>5. /\ gs[g].using \o Tail(w.todo) \in Seq(STRING)
        /\ ToSet(gs[g].using \o Tail(w.todo)) = ToSet(gs[g].using) \cup ToSet(Tail(w.todo))
    BY <2>3, <2>4, Joined
  <2>6. /\ v \in GroupWalks(gs) /\ v.seen = w.seen \cup {g}
        /\ ToSet(v.todo) = ToSet(gs[g].using) \cup ToSet(Tail(w.todo))
    BY <1>1, <1>4, <2>1, <2>2, <2>5 DEF GroupWalks
  <2>7. ASSUME NEW S \in SUBSET DOMAIN gs PROVE Leads(gs, v, S) <=> Leads(gs, w, S)
    <3>1. CASE g \notin S
      <4>1. ~Leads(gs, v, S)
        BY <2>6, <3>1 DEF Leads
      <4>2. ~Leads(gs, w, S)
        BY <1>4, <2>1, <2>3, <3>1 DEF Leads
      <4> QED  BY <4>1, <4>2
    <3>2. CASE g \in S
      <4>1. S \ w.seen = {g} \cup (S \ v.seen) /\ (v.seen \subseteq S <=> w.seen \subseteq S)
        BY <1>4, <2>1, <2>6, <3>2
      <4>2. (\A h \in S \ w.seen : Uses(gs, h) \subseteq S) <=>
              Uses(gs, g) \subseteq S /\ \A h \in S \ v.seen : Uses(gs, h) \subseteq S
        BY <4>1
      <4>3. ToSet(v.todo) \cap DOMAIN gs \subseteq S <=>
              Uses(gs, g) \subseteq S /\ ToSet(w.todo) \cap DOMAIN gs \subseteq S
        BY <2>3, <2>6, <3>2 DEF Uses
      <4> QED  BY <4>1, <4>2, <4>3 DEF Leads
    <3> QED  BY <3>1, <3>2
  <2>8. Least(gs, w) = Least(gs, v)
    BY <2>7 DEF Least
  <2> QED  BY <1>4, <2>1, <2>2, <2>6, <2>8 DEF Turn
<1> QED  BY <1>2, <1>3, <1>4

\* A walk ends where it leads: with every turn there is less to see, or less to do.
LEMMA VisitEnds ==
  ASSUME NEW gs, GroupsOK(gs)
  PROVE  \A w \in GroupWalks(gs) : Visit(gs)[w] = Least(gs, w)
<1>1. PICK e : e = [w \in GroupWalks(gs) |-> Least(gs, w)]
  OBVIOUS
<1>2. \A w \in GroupWalks(gs) : e[w] = Least(gs, w)
  BY <1>1
<1>3. \A w \in GroupWalks(gs) : Least(gs, w) = Turn(gs, e, w)
  BY <1>2, LeastTurns
<1>4. IsVisit(gs, e)
  BY <1>1, <1>3 DEF IsVisit
<1>5. PICK f : f = Visit(gs)
  OBVIOUS
<1>6. IsVisit(gs, f)
  BY <1>4, <1>5 DEF Visit
<1>7. \A w \in GroupWalks(gs) : f[w] = Turn(gs, f, w)
  BY <1>6 DEF IsVisit
<1> DEFINE D == DOMAIN gs
           Good == {k \in Nat : \A w \in GroupWalks(gs) :
                                  Cardinality(D \ w.seen) < k => f[w] = Least(gs, w)}
<1>8. IsFiniteSet(D) /\ \A g \in D : gs[g].using \in Seq(STRING)
  BY DEF GroupsOK
<1>9. \A s \in SUBSET D : Cardinality(D \ s) \in Nat
  BY <1>8, FS_Difference, FS_CardinalityType
<1>10. 0 \in Good
  <2> SUFFICES ASSUME NEW w \in GroupWalks(gs), Cardinality(D \ w.seen) < 0 PROVE FALSE
    OBVIOUS
  <2>1. w.seen \in SUBSET D
    BY DEF GroupWalks
  <2> HIDE DEF D
  <2> QED  BY <1>9, <2>1
<1>11. ASSUME NEW k \in Nat, k \in Good PROVE k + 1 \in Good
  <2> SUFFICES ASSUME NEW x \in GroupWalks(gs), Cardinality(D \ x.seen) < k + 1
               PROVE  f[x] = Least(gs, x)
    OBVIOUS
  <2>1. PICK s : s = x.seen
    OBVIOUS
  <2>2. s \in SUBSET D /\ x.todo \in Seq(STRING)
    BY <2>1 DEF GroupWalks
  <2> DEFINE At(t) == [seen |-> s, todo |-> t]
             Done == {m \in Nat : \A t \in Seq(STRING) : Len(t) = m => f[At(t)] = Least(gs, At(t))}
  <2>3. \A t \in Seq(STRING) : At(t) \in GroupWalks(gs) /\ At(t).seen = s /\ At(t).todo = t
    BY <2>2 DEF GroupWalks
  <2> HIDE DEF At
  <2>4. 0 \in Done
    <3> SUFFICES ASSUME NEW t \in Seq(STRING), Len(t) = 0 PROVE f[At(t)] = Least(gs, At(t))
      OBVIOUS
    <3>1. t = << >>
      OBVIOUS
    <3>2. Turn(gs, f, At(t)) = s /\ Turn(gs, e, At(t)) = s
      BY <2>3, <3>1 DEF Turn
    <3> QED  BY <1>3, <1>7, <2>3, <3>2
  <2>5. ASSUME NEW m \in Nat, m \in Done PROVE m + 1 \in Done
    <3> SUFFICES ASSUME NEW t \in Seq(STRING), Len(t) = m + 1 PROVE f[At(t)] = Least(gs, At(t))
      OBVIOUS
    <3>1. t # << >>
      OBVIOUS
    <3>2. Tail(t) \in Seq(STRING) /\ Len(Tail(t)) = m
      BY <3>1, FirstAndRest
    <3>3. CASE Head(t) \in s \/ Head(t) \notin D
      <4>1. f[At(Tail(t))] = Least(gs, At(Tail(t)))
        BY <2>5, <3>2
      <4>2. Turn(gs, f, At(t)) = f[At(Tail(t))] /\ Turn(gs, e, At(t)) = e[At(Tail(t))]
        BY <2>3, <3>1, <3>3 DEF Turn, At
      <4>3. e[At(Tail(t))] = Least(gs, At(Tail(t)))
        BY <1>2, <2>3, <3>2
      <4> QED  BY <1>3, <1>7, <2>3, <4>1, <4>2, <4>3
    <3>4. CASE Head(t) \notin s /\ Head(t) \in D
      <4> DEFINE g == Head(t)
                 v == [seen |-> s \cup {g}, todo |-> gs[g].using \o Tail(t)]
      <4>1. g = Head(t) /\ v = [seen |-> s \cup {g}, todo |-> gs[g].using \o Tail(t)]
        OBVIOUS
      <4> HIDE DEF g, v
      <4>2. gs[g].using \o Tail(t) \in Seq(STRING)
        BY <1>8, <3>2, <3>4, <4>1
      <4>3. v \in GroupWalks(gs) /\ v.seen = s \cup {g}
        BY <2>2, <3>4, <4>1, <4>2 DEF GroupWalks
      <4>4. Cardinality(D \ v.seen) < k
        <5>1. D \ v.seen = (D \ s) \ {g} /\ g \in D \ s
          BY <3>4, <4>1, <4>3
        <5>2. IsFiniteSet(D \ s) /\ Cardinality(D \ s) \in Nat
          BY <1>8, <1>9, <2>2, FS_Difference
        <5>3. Cardinality((D \ s) \ {g}) = Cardinality(D \ s) - 1
          BY <5>1, <5>2, FS_RemoveElement
        <5>4. Cardinality(D \ s) < k + 1
          BY <2>1
        <5> HIDE DEF D, Good, Done
        <5>5. Cardinality(D \ v.seen) = Cardinality(D \ s) - 1
          BY <5>1, <5>3
        <5> QED  BY <5>2, <5>4, <5>5
      <4>5. f[v] = Least(gs, v)
        BY <1>11, <4>3, <4>4
      <4>6. Turn(gs, f, At(t)) = f[v] /\ Turn(gs, e, At(t)) = e[v]
        <5>1. PICK w : w = At(t)
          OBVIOUS
        <5>2. w.seen = s /\ w.todo = t
          BY <2>3, <5>1
        <5>3. v = [seen |-> w.seen \cup {Head(w.todo)}, todo |-> gs[Head(w.todo)].using \o Tail(w.todo)]
          BY <4>1, <5>2
        <5>4. w.todo # << >> /\ ~(Head(w.todo) \in w.seen \/ Head(w.todo) \notin DOMAIN gs)
          BY <3>1, <3>4, <5>2
        <5>5. \A h : Turn(gs, h, w) = h[v]
          BY <5>3, <5>4 DEF Turn
        <5> QED  BY <5>1, <5>5
      <4> QED  BY <1>2, <1>3, <1>7, <2>3, <4>3, <4>5, <4>6
    <3> QED  BY <3>3, <3>4
  <2>6. \A m \in Nat : m \in Done
    <3> HIDE DEF Done
    <3> QED  BY <2>4, <2>5, NumberInduction
  <2>7. f[At(x.todo)] = Least(gs, At(x.todo))
    BY <2>2, <2>6
  <2>8. At(x.todo) = x
    BY <2>1 DEF At, GroupWalks
  <2> QED  BY <2>7, <2>8
<1>12. \A k \in Nat : k \in Good
  <2> HIDE DEF Good
  <2> QED  BY <1>10, <1>11, NumberInduction
<1> QED
  <2> SUFFICES ASSUME NEW w \in GroupWalks(gs) PROVE f[w] = Least(gs, w)
    BY <1>5
  <2>1. w.seen \in SUBSET D
    BY DEF GroupWalks
  <2>2. PICK c : c = Cardinality(D \ w.seen)
    OBVIOUS
  <2>3. c \in Nat /\ c + 1 \in Nat /\ c < c + 1
    BY <1>9, <2>1, <2>2
  <2>4. c + 1 \in Good
    BY <1>12, <2>3
  <2> QED  BY <2>2, <2>3, <2>4

\* A sequence of one.
LEMMA Single == ASSUME NEW T, NEW e \in T PROVE <<e>> \in Seq(T)
OBVIOUS

\* The groups that a walk comes by are the ones that are included.
LEMMA ReachedIncluded ==
  ASSUME NEW gs, GroupsOK(gs), NEW start \in STRING
  PROVE  \A h : h \in Reached(gs, start) <=>
                  start \in DOMAIN gs /\ h \in DOMAIN gs /\ Includes(gs, start, h)
<1>1. PICK w : w = [seen |-> {}, todo |-> <<start>>]
  OBVIOUS
<1>2. Reached(gs, start) = Visit(gs)[w]
  BY <1>1 DEF Reached, IsVisit, Turn, Visit, GroupWalks
<1>3. <<start>> \in Seq(STRING) /\ ToSet(<<start>>) = {start}
  <2>1. PICK t : t = <<start>>
    OBVIOUS
  <2>2. Len(t) = 1 /\ t[1] = start
    BY <2>1
  <2>3. t \in Seq(STRING)
    BY <2>1, Single
  <2>4. DOMAIN t = {1}
    BY <2>2, <2>3
  <2> QED  BY <2>1, <2>2, <2>3, <2>4 DEF ToSet
<1>4. w \in GroupWalks(gs) /\ w.seen = {} /\ w.todo = <<start>>
  BY <1>1, <1>3 DEF GroupWalks
<1>5. Reached(gs, start) = Least(gs, w)
  BY <1>2, <1>4, VisitEnds
<1>6. \A S \in SUBSET DOMAIN gs :
        Leads(gs, w, S) <=> (start \in DOMAIN gs => start \in S) /\ Closed(gs, S)
  BY <1>3, <1>4 DEF Leads, Closed, Uses
<1>7. CASE start \in DOMAIN gs
  BY <1>5, <1>6, <1>7 DEF Least, Includes
<1>8. CASE start \notin DOMAIN gs
  <2>1. Leads(gs, w, {})
    BY <1>6, <1>8 DEF Closed
  <2> QED  BY <1>5, <1>8, <2>1 DEF Least
<1> QED  BY <1>7, <1>8

-----------------------------------------------------------------------------
(* Circles of groups *)

\* What a group includes is closed, and has the group.
LEMMA IncludedClosed ==
  ASSUME NEW gs, NEW a \in DOMAIN gs
  PROVE  \E S \in SUBSET DOMAIN gs :
           /\ a \in S /\ Closed(gs, S)
           /\ \A h \in DOMAIN gs : h \in S <=> Includes(gs, a, h)
<1>1. PICK S : S = {h \in DOMAIN gs : Includes(gs, a, h)}
  OBVIOUS
<1>2. a \in S
  BY <1>1 DEF Includes
<1>3. \A h \in S : ToSet(gs[h].using) \cap DOMAIN gs \subseteq S
  BY <1>1 DEF Includes, Closed
<1> QED  BY <1>1, <1>2, <1>3 DEF Closed

\* What includes nothing itself closes no circle.
LEMMA OutsideNotIncluded ==
  ASSUME NEW gs, NEW a, NEW h, NEW S \in SUBSET DOMAIN gs, a \in S, Closed(gs, S), h \notin S
  PROVE  ~Includes(gs, a, h)
BY DEF Includes

\* Groups that use what they used, and g may use n as well.
MayUse(gs, new, g, n) ==
  \A h \in DOMAIN gs : Uses(new, h) \subseteq Uses(gs, h) \cup (IF h = g THEN {n} ELSE {})

\* A group that is used from g as well, and from which g cannot be reached, closes no
\* circle, neither with g nor through g.
LEMMA UseClosesNothing ==
  ASSUME NEW gs, NEW new, NEW g \in DOMAIN gs, NEW n \in DOMAIN gs, DOMAIN new = DOMAIN gs,
         MayUse(gs, new, g, n), ~Includes(gs, n, g)
  PROVE  /\ ~Includes(new, n, g)
         /\ \A x \in DOMAIN gs : \A y \in Uses(gs, x) :
              ~Includes(gs, y, x) => ~Includes(new, y, x)
<1>1. PICK N \in SUBSET DOMAIN gs :
        n \in N /\ Closed(gs, N) /\ \A h \in DOMAIN gs : h \in N <=> Includes(gs, n, h)
  BY IncludedClosed
<1>2. g \notin N
  BY <1>1
<1>3. Closed(new, N)
  BY <1>1, <1>2 DEF Closed, Uses, MayUse
<1>4. ~Includes(new, n, g)
  BY <1>1, <1>2, <1>3, OutsideNotIncluded
<1>5. ASSUME NEW x \in DOMAIN gs, NEW y \in Uses(gs, x), ~Includes(gs, y, x)
      PROVE  ~Includes(new, y, x)
  <2>1. y \in DOMAIN gs
    BY DEF Uses
  <2>2. PICK Y \in SUBSET DOMAIN gs :
          y \in Y /\ Closed(gs, Y) /\ \A h \in DOMAIN gs : h \in Y <=> Includes(gs, y, h)
    BY <2>1, IncludedClosed
  <2>3. x \notin Y
    BY <1>5, <2>2
  <2>4. CASE g \notin Y
    <3>1. Closed(new, Y)
      BY <2>2, <2>4 DEF Closed, Uses, MayUse
    <3> QED  BY <2>2, <2>3, <3>1, OutsideNotIncluded
  <2>5. CASE g \in Y
    <3>1. x \notin N
      <4> SUFFICES ASSUME x \in N PROVE FALSE
        OBVIOUS
      <4>1. y \in N
        BY <1>1 DEF Closed, Uses
      <4>2. Includes(gs, y, g)
        BY <2>2, <2>5
      <4>3. g \in N
        BY <1>1, <4>1, <4>2 DEF Includes
      <4> QED  BY <1>2, <4>3
    <3>2. \A h \in Y \cup N : Uses(new, h) \subseteq Y \cup N
      <4>1. \A h \in Y : Uses(gs, h) \subseteq Y
        BY <2>2 DEF Closed, Uses
      <4>2. \A h \in N : Uses(gs, h) \subseteq N
        BY <1>1 DEF Closed, Uses
      <4> QED  BY <1>1, <4>1, <4>2 DEF MayUse
    <3>3. Closed(new, Y \cup N)
      BY <3>2 DEF Closed, Uses
    <3>4. Y \cup N \in SUBSET DOMAIN new /\ y \in Y \cup N /\ x \notin Y \cup N
      BY <2>2, <2>3, <3>1
    <3> QED  BY <3>3, <3>4, OutsideNotIncluded
  <2> QED  BY <2>4, <2>5
<1> QED  BY <1>4, <1>5

\* A group that is new and uses nothing closes no circle, whoever uses it.
LEMMA NewClosesNothing ==
  ASSUME NEW gs, NEW new, NEW n, n \notin DOMAIN gs, DOMAIN new = DOMAIN gs \cup {n},
         Uses(new, n) = {}, \A h \in DOMAIN gs : Uses(new, h) \subseteq Uses(gs, h) \cup {n}
  PROVE  /\ \A h \in DOMAIN gs : ~Includes(new, n, h)
         /\ \A x \in DOMAIN gs : \A y \in Uses(gs, x) :
              ~Includes(gs, y, x) => ~Includes(new, y, x)
<1>1. {n} \in SUBSET DOMAIN new /\ Closed(new, {n})
  BY DEF Closed, Uses
<1>2. \A h \in DOMAIN gs : ~Includes(new, n, h)
  BY <1>1, OutsideNotIncluded
<1>3. ASSUME NEW x \in DOMAIN gs, NEW y \in Uses(gs, x), ~Includes(gs, y, x)
      PROVE  ~Includes(new, y, x)
  <2>1. y \in DOMAIN gs
    BY DEF Uses
  <2>2. PICK Y \in SUBSET DOMAIN gs :
          y \in Y /\ Closed(gs, Y) /\ \A h \in DOMAIN gs : h \in Y <=> Includes(gs, y, h)
    BY <2>1, IncludedClosed
  <2>3. \A h \in Y \cup {n} : Uses(new, h) \subseteq Y \cup {n}
    <3>1. \A h \in Y : Uses(gs, h) \subseteq Y
      BY <2>2 DEF Closed, Uses
    <3> QED  BY <3>1
  <2>4. Closed(new, Y \cup {n})
    BY <2>3 DEF Closed, Uses
  <2>5. Y \cup {n} \in SUBSET DOMAIN new /\ y \in Y \cup {n} /\ x \notin Y \cup {n}
    BY <1>3, <2>2
  <2> QED  BY <2>4, <2>5, OutsideNotIncluded
<1> QED  BY <1>2, <1>3

\* Every group but root is used by root.
UsedByRoot(gs) == \A g \in DOMAIN gs : g = Root \/ g \in Uses(gs, Root)

Added(old, new, h) == {new[h].using[i] : i \in Len(old[h].using) + 1 .. Len(new[h].using)}

\* What groups may become: more groups, each with more that it uses.
GrownAt(old, new, h) ==
  /\ Len(old[h].using) <= Len(new[h].using)
  /\ \A i \in 1..Len(old[h].using) : new[h].using[i] = old[h].using[i]
Grown(old, new) ==
  /\ GroupsOK(new) /\ DOMAIN old \subseteq DOMAIN new
  /\ \A h \in DOMAIN old : GrownAt(old, new, h)

\* What was added closes no circle.
Acyclic(old, new) ==
  \A h \in DOMAIN old : \A a \in Added(old, new, h) : a \in DOMAIN new /\ ~Includes(new, a, h)

\* What was added is used.
LEMMA AddedIsUsed ==
  ASSUME NEW old, NEW new, GroupsOK(old), Grown(old, new), NEW h \in DOMAIN old
  PROVE  /\ h \in DOMAIN new /\ Len(old[h].using) \in Nat /\ Len(new[h].using) \in Nat
         /\ DOMAIN new[h].using = 1..Len(new[h].using)
         /\ Added(old, new, h) \subseteq ToSet(new[h].using) /\ Uses(old, h) \subseteq Uses(new, h)
<1>1. h \in DOMAIN new /\ DOMAIN old \subseteq DOMAIN new
  BY DEF Grown, GrownAt
<1>2. old[h].using \in Seq(STRING) /\ new[h].using \in Seq(STRING)
  BY <1>1 DEF GroupsOK, Grown
<1>3. /\ Len(old[h].using) \in Nat /\ Len(new[h].using) \in Nat
      /\ DOMAIN old[h].using = 1..Len(old[h].using)
      /\ DOMAIN new[h].using = 1..Len(new[h].using)
  BY <1>2
<1>4. \A i \in Len(old[h].using) + 1 .. Len(new[h].using) : i \in 1..Len(new[h].using)
  BY <1>3
<1>5. Added(old, new, h) \subseteq ToSet(new[h].using)
  BY <1>3, <1>4 DEF Added, ToSet
<1>6. \A i \in DOMAIN old[h].using :
        i \in DOMAIN new[h].using /\ new[h].using[i] = old[h].using[i]
  BY <1>3 DEF Grown, GrownAt
<1>7. Uses(old, h) \subseteq Uses(new, h)
  BY <1>1, <1>6 DEF Uses, ToSet
<1> QED  BY <1>1, <1>3, <1>5, <1>7

\* What two steps add is what the one adds and the other.
LEMMA GrownTwice ==
  ASSUME NEW gs, NEW cur, NEW new, GroupsOK(gs), GroupsOK(cur), Grown(gs, cur), Grown(cur, new)
  PROVE  /\ Grown(gs, new)
         /\ \A h \in DOMAIN gs : Added(gs, new, h) \subseteq Added(gs, cur, h) \cup Added(cur, new, h)
<1>1. \A h \in DOMAIN gs : /\ h \in DOMAIN cur /\ Len(gs[h].using) \in Nat
                           /\ Len(cur[h].using) \in Nat /\ Len(new[h].using) \in Nat
  <2> SUFFICES ASSUME NEW h \in DOMAIN gs
               PROVE  /\ h \in DOMAIN cur /\ Len(gs[h].using) \in Nat
                      /\ Len(cur[h].using) \in Nat /\ Len(new[h].using) \in Nat
    OBVIOUS
  <2>1. h \in DOMAIN cur
    BY DEF Grown, GrownAt
  <2> QED  BY <2>1, AddedIsUsed
<1>2. Grown(gs, new)
  <2>1. GroupsOK(new) /\ DOMAIN gs \subseteq DOMAIN new
    BY DEF Grown, GrownAt
  <2>2. ASSUME NEW h \in DOMAIN gs
        PROVE  /\ Len(gs[h].using) <= Len(new[h].using)
               /\ \A i \in 1..Len(gs[h].using) : new[h].using[i] = gs[h].using[i]
    <3>1. /\ Len(gs[h].using) <= Len(cur[h].using) /\ Len(cur[h].using) <= Len(new[h].using)
          /\ \A i \in 1..Len(gs[h].using) : cur[h].using[i] = gs[h].using[i]
          /\ \A i \in 1..Len(cur[h].using) : new[h].using[i] = cur[h].using[i]
      BY <1>1 DEF Grown, GrownAt
    <3>2. \A i \in 1..Len(gs[h].using) : i \in 1..Len(cur[h].using)
      BY <1>1, <3>1
    <3> QED  BY <1>1, <3>1, <3>2
  <2> QED  BY <2>1, <2>2 DEF Grown, GrownAt
<1>3. ASSUME NEW h \in DOMAIN gs, NEW a \in Added(gs, new, h), a \notin Added(cur, new, h)
      PROVE  a \in Added(gs, cur, h)
  <2>1. PICK i \in Len(gs[h].using) + 1 .. Len(new[h].using) : a = new[h].using[i]
    BY DEF Added
  <2>2. i <= Len(cur[h].using)
    <3> SUFFICES ASSUME ~(i <= Len(cur[h].using)) PROVE FALSE
      OBVIOUS
    <3>1. i \in Len(cur[h].using) + 1 .. Len(new[h].using)
      BY <1>1, <2>1
    <3> QED  BY <1>3, <2>1, <3>1 DEF Added
  <2>3. i \in 1..Len(cur[h].using) /\ i \in Len(gs[h].using) + 1 .. Len(cur[h].using)
    BY <1>1, <2>1, <2>2
  <2>4. a = cur[h].using[i]
    BY <1>1, <2>1, <2>3 DEF Grown, GrownAt
  <2> QED  BY <2>3, <2>4 DEF Added
<1> QED  BY <1>2, <1>3

\* One step more adds n to what some groups use.
LEMMA AcyclicGrows ==
  ASSUME NEW gs, NEW cur, NEW new, NEW n,
         GroupsOK(gs), GroupsOK(cur), Grown(gs, cur), Acyclic(gs, cur), Grown(cur, new),
         \A h \in DOMAIN cur : \A a \in Added(cur, new, h) : a = n /\ ~Includes(new, n, h),
         n \in DOMAIN new,
         \A x \in DOMAIN cur : \A y \in Uses(cur, x) : ~Includes(cur, y, x) => ~Includes(new, y, x)
  PROVE  Grown(gs, new) /\ Acyclic(gs, new)
<1>1. /\ Grown(gs, new)
      /\ \A h \in DOMAIN gs : Added(gs, new, h) \subseteq Added(gs, cur, h) \cup Added(cur, new, h)
  BY GrownTwice
<1>2. ASSUME NEW h \in DOMAIN gs, NEW a \in Added(gs, new, h)
      PROVE  a \in DOMAIN new /\ ~Includes(new, a, h)
  <2>1. h \in DOMAIN cur
    BY DEF Grown, GrownAt
  <2>2. CASE a \in Added(gs, cur, h)
    <3>1. a \in DOMAIN cur /\ ~Includes(cur, a, h)
      BY <2>2 DEF Acyclic
    <3>2. a \in ToSet(cur[h].using)
      BY <2>2, AddedIsUsed
    <3>3. a \in Uses(cur, h)
      BY <3>1, <3>2 DEF Uses
    <3>4. a \in DOMAIN new
      BY <3>1 DEF Grown, GrownAt
    <3> QED  BY <2>1, <3>1, <3>3, <3>4
  <2>3. CASE a \in Added(cur, new, h)
    BY <2>1, <2>3
  <2> QED  BY <1>1, <2>2, <2>3
<1> QED  BY <1>1, <1>2 DEF Acyclic

\* Nothing added closes no circle.
LEMMA NothingAdded ==
  ASSUME NEW gs, GroupsOK(gs)
  PROVE  Grown(gs, gs) /\ Acyclic(gs, gs)
<1>1. \A h \in DOMAIN gs : Len(gs[h].using) \in Nat
  BY DEF GroupsOK
<1>2. \A h \in DOMAIN gs : Added(gs, gs, h) = {}
  BY <1>1 DEF Added
<1> QED  BY <1>1, <1>2 DEF Grown, GrownAt, Acyclic

-----------------------------------------------------------------------------
(* What calls and definitions do to groups *)

\* A sequence with one element more.
LEMMA Longer ==
  ASSUME NEW T, NEW u \in Seq(T), NEW n \in T
  PROVE  /\ Append(u, n) \in Seq(T) /\ Len(u) \in Nat /\ Len(Append(u, n)) = Len(u) + 1
         /\ \A i \in 1..Len(u) : Append(u, n)[i] = u[i]
         /\ Append(u, n)[Len(u) + 1] = n
         /\ ToSet(Append(u, n)) = ToSet(u) \cup {n}
<1>1. PICK v : v = Append(u, n)
  OBVIOUS
<1>2. /\ v \in Seq(T) /\ Len(u) \in Nat /\ Len(v) = Len(u) + 1
      /\ (\A i \in 1..Len(u) : v[i] = u[i]) /\ v[Len(u) + 1] = n
      /\ DOMAIN u = 1..Len(u) /\ DOMAIN v = 1..(Len(u) + 1)
  BY <1>1
<1>3. \A i : i \in DOMAIN v <=> i \in DOMAIN u \/ i = Len(u) + 1
  BY <1>2
<1>4. ToSet(v) = ToSet(u) \cup {n}
  BY <1>2, <1>3 DEF ToSet
<1> QED  BY <1>1, <1>2, <1>4

\* The members of groups that stay stay, and a new group has none.
SameMembers(old, new) ==
  \A h \in DOMAIN new : new[h].members = IF h \in DOMAIN old THEN old[h].members ELSE {}

IsUsing(gs, g, n, new) == new = [gs EXCEPT ![g].using = Append(@, n)]

\* A group g that uses n as well.
LEMMA UsingGrows ==
  ASSUME NEW gs, GroupsOK(gs), NEW g \in DOMAIN gs, NEW n \in STRING, NEW new,
         IsUsing(gs, g, n, new)
  PROVE  /\ Grown(gs, new) /\ DOMAIN new = DOMAIN gs /\ SameMembers(gs, new)
         /\ n \in ToSet(new[g].using) /\ MayUse(gs, new, g, n)
         /\ \A h \in DOMAIN gs : Added(gs, new, h) \subseteq {n}
<1>1. PICK u, v : u = gs[g].using /\ v = Append(u, n)
  OBVIOUS
<1>2. u \in Seq(STRING) /\ DOMAIN gs[g] = {"members", "using"}
  BY <1>1 DEF GroupsOK
<1>3. /\ v \in Seq(STRING) /\ Len(u) \in Nat /\ Len(v) = Len(u) + 1
      /\ (\A i \in 1..Len(u) : v[i] = u[i]) /\ v[Len(u) + 1] = n
      /\ ToSet(v) = ToSet(u) \cup {n}
  BY <1>1, <1>2, Longer
<1>4. new = [gs EXCEPT ![g] = [gs[g] EXCEPT !.using = v]]
  BY <1>1 DEF IsUsing
<1>5. PICK r : r = [gs[g] EXCEPT !.using = v]
  OBVIOUS
<1>6. DOMAIN r = {"members", "using"} /\ r.using = v /\ r.members = gs[g].members
  BY <1>2, <1>5
<1>7. DOMAIN new = DOMAIN gs /\ new[g] = r /\ \A h \in DOMAIN gs \ {g} : new[h] = gs[h]
  BY <1>4, <1>5
<1>8. GroupsOK(new)
  BY <1>3, <1>6, <1>7 DEF GroupsOK
<1>9. ASSUME NEW h \in DOMAIN gs
      PROVE  /\ GrownAt(gs, new, h)
             /\ Added(gs, new, h) \subseteq {n}
             /\ Uses(new, h) \subseteq Uses(gs, h) \cup (IF h = g THEN {n} ELSE {})
             /\ new[h].members = gs[h].members
  <2>1. CASE h = g
    <3>1. \A i \in Len(u) + 1 .. Len(v) : i = Len(u) + 1
      BY <1>3
    <3>2. gs[h].using = u /\ new[h].using = v /\ new[h].members = gs[h].members
      BY <1>1, <1>6, <1>7, <2>1
    <3>3. Added(gs, new, h) \subseteq {n}
      BY <1>3, <3>1, <3>2 DEF Added
    <3>4. Uses(new, h) \subseteq Uses(gs, h) \cup {n}
      BY <1>3, <1>7, <3>2 DEF Uses
    <3>5. GrownAt(gs, new, h)
      BY <1>3, <3>2 DEF GrownAt
    <3> QED  BY <2>1, <3>2, <3>3, <3>4, <3>5
  <2>2. CASE h # g
    <3>1. new[h] = gs[h] /\ Len(gs[h].using) \in Nat
      BY <1>7, <2>2 DEF GroupsOK
    <3>2. Added(gs, new, h) = {}
      <4>1. PICK m : m = Len(gs[h].using)
        OBVIOUS
      <4>2. m + 1 .. m = {}
        BY <3>1, <4>1
      <4> QED  BY <3>1, <4>1, <4>2 DEF Added
    <3>3. Uses(new, h) = Uses(gs, h)
      BY <1>7, <3>1 DEF Uses
    <3>4. GrownAt(gs, new, h)
      BY <3>1 DEF GrownAt
    <3> QED  BY <3>1, <3>2, <3>3, <3>4
  <2> QED  BY <2>1, <2>2
<1>10. Grown(gs, new)
  BY <1>7, <1>8, <1>9 DEF Grown, GrownAt
<1>11. n \in ToSet(new[g].using)
  BY <1>3, <1>6, <1>7
<1> QED  BY <1>7, <1>9, <1>10, <1>11 DEF SameMembers, MayUse

\* A group that there is not yet, which root uses.
LEMMA NewGroupGrows ==
  ASSUME NEW gs, GroupsOK(gs), NEW n \in STRING, n \notin DOMAIN gs, NEW new, new = WithGroup(gs, n)
  PROVE  /\ Grown(gs, new) /\ DOMAIN new = DOMAIN gs \cup {n} /\ SameMembers(gs, new)
         /\ n \in Uses(new, Root) /\ Uses(new, n) = {}
         /\ \A h \in DOMAIN gs : /\ Added(gs, new, h) \subseteq {n}
                                 /\ Uses(new, h) \subseteq Uses(gs, h) \cup {n}
<1>1. PICK u, v : u = gs[Root].using /\ v = Append(u, n)
  OBVIOUS
<1>2. u \in Seq(STRING) /\ DOMAIN gs[Root] = {"members", "using"} /\ Root \in DOMAIN gs
  BY <1>1 DEF GroupsOK
<1>3. /\ v \in Seq(STRING) /\ Len(u) \in Nat /\ Len(v) = Len(u) + 1
      /\ (\A i \in 1..Len(u) : v[i] = u[i]) /\ v[Len(u) + 1] = n
      /\ ToSet(v) = ToSet(u) \cup {n}
  BY <1>1, <1>2, Longer
<1>4. PICK r : r = [gs[Root] EXCEPT !.using = v]
  OBVIOUS
<1>5. DOMAIN r = {"members", "using"} /\ r.using = v /\ r.members = gs[Root].members
  BY <1>2, <1>4
<1>6. new = [h \in DOMAIN gs \cup {n} |-> IF h = n THEN EmptyGroup ELSE IF h = Root THEN r ELSE gs[h]]
  BY <1>1, <1>4 DEF WithGroup
<1>7. /\ DOMAIN new = DOMAIN gs \cup {n} /\ new[n] = EmptyGroup /\ new[Root] = r
      /\ \A h \in DOMAIN gs \ {Root} : new[h] = gs[h]
  BY <1>2, <1>6
<1>8. PICK none : none = EmptyGroup
  OBVIOUS
<1>9. DOMAIN none = {"members", "using"} /\ none.using = << >> /\ none.members = {}
  BY <1>8 DEF EmptyGroup
<1>10. << >> \in Seq(STRING) /\ ToSet(<< >>) = {}
  BY DEF ToSet
<1>11. IsFiniteSet(DOMAIN gs \cup {n})
  BY FS_AddElement DEF GroupsOK
<1>12. GroupsOK(new)
  <2>1. \A h \in DOMAIN new : DOMAIN new[h] = {"members", "using"} /\ new[h].using \in Seq(STRING)
    <3> SUFFICES ASSUME NEW h \in DOMAIN new
                 PROVE  DOMAIN new[h] = {"members", "using"} /\ new[h].using \in Seq(STRING)
      OBVIOUS
    <3>1. CASE h = n
      BY <1>7, <1>8, <1>9, <1>10, <3>1
    <3>2. CASE h = Root
      BY <1>3, <1>5, <1>7, <3>2
    <3>3. CASE h \in DOMAIN gs \ {Root}
      BY <1>7, <3>3 DEF GroupsOK
    <3> QED  BY <1>7, <3>1, <3>2, <3>3
  <2> QED  BY <1>2, <1>7, <1>11, <2>1 DEF GroupsOK
<1>13. ASSUME NEW h \in DOMAIN gs
      PROVE  /\ GrownAt(gs, new, h)
             /\ Added(gs, new, h) \subseteq {n}
             /\ Uses(new, h) \subseteq Uses(gs, h) \cup {n}
             /\ new[h].members = gs[h].members
  <2>1. CASE h = Root
    <3>1. \A i \in Len(u) + 1 .. Len(v) : i = Len(u) + 1
      BY <1>3
    <3>2. gs[h].using = u /\ new[h].using = v /\ new[h].members = gs[h].members
      BY <1>1, <1>5, <1>7, <2>1
    <3>3. Added(gs, new, h) \subseteq {n}
      BY <1>3, <3>1, <3>2 DEF Added
    <3>4. Uses(new, h) \subseteq Uses(gs, h) \cup {n}
      BY <1>3, <1>7, <3>2 DEF Uses
    <3>5. GrownAt(gs, new, h)
      BY <1>3, <3>2 DEF GrownAt
    <3> QED  BY <3>2, <3>3, <3>4, <3>5
  <2>2. CASE h # Root
    <3>1. new[h] = gs[h] /\ Len(gs[h].using) \in Nat
      BY <1>7, <2>2 DEF GroupsOK
    <3>2. Added(gs, new, h) = {}
      <4>1. PICK m : m = Len(gs[h].using)
        OBVIOUS
      <4>2. m + 1 .. m = {}
        BY <3>1, <4>1
      <4> QED  BY <3>1, <4>1, <4>2 DEF Added
    <3>3. Uses(new, h) \subseteq Uses(gs, h) \cup {n}
      BY <1>7, <3>1 DEF Uses
    <3>4. GrownAt(gs, new, h)
      BY <3>1 DEF GrownAt
    <3> QED  BY <3>1, <3>2, <3>3, <3>4
  <2> QED  BY <2>1, <2>2
<1>14. Grown(gs, new)
  BY <1>7, <1>12, <1>13 DEF Grown, GrownAt
<1>15. n \in Uses(new, Root) /\ Uses(new, n) = {}
  <2>1. new[Root].using = v /\ new[n].using = << >> /\ n \in DOMAIN new
    BY <1>5, <1>7, <1>8, <1>9
  <2> QED  BY <1>3, <1>10, <2>1 DEF Uses
<1>16. SameMembers(gs, new)
  BY <1>7, <1>8, <1>9, <1>13 DEF SameMembers
<1> QED  BY <1>7, <1>13, <1>14, <1>15, <1>16

\* Members stay the same over two steps.
LEMMA SameMembersTwice ==
  ASSUME NEW gs, NEW cur, NEW new, SameMembers(gs, cur), SameMembers(cur, new),
         DOMAIN gs \subseteq DOMAIN cur, DOMAIN cur \subseteq DOMAIN new
  PROVE  SameMembers(gs, new)
<1> SUFFICES ASSUME NEW h \in DOMAIN new
             PROVE  new[h].members = IF h \in DOMAIN gs THEN gs[h].members ELSE {}
  BY DEF SameMembers
<1>1. CASE h \in DOMAIN cur
  BY <1>1 DEF SameMembers
<1>2. CASE h \notin DOMAIN cur
  BY <1>2 DEF SameMembers
<1> QED  BY <1>1, <1>2

\* What calls of AddGroups make of groups: nothing they add closes a circle, members stay
\* and root still uses every group.
Enlarged(gs, new) ==
  /\ Grown(gs, new) /\ Acyclic(gs, new) /\ SameMembers(gs, new)
  /\ UsedByRoot(gs) => UsedByRoot(new)

\* Root uses the groups that are there and the one that is new.
LEMMA RootUsesNew ==
  ASSUME NEW gs, NEW new, NEW n, GroupsOK(gs), Grown(gs, new), UsedByRoot(gs),
         DOMAIN new \subseteq DOMAIN gs \cup {n}, n \in DOMAIN gs \/ n \in Uses(new, Root)
  PROVE  UsedByRoot(new)
<1>1. Root \in DOMAIN gs
  BY DEF GroupsOK
<1>2. Uses(gs, Root) \subseteq Uses(new, Root)
  BY <1>1, AddedIsUsed
<1> QED  BY <1>2 DEF UsedByRoot

\* WithGroup is getOrCreateGroup: a group more, used by root, closes no circle.
LEMMA WithGroupEnlarges ==
  ASSUME NEW gs, GroupsOK(gs), NEW n \in STRING, NEW new, new = WithGroup(gs, n)
  PROVE  Enlarged(gs, new) /\ n \in DOMAIN new /\ DOMAIN new = DOMAIN gs \cup {n}
<1>1. CASE n \in DOMAIN gs
  <2>1. new = gs
    BY <1>1 DEF WithGroup
  <2>2. Grown(gs, gs) /\ Acyclic(gs, gs)
    BY NothingAdded
  <2> QED  BY <1>1, <2>1, <2>2 DEF Enlarged, SameMembers
<1>2. CASE n \notin DOMAIN gs
  <2>1. /\ Grown(gs, new) /\ DOMAIN new = DOMAIN gs \cup {n} /\ SameMembers(gs, new)
        /\ n \in Uses(new, Root) /\ Uses(new, n) = {}
        /\ \A h \in DOMAIN gs : /\ Added(gs, new, h) \subseteq {n}
                                /\ Uses(new, h) \subseteq Uses(gs, h) \cup {n}
    BY <1>2, NewGroupGrows
  <2>2. \A h \in DOMAIN gs : ~Includes(new, n, h)
    BY <1>2, <2>1, NewClosesNothing
  <2>3. Acyclic(gs, new)
    BY <2>1, <2>2 DEF Acyclic
  <2>4. UsedByRoot(gs) => UsedByRoot(new)
    BY <2>1, RootUsesNew
  <2> QED  BY <2>1, <2>3, <2>4 DEF Enlarged
<1> QED  BY <1>1, <1>2

\* One name more of a call of AddGroups.
LEMMA IncludeEnlarges ==
  ASSUME NEW gs, GroupsOK(gs), NEW s, Enlarged(gs, s.groups),
         NEW g \in DOMAIN gs, NEW n \in STRING
  PROVE  Enlarged(gs, Include(s, g, n).groups)
<1>1. PICK cur : cur = s.groups
  OBVIOUS
<1>2. GroupsOK(cur) /\ Enlarged(gs, cur) /\ g \in DOMAIN cur
  BY <1>1 DEF Enlarged, Grown
<1>3. CASE s.refused \/ n = g \/ WouldCycle(cur, g, n)
  BY <1>1, <1>3 DEF Include
<1>4. CASE ~(s.refused \/ n = g \/ WouldCycle(cur, g, n))
  <2>1. PICK mid : mid = [cur EXCEPT ![g].using = Append(@, n)]
    OBVIOUS
  <2>2. PICK new : new = WithGroup(mid, n)
    OBVIOUS
  <2>3. Include(s, g, n).groups = new
    BY <1>1, <1>4, <2>1, <2>2 DEF Include
  <2>4. /\ Grown(cur, mid) /\ DOMAIN mid = DOMAIN cur /\ SameMembers(cur, mid)
        /\ MayUse(cur, mid, g, n) /\ \A h \in DOMAIN cur : Added(cur, mid, h) \subseteq {n}
    <3>1. IsUsing(cur, g, n, mid)
      BY <2>1 DEF IsUsing
    <3> QED  BY <1>2, <3>1, UsingGrows
  <2>5. GroupsOK(mid)
    BY <2>4 DEF Grown
  <2>6. Grown(gs, cur) /\ Acyclic(gs, cur) /\ SameMembers(gs, cur)
    BY <1>2 DEF Enlarged
  <2>7. DOMAIN gs \subseteq DOMAIN cur
    BY <2>6 DEF Grown
  <2>8. CASE n \in DOMAIN cur
    <3>1. new = mid
      BY <2>2, <2>4, <2>8 DEF WithGroup
    <3>2. ~Includes(cur, n, g)
      BY <1>2, <1>4, <2>8, ReachedIncluded DEF WouldCycle
    <3>3. /\ ~Includes(mid, n, g)
          /\ \A x \in DOMAIN cur : \A y \in Uses(cur, x) :
               ~Includes(cur, y, x) => ~Includes(mid, y, x)
      BY <1>2, <2>4, <2>8, <3>2, UseClosesNothing
    <3>4. \A h \in DOMAIN cur : \A a \in Added(cur, mid, h) : a = n /\ ~Includes(mid, n, h)
      <4> SUFFICES ASSUME NEW h \in DOMAIN cur, NEW a \in Added(cur, mid, h)
                   PROVE  a = n /\ ~Includes(mid, n, h)
        OBVIOUS
      <4>1. a = n
        BY <2>4
      <4>2. CASE h = g
        BY <3>3, <4>1, <4>2
      <4>3. CASE h # g
        <5>1. mid[h] = cur[h] /\ Len(cur[h].using) \in Nat
          BY <1>2, <2>1, <4>3 DEF GroupsOK
        <5>2. PICK m : m = Len(cur[h].using)
          OBVIOUS
        <5>3. m + 1 .. m = {}
          BY <5>1, <5>2
        <5>4. Added(cur, mid, h) = {}
          BY <5>1, <5>2, <5>3 DEF Added
        <5> QED  BY <5>4
      <4> QED  BY <4>1, <4>2, <4>3
    <3>5. Grown(gs, mid) /\ Acyclic(gs, mid)
      BY <1>2, <2>4, <2>6, <2>8, <3>3, <3>4, AcyclicGrows
    <3>6. SameMembers(gs, mid)
      BY <2>4, <2>6, <2>7, SameMembersTwice
    <3>7. UsedByRoot(cur) => UsedByRoot(mid)
      BY <1>2, <2>4, <2>8, RootUsesNew
    <3> QED  BY <1>2, <2>3, <3>1, <3>5, <3>6, <3>7 DEF Enlarged
  <2>9. CASE n \notin DOMAIN cur
    <3>1. /\ Grown(mid, new) /\ DOMAIN new = DOMAIN cur \cup {n} /\ SameMembers(mid, new)
          /\ n \in Uses(new, Root) /\ Uses(new, n) = {}
          /\ \A h \in DOMAIN cur : /\ Added(mid, new, h) \subseteq {n}
                                   /\ Uses(new, h) \subseteq Uses(mid, h) \cup {n}
      BY <2>2, <2>4, <2>5, <2>9, NewGroupGrows
    <3>2. /\ Grown(cur, new)
          /\ \A h \in DOMAIN cur : Added(cur, new, h) \subseteq Added(cur, mid, h) \cup Added(mid, new, h)
      BY <1>2, <2>4, <2>5, <3>1, GrownTwice
    <3>3. \A h \in DOMAIN cur : Added(cur, new, h) \subseteq {n}
      BY <2>4, <3>1, <3>2
    <3>4. \A h \in DOMAIN cur : Uses(new, h) \subseteq Uses(cur, h) \cup {n}
      BY <2>4, <3>1 DEF MayUse
    <3>5. /\ \A h \in DOMAIN cur : ~Includes(new, n, h)
          /\ \A x \in DOMAIN cur : \A y \in Uses(cur, x) :
               ~Includes(cur, y, x) => ~Includes(new, y, x)
      BY <2>9, <3>1, <3>4, NewClosesNothing
    <3>6. Grown(gs, new) /\ Acyclic(gs, new)
      BY <1>2, <2>6, <3>1, <3>2, <3>3, <3>5, AcyclicGrows
    <3>7. SameMembers(gs, new)
      <4>1. SameMembers(gs, mid)
        BY <2>4, <2>6, <2>7, SameMembersTwice
      <4> QED  BY <2>4, <2>7, <3>1, <4>1, SameMembersTwice
    <3>8. UsedByRoot(cur) => UsedByRoot(new)
      BY <1>2, <3>1, <3>2, RootUsesNew
    <3> QED  BY <1>2, <2>3, <3>6, <3>7, <3>8 DEF Enlarged
  <2> QED  BY <2>8, <2>9
<1> QED  BY <1>1, <1>3, <1>4

\* The loop of AddedGroups.
Adding(gs, g, ns) ==
  LET added[i \in 0..Len(ns)] == IF i = 0 THEN [groups |-> gs, refused |-> FALSE]
                                 ELSE Include(added[i - 1], g, ns[i])
  IN  added

\* The loop exists as a function.
LEMMA AddingTurns ==
  ASSUME NEW gs, NEW g, NEW ns \in Seq(STRING)
  PROVE  /\ Adding(gs, g, ns)[0] = [groups |-> gs, refused |-> FALSE]
         /\ \A i \in 1..Len(ns) : Adding(gs, g, ns)[i] = Include(Adding(gs, g, ns)[i - 1], g, ns[i])
<1> DEFINE start == [groups |-> gs, refused |-> FALSE]
           IsAdded(f, m) == f = [i \in 0..m |-> IF i = 0 THEN start ELSE Include(f[i - 1], g, ns[i])]
           Good == {m \in Nat : \E f : IsAdded(f, m)}
<1>1. 0 \in Good
  <2>1. IsAdded([i \in 0..0 |-> start], 0)
    OBVIOUS
  <2> QED  BY <2>1
<1>2. ASSUME NEW m \in Nat, m \in Good PROVE m + 1 \in Good
  <2>1. PICK f : IsAdded(f, m)
    BY <1>2
  <2> DEFINE h == [i \in 0..(m + 1) |-> IF i = m + 1 THEN Include(f[m], g, ns[i]) ELSE f[i]]
  <2> HIDE DEF start
  <2>2. \A i \in 0..m : h[i] = f[i] /\ f[i] = IF i = 0 THEN start ELSE Include(f[i - 1], g, ns[i])
    <3>1. \A i \in 0..m : f[i] = IF i = 0 THEN start ELSE Include(f[i - 1], g, ns[i])
      <4> HIDE DEF h
      <4> QED  BY <2>1
    <3>2. ASSUME NEW i \in 0..m PROVE h[i] = f[i]
      <4>1. i \in 0..(m + 1) /\ i # m + 1
        OBVIOUS
      <4> QED  BY <4>1
    <3> QED  BY <3>1, <3>2
  <2>3. \A i \in 0..(m + 1) : h[i] = IF i = 0 THEN start ELSE Include(h[i - 1], g, ns[i])
    <3> SUFFICES ASSUME NEW i \in 0..(m + 1)
                 PROVE  h[i] = IF i = 0 THEN start ELSE Include(h[i - 1], g, ns[i])
      OBVIOUS
    <3>1. CASE i = m + 1
      BY <2>2, <3>1
    <3>2. CASE i # m + 1
      <4>1. i \in 0..m /\ (i # 0 => i - 1 \in 0..m)
        BY <3>2
      <4> HIDE DEF h
      <4> QED  BY <2>2, <4>1
    <3> QED  BY <3>1, <3>2
  <2>4. IsAdded(h, m + 1)
    BY <2>3
  <2> HIDE DEF h, IsAdded
  <2>5. \E f2 : IsAdded(f2, m + 1)
    BY <2>4
  <2> QED  BY <2>5
<1>3. Len(ns) \in Good
  <2>1. Len(ns) \in Nat
    OBVIOUS
  <2> HIDE DEF Good
  <2> QED  BY <1>1, <1>2, <2>1, NumberInduction
<1>4. PICK f : IsAdded(f, Len(ns))
  BY <1>3
<1>5. IsAdded(Adding(gs, g, ns), Len(ns))
  BY <1>4 DEF Adding
<1> HIDE DEF Adding, start
<1>6. \A i \in 0..Len(ns) :
        Adding(gs, g, ns)[i] = IF i = 0 THEN start ELSE Include(Adding(gs, g, ns)[i - 1], g, ns[i])
  BY <1>5
<1>7. Len(ns) \in Nat
  OBVIOUS
<1>8. 0 \in 0..Len(ns) /\ \A i \in 1..Len(ns) : i \in 0..Len(ns) /\ i # 0
  BY <1>7
<1>9. start = [groups |-> gs, refused |-> FALSE]
  BY DEF start
<1> QED  BY <1>6, <1>8, <1>9

\* A call of AddGroups closes no circle, also when it stops half way.
LEMMA AddGroupsEnlarges ==
  ASSUME NEW gs, GroupsOK(gs), NEW g \in DOMAIN gs, NEW ns \in Seq(STRING)
  PROVE  Enlarged(gs, AddedGroups(gs, g, ns))
<1>1. PICK f : f = Adding(gs, g, ns)
  OBVIOUS
<1>2. /\ f[0] = [groups |-> gs, refused |-> FALSE]
      /\ \A i \in 1..Len(ns) : f[i] = Include(f[i - 1], g, ns[i])
  BY <1>1, AddingTurns
<1>3. AddedGroups(gs, g, ns) = f[Len(ns)].groups
  BY <1>1 DEF AddedGroups, Adding
<1>4. Len(ns) \in Nat /\ \A i \in 1..Len(ns) : ns[i] \in STRING
  OBVIOUS
<1> DEFINE Good == {m \in Nat : m <= Len(ns) => Enlarged(gs, f[m].groups)}
<1>5. 0 \in Good
  <2>1. f[0].groups = gs
    BY <1>2
  <2>2. Enlarged(gs, gs)
    BY NothingAdded DEF Enlarged, SameMembers
  <2> QED  BY <2>1, <2>2
<1>6. ASSUME NEW m \in Nat, m \in Good PROVE m + 1 \in Good
  <2> SUFFICES ASSUME m + 1 <= Len(ns) PROVE Enlarged(gs, f[m + 1].groups)
    OBVIOUS
  <2>1. m + 1 \in 1..Len(ns) /\ (m + 1) - 1 = m /\ m <= Len(ns)
    BY <1>4
  <2>2. Enlarged(gs, f[m].groups)
    BY <1>6, <2>1
  <2>3. f[m + 1] = Include(f[m], g, ns[m + 1])
    BY <1>2, <2>1
  <2>4. ns[m + 1] \in STRING
    BY <1>4, <2>1
  <2> QED  BY <2>2, <2>3, <2>4, IncludeEnlarges
<1>7. Len(ns) \in Good
  <2> HIDE DEF Good
  <2> QED  BY <1>4, <1>5, <1>6, NumberInduction
<1> QED  BY <1>3, <1>4, <1>7

-----------------------------------------------------------------------------
(* What there is to apply *)

LineSeq(s) == s \in Seq(ToSet(s)) /\ \A l \in ToSet(s) : IsLine(l)
UnitSeq(s) == LineSeq(s) /\ \A l \in ToSet(s) : l.is = "unit"

\* The parts of definitions and blocks that groups, aliases and contexts are made of.
IsApplicable(d) ==
  /\ d.is = "group" => d.name \in STRING /\ d.using \in Seq(STRING) /\ UnitSeq(d.members)
  /\ d.is = "unit" /\ "group" \in DOMAIN d => d.group \in STRING
  /\ d.is = "prefix" => IsRational(d.scale)
  /\ d.is = "alias" =>
       /\ d.aliases \in Seq(STRING) /\ d.name \notin FullNames
       /\ Policy \subseteq {"raise"} \/ ToSet(d.aliases) \cap (Definable \cup FullNames) = {}
  /\ d.is = "context" => d.names \in Seq(STRING) \ {<< >>} /\ LineSeq(d.rels)
Applicable(s) == s \in Seq(ToSet(s)) /\ \A d \in ToSet(s) : IsApplicable(d)

ParsedTyped(p) ==
  /\ DOMAIN p = {"header", "body", "out", "refused"}
  /\ IsLine(p.header) /\ (p.header = NoHeader \/ IsHeader(p.header))
  /\ LineSeq(p.body) /\ Applicable(p.out)

\* Every group is used by root, and every unit is a member of root but for differences and
\* units with a prefix.
Differences == {DeltaName[m] : m \in DOMAIN byName \cap Identifier}
UnitsOfRoot ==
  /\ UsedByRoot(groups)
  /\ DOMAIN byName \subseteq groups[Root].members \cup Differences \cup FullNames
  /\ \A g \in DOMAIN groups : groups[g].members \subseteq DOMAIN byName \cup strays

\* A spelling leads to a unit, which goes by its own name; only names of prefixed units lead
\* to prefixed units.
NamesOK ==
  /\ onRedefinition \in Policy /\ DOMAIN names \subseteq STRING
  /\ \A n \in DOMAIN names :
       names[n] \in DOMAIN byName /\ (names[n] \in FullNames => n \in FullNames)
  /\ \A u \in DOMAIN byName :
       u \in DOMAIN names /\ names[u] = u /\ u \in Definable \cup FullNames

GroupsInv ==
  /\ calls \in Nat /\ GroupsOK(groups) /\ strays \subseteq STRING /\ NamesOK
  /\ Applicable(pending) /\ ParsedTyped(parsed)
  /\ UnitsOfRoot

\* A sequence is one of its elements.
LEMMA OfItsElements ==
  ASSUME NEW T, NEW s \in Seq(T)
  PROVE  s \in Seq(ToSet(s)) /\ ToSet(s) \subseteq T
<1>1. Len(s) \in Nat /\ DOMAIN s = 1..Len(s) /\ \A i \in 1..Len(s) : s[i] \in T
  OBVIOUS
<1>2. ToSet(s) \subseteq T /\ \A i \in 1..Len(s) : s[i] \in ToSet(s)
  BY <1>1 DEF ToSet
<1>3. s \in Seq(ToSet(s))
  BY <1>1, <1>2
<1> QED  BY <1>2, <1>3

\* The empty sequence is one of any set.
LEMMA EmptyIn == ASSUME NEW T PROVE << >> \in Seq(T)
OBVIOUS

\* Sequences of a larger set.
LEMMA OfMore == ASSUME NEW S, NEW T, S \subseteq T, NEW s \in Seq(S) PROVE s \in Seq(T)
OBVIOUS

\* The elements of a sequence of applicable things are applicable.
LEMMA ApplicableIn ==
  ASSUME NEW T, NEW s \in Seq(T), \A d \in T : IsApplicable(d)
  PROVE  Applicable(s)
BY OfItsElements DEF Applicable

\* What is applied next, and what is left.
LEMMA ApplicableNext ==
  ASSUME NEW s, Applicable(s), s # << >>
  PROVE  IsApplicable(Head(s)) /\ Applicable(Tail(s))
<1>1. PICK T : T = ToSet(s)
  OBVIOUS
<1>2. s \in Seq(T) /\ \A d \in T : IsApplicable(d)
  BY <1>1 DEF Applicable
<1>3. Head(s) \in T /\ Tail(s) \in Seq(T)
  BY <1>2, FirstAndRest
<1> QED  BY <1>2, <1>3, ApplicableIn

\* What is applied before the rest.
LEMMA ApplicableBefore ==
  ASSUME NEW s, NEW t, Applicable(s), Applicable(t)
  PROVE  Applicable(s \o t)
<1>1. PICK S, T : S = ToSet(s) /\ T = ToSet(t)
  OBVIOUS
<1>2. s \in Seq(S) /\ t \in Seq(T) /\ \A d \in S \cup T : IsApplicable(d)
  BY <1>1 DEF Applicable
<1>3. s \in Seq(S \cup T) /\ t \in Seq(S \cup T)
  BY <1>2, OfMore
<1>4. s \o t \in Seq(S \cup T)
  BY <1>3, Joined
<1> QED  BY <1>2, <1>4, ApplicableIn

\* One thing more to apply.
LEMMA ApplicableMore ==
  ASSUME NEW s, NEW d, Applicable(s), IsApplicable(d)
  PROVE  Applicable(Append(s, d))
<1>1. PICK S : S = ToSet(s)
  OBVIOUS
<1>2. s \in Seq(S) /\ \A e \in S \cup {d} : IsApplicable(e)
  BY <1>1 DEF Applicable
<1>3. s \in Seq(S \cup {d}) /\ d \in S \cup {d}
  BY <1>2, OfMore
<1>4. Append(s, d) \in Seq(S \cup {d})
  BY <1>3, Longer
<1> QED  BY <1>2, <1>4, ApplicableIn

\* Nothing to apply, or a single thing.
LEMMA ApplicableFew ==
  ASSUME NEW d, IsApplicable(d)
  PROVE  Applicable(<<d>>)
<1>1. PICK s, S : s = <<d>> /\ S = {d}
  OBVIOUS
<1>2. s \in Seq(S) /\ \A e \in S : IsApplicable(e)
  BY <1>1, Single
<1> QED  BY <1>1, <1>2, ApplicableIn

\* Nothing to apply, and no lines.
LEMMA NothingApplicable == Applicable(<< >>) /\ LineSeq(<< >>) /\ ToSet(<< >>) = {}
<1>1. ToSet(<< >>) = {}
  BY DEF ToSet
<1>2. << >> \in Seq(ToSet(<< >>))
  OBVIOUS
<1> QED  BY <1>1, <1>2 DEF Applicable, LineSeq

\* The lines of a kind in a block are lines of the block.
LEMMA KindTyped ==
  ASSUME NEW body, LineSeq(body), NEW kind
  PROVE  LineSeq(OfKind(kind, body)) /\ \A l \in ToSet(OfKind(kind, body)) : l.is = kind
<1>1. PICK T : T = ToSet(body)
  OBVIOUS
<1>2. body \in Seq(T) /\ \A l \in T : IsLine(l)
  BY <1>1 DEF LineSeq
<1>3. Len(body) \in Nat /\ DOMAIN body = 1..Len(body) /\ \A i \in 1..Len(body) : body[i] \in T
  BY <1>2
<1>4. PICK I : I = {i \in DOMAIN body : body[i].is = kind}
  OBVIOUS
<1>5. PICK at : at = InOrder(I, Len(body))
  OBVIOUS
<1>6. at \in Seq(I \cap 1..Len(body))
  BY <1>3, <1>5, InOrderTyped
<1>7. I \cap 1..Len(body) = I
  BY <1>3, <1>4
<1>8. Len(at) \in Nat /\ DOMAIN at = 1..Len(at) /\ \A k \in 1..Len(at) : at[k] \in I
  BY <1>6, <1>7
<1>9. PICK s : s = [k \in DOMAIN at |-> body[at[k]]]
  OBVIOUS
<1>10. OfKind(kind, body) = s
  BY <1>4, <1>5, <1>9 DEF OfKind
<1>11. PICK V : V = {l \in T : l.is = kind}
  OBVIOUS
<1>12. \A k \in 1..Len(at) : s[k] \in V
  BY <1>3, <1>4, <1>8, <1>9, <1>11
<1>13. s \in Seq(V)
  BY <1>8, <1>9, <1>12
<1>14. s \in Seq(ToSet(s)) /\ ToSet(s) \subseteq V
  BY <1>13, OfItsElements
<1> QED  BY <1>2, <1>10, <1>11, <1>14 DEF LineSeq

\* A definition outside of blocks is applied as it stands.
LEMMA DefinitionApplicable ==
  ASSUME NEW l, IsLine(l), IsDefinition(l)
  PROVE  IsApplicable(l)
BY DEF IsLine, IsDefinition, IsApplicable

\* So is a block, when it ends.
LEMMA BlockApplicable ==
  ASSUME NEW h, IsLine(h), IsHeader(h), NEW body, LineSeq(body)
  PROVE  IsApplicable(Block(h, body))
<1>1. CASE h.is = "group"
  <2>1. PICK b : b = [is |-> h.is, name |-> h.name, using |-> h.using, members |-> Units(body)]
    OBVIOUS
  <2>2. Block(h, body) = b
    BY <1>1, <2>1 DEF Block
  <2>3. b.is = "group" /\ b.name = h.name /\ b.using = h.using /\ b.members = Units(body)
    BY <1>1, <2>1
  <2>4. b.name \in STRING /\ b.using \in Seq(STRING) /\ UnitSeq(b.members)
    BY <1>1, <2>3, KindTyped DEF IsLine, Units, UnitSeq
  <2> QED  BY <2>2, <2>3, <2>4 DEF IsApplicable
<1>2. CASE h.is = "context"
  <2>1. PICK b : b = [is |-> h.is, names |-> h.names, rels |-> Relations(body), redefs |-> Units(body)]
    OBVIOUS
  <2>2. Block(h, body) = b
    BY <1>2, <2>1 DEF Block
  <2>3. b.is = "context" /\ b.names = h.names /\ b.rels = Relations(body)
    BY <1>2, <2>1
  <2>4. b.names \in Seq(STRING) \ {<< >>} /\ LineSeq(b.rels)
    BY <1>2, <2>3, KindTyped DEF IsLine, Relations
  <2> QED  BY <2>2, <2>3, <2>4 DEF IsApplicable
<1>3. CASE h.is = "defaults" \/ h.is = "system"
  <2>1. Block(h, body).is = h.is
    <3>1. CASE h.is = "defaults"
      BY <3>1 DEF Block
    <3>2. CASE h.is = "system"
      BY <3>2 DEF Block
    <3> QED  BY <1>3, <3>1, <3>2
  <2> QED  BY <1>3, <2>1 DEF IsApplicable
<1> QED  BY <1>1, <1>2, <1>3 DEF IsHeader

\* The text before its first line.
LEMMA NoTextTyped == ParsedTyped(NoText)
<1>1. PICK p : p = NoText
  OBVIOUS
<1>2. /\ DOMAIN p = {"header", "body", "out", "refused"}
      /\ p.header = NoHeader /\ p.body = << >> /\ p.out = << >>
  BY <1>1 DEF NoText
<1>3. IsLine(NoHeader)
  BY DEF IsLine, NoHeader
<1> QED  BY <1>1, <1>2, <1>3, NothingApplicable DEF ParsedTyped

\* The end of a block.
LEMMA FlushTyped ==
  ASSUME NEW p, ParsedTyped(p)
  PROVE  ParsedTyped(Flush(p))
<1>1. PICK q : q = Flush(p)
  OBVIOUS
<1>2. CASE p.header = NoHeader \/ p.refused
  BY <1>2 DEF Flush
<1>3. CASE /\ ~(p.header = NoHeader \/ p.refused)
           /\ \E i \in DOMAIN p.body : ~Accepts(p.header, p.body[i])
  <2>1. q = [p EXCEPT !.refused = TRUE]
    BY <1>1, <1>3 DEF Flush
  <2>2. DOMAIN q = DOMAIN p /\ q.header = p.header /\ q.body = p.body /\ q.out = p.out
    BY <2>1 DEF ParsedTyped
  <2> QED  BY <1>1, <2>2 DEF ParsedTyped
<1>4. CASE /\ ~(p.header = NoHeader \/ p.refused)
           /\ ~\E i \in DOMAIN p.body : ~Accepts(p.header, p.body[i])
  <2>1. PICK n, out : n = NoText /\ out = Append(p.out, Block(p.header, p.body))
    OBVIOUS
  <2>2. q = [n EXCEPT !.out = out]
    BY <1>1, <1>4, <2>1 DEF Flush
  <2>3. ParsedTyped(n)
    BY <2>1, NoTextTyped
  <2>4. Applicable(out)
    BY <1>4, <2>1, BlockApplicable, ApplicableMore DEF ParsedTyped
  <2>5. DOMAIN q = DOMAIN n /\ q.header = n.header /\ q.body = n.body /\ q.out = out
    BY <2>2, <2>3 DEF ParsedTyped
  <2> QED  BY <1>1, <2>3, <2>4, <2>5 DEF ParsedTyped
<1> QED  BY <1>2, <1>3, <1>4

\* A line more of a block.
LEMMA LinesMore ==
  ASSUME NEW s, NEW l, LineSeq(s), IsLine(l)
  PROVE  LineSeq(Append(s, l))
<1>1. PICK S : S = ToSet(s)
  OBVIOUS
<1>2. s \in Seq(S) /\ \A e \in S \cup {l} : IsLine(e)
  BY <1>1 DEF LineSeq
<1>3. s \in Seq(S \cup {l}) /\ l \in S \cup {l}
  BY <1>2, OfMore
<1>4. Append(s, l) \in Seq(S \cup {l})
  BY <1>3, Longer
<1> QED  BY <1>2, <1>4, OfItsElements DEF LineSeq

\* A line more of a text.
LEMMA ReadLineTyped ==
  ASSUME NEW p, ParsedTyped(p), NEW l, IsLine(l)
  PROVE  ParsedTyped(ReadLine(p, l))
<1>1. PICK q : q = ReadLine(p, l)
  OBVIOUS
<1>2. ASSUME q = [p EXCEPT !.refused = TRUE] PROVE ParsedTyped(q)
  <2>1. DOMAIN q = DOMAIN p /\ q.header = p.header /\ q.body = p.body /\ q.out = p.out
    BY <1>2 DEF ParsedTyped
  <2> QED  BY <2>1 DEF ParsedTyped
<1>3. CASE p.refused \/ l.is = "end"
  BY <1>3, FlushTyped DEF ReadLine
<1>4. CASE ~p.refused /\ l.is # "end" /\ IsHeader(l)
  <2>1. CASE WellFormed(l)
    <3>1. PICK f : f = Flush(p)
      OBVIOUS
    <3>2. q = [f EXCEPT !.header = l]
      BY <1>1, <1>4, <2>1, <3>1 DEF ReadLine
    <3>3. ParsedTyped(f)
      BY <3>1, FlushTyped
    <3>4. DOMAIN q = DOMAIN f /\ q.header = l /\ q.body = f.body /\ q.out = f.out
      BY <3>2, <3>3 DEF ParsedTyped
    <3> QED  BY <1>1, <1>4, <3>3, <3>4 DEF ParsedTyped
  <2>2. CASE ~WellFormed(l)
    BY <1>1, <1>2, <1>4, <2>2 DEF ReadLine
  <2> QED  BY <2>1, <2>2
<1>5. CASE ~p.refused /\ l.is # "end" /\ ~IsHeader(l)
  <2>1. CASE p.header # NoHeader
    <3>1. q = [p EXCEPT !.body = Append(@, l)]
      BY <1>1, <1>5, <2>1 DEF ReadLine
    <3>2. DOMAIN q = DOMAIN p /\ q.header = p.header /\ q.body = Append(p.body, l) /\ q.out = p.out
      BY <3>1 DEF ParsedTyped
    <3>3. LineSeq(q.body)
      BY <3>2, LinesMore DEF ParsedTyped
    <3> QED  BY <1>1, <3>2, <3>3 DEF ParsedTyped
  <2>2. CASE p.header = NoHeader /\ IsDefinition(l)
    <3>1. q = [p EXCEPT !.out = Append(@, l)]
      BY <1>1, <1>5, <2>2 DEF ReadLine
    <3>2. DOMAIN q = DOMAIN p /\ q.header = p.header /\ q.body = p.body /\ q.out = Append(p.out, l)
      BY <3>1 DEF ParsedTyped
    <3>3. Applicable(q.out)
      BY <2>2, <3>2, DefinitionApplicable, ApplicableMore DEF ParsedTyped
    <3> QED  BY <1>1, <3>2, <3>3 DEF ParsedTyped
  <2>3. CASE p.header = NoHeader /\ ~IsDefinition(l)
    BY <1>1, <1>2, <1>5, <2>3 DEF ReadLine
  <2> QED  BY <2>1, <2>2, <2>3
<1> QED  BY <1>3, <1>4, <1>5

\* The loop of Parsed.
Reading(ls) ==
  LET read[i \in 0..Len(ls)] == IF i = 0 THEN NoText ELSE ReadLine(read[i - 1], ls[i])
  IN  read

\* The loop exists as a function.
LEMMA ReadingTurns ==
  ASSUME NEW T, NEW s \in Seq(T)
  PROVE  /\ Reading(s)[0] = NoText
         /\ \A i \in 1..Len(s) : Reading(s)[i] = ReadLine(Reading(s)[i - 1], s[i])
<1> DEFINE IsRead(f, m) == f = [i \in 0..m |-> IF i = 0 THEN NoText ELSE ReadLine(f[i - 1], s[i])]
           Good == {m \in Nat : \E f : IsRead(f, m)}
<1>1. 0 \in Good
  <2>1. IsRead([i \in 0..0 |-> NoText], 0)
    OBVIOUS
  <2> QED  BY <2>1
<1>2. ASSUME NEW m \in Nat, m \in Good PROVE m + 1 \in Good
  <2>1. PICK f : IsRead(f, m)
    BY <1>2
  <2> DEFINE h == [i \in 0..(m + 1) |-> IF i = m + 1 THEN ReadLine(f[m], s[i]) ELSE f[i]]
  <2>2. \A i \in 0..m : h[i] = f[i] /\ f[i] = IF i = 0 THEN NoText ELSE ReadLine(f[i - 1], s[i])
    <3>1. \A i \in 0..m : f[i] = IF i = 0 THEN NoText ELSE ReadLine(f[i - 1], s[i])
      <4> HIDE DEF h
      <4> QED  BY <2>1
    <3>2. ASSUME NEW i \in 0..m PROVE h[i] = f[i]
      <4>1. i \in 0..(m + 1) /\ i # m + 1
        OBVIOUS
      <4> QED  BY <4>1
    <3> QED  BY <3>1, <3>2
  <2>3. \A i \in 0..(m + 1) : h[i] = IF i = 0 THEN NoText ELSE ReadLine(h[i - 1], s[i])
    <3> SUFFICES ASSUME NEW i \in 0..(m + 1)
                 PROVE  h[i] = IF i = 0 THEN NoText ELSE ReadLine(h[i - 1], s[i])
      OBVIOUS
    <3>1. CASE i = m + 1
      BY <2>2, <3>1
    <3>2. CASE i # m + 1
      <4>1. i \in 0..m /\ (i # 0 => i - 1 \in 0..m)
        BY <3>2
      <4> HIDE DEF h
      <4> QED  BY <2>2, <4>1
    <3> QED  BY <3>1, <3>2
  <2>4. IsRead(h, m + 1)
    BY <2>3
  <2> HIDE DEF h, IsRead
  <2>5. \E f2 : IsRead(f2, m + 1)
    BY <2>4
  <2> QED  BY <2>5
<1>3. Len(s) \in Good
  <2>1. Len(s) \in Nat
    OBVIOUS
  <2> HIDE DEF Good
  <2> QED  BY <1>1, <1>2, <2>1, NumberInduction
<1>4. PICK f : IsRead(f, Len(s))
  BY <1>3
<1>5. IsRead(Reading(s), Len(s))
  BY <1>4 DEF Reading
<1> HIDE DEF Reading
<1>6. \A i \in 0..Len(s) :
        Reading(s)[i] = IF i = 0 THEN NoText ELSE ReadLine(Reading(s)[i - 1], s[i])
  BY <1>5
<1>7. Len(s) \in Nat
  OBVIOUS
<1>8. 0 \in 0..Len(s) /\ \A i \in 1..Len(s) : i \in 0..Len(s) /\ i # 0
  BY <1>7
<1> QED  BY <1>6, <1>8

\* What a text of lines is parsed to can be applied.
LEMMA ParsedApplicable ==
  ASSUME NEW s, LineSeq(s)
  PROVE  Applicable(Parsed(s).out)
<1>1. PICK T : T = ToSet(s)
  OBVIOUS
<1>2. s \in Seq(T) /\ \A l \in T : IsLine(l)
  BY <1>1 DEF LineSeq
<1>3. PICK f : f = Reading(s)
  OBVIOUS
<1>4. f[0] = NoText /\ \A i \in 1..Len(s) : f[i] = ReadLine(f[i - 1], s[i])
  BY <1>2, <1>3, ReadingTurns
<1>5. Parsed(s) = Flush(f[Len(s)])
  BY <1>3 DEF Parsed, Reading
<1>6. Len(s) \in Nat /\ \A i \in 1..Len(s) : IsLine(s[i])
  BY <1>2
<1> DEFINE Good == {m \in Nat : m <= Len(s) => ParsedTyped(f[m])}
<1>7. 0 \in Good
  BY <1>4, NoTextTyped
<1>8. ASSUME NEW m \in Nat, m \in Good PROVE m + 1 \in Good
  <2> SUFFICES ASSUME m + 1 <= Len(s) PROVE ParsedTyped(f[m + 1])
    OBVIOUS
  <2>1. m + 1 \in 1..Len(s) /\ (m + 1) - 1 = m /\ m <= Len(s)
    BY <1>6
  <2>2. ParsedTyped(f[m]) /\ IsLine(s[m + 1])
    BY <1>6, <1>8, <2>1
  <2>3. f[m + 1] = ReadLine(f[m], s[m + 1])
    BY <1>4, <2>1
  <2> QED  BY <2>2, <2>3, ReadLineTyped
<1>9. Len(s) \in Good
  <2> HIDE DEF Good
  <2> QED  BY <1>6, <1>7, <1>8, NumberInduction
<1>10. ParsedTyped(f[Len(s)])
  BY <1>6, <1>9
<1> QED  BY <1>5, <1>10, FlushTyped DEF ParsedTyped

\* The members of a group, on their way into it.
LEMMA MembersApplicable ==
  ASSUME NEW ms, UnitSeq(ms), NEW g \in STRING
  PROVE  Applicable([i \in DOMAIN ms |-> Put(ms[i], "group", g)])
<1>1. PICK T : T = ToSet(ms)
  OBVIOUS
<1>2. ms \in Seq(T) /\ \A l \in T : IsLine(l) /\ l.is = "unit"
  BY <1>1 DEF UnitSeq, LineSeq
<1>3. Len(ms) \in Nat /\ DOMAIN ms = 1..Len(ms) /\ \A i \in 1..Len(ms) : ms[i] \in T
  BY <1>2
<1>4. PICK U : U = {Put(l, "group", g) : l \in T}
  OBVIOUS
<1>5. ASSUME NEW l \in T PROVE IsApplicable(Put(l, "group", g))
  <2>1. PICK u : u = Put(l, "group", g)
    OBVIOUS
  <2>2. "is" \in DOMAIN l /\ l.is = "unit"
    BY <1>2 DEF IsLine
  <2>3. u.is = "unit" /\ u.group = g
    BY <2>1, <2>2 DEF Put
  <2> QED  BY <2>1, <2>3 DEF IsApplicable
<1>6. PICK s : s = [i \in DOMAIN ms |-> Put(ms[i], "group", g)]
  OBVIOUS
<1>7. \A i \in 1..Len(ms) : s[i] \in U
  BY <1>3, <1>4, <1>6
<1>8. s \in Seq(U)
  BY <1>3, <1>6, <1>7
<1>9. \A d \in U : IsApplicable(d)
  BY <1>4, <1>5
<1> QED  BY <1>6, <1>8, <1>9, ApplicableIn

-----------------------------------------------------------------------------
(* What definitions and calls do to groups *)

\* Groups stay, with their members, and nothing but the names of S becomes a member.
Gains(gs, new, S) ==
  /\ GroupsOK(new) /\ DOMAIN gs \subseteq DOMAIN new
  /\ UsedByRoot(gs) => UsedByRoot(new)
  /\ \A h \in DOMAIN gs : gs[h].members \subseteq new[h].members
  /\ \A h \in DOMAIN new : \A m \in new[h].members : m \in S \/ (h \in DOMAIN gs /\ m \in gs[h].members)

\* What AddGroups and getOrCreateGroup make is one case.
LEMMA EnlargedGains ==
  ASSUME NEW gs, NEW new, Enlarged(gs, new)
  PROVE  Gains(gs, new, {})
<1>1. GroupsOK(new) /\ DOMAIN gs \subseteq DOMAIN new /\ (UsedByRoot(gs) => UsedByRoot(new))
  BY DEF Enlarged, Grown
<1>2. \A h \in DOMAIN new : new[h].members = IF h \in DOMAIN gs THEN gs[h].members ELSE {}
  BY DEF Enlarged, SameMembers
<1> QED  BY <1>1, <1>2 DEF Gains

\* Two steps gain what one gains or the other.
LEMMA GainsTwice ==
  ASSUME NEW gs, NEW cur, NEW new, NEW S, Gains(gs, cur, S), Gains(cur, new, S)
  PROVE  Gains(gs, new, S)
BY DEF Gains

\* Nothing more to gain.
LEMMA GainsLess ==
  ASSUME NEW gs, NEW new, NEW S, NEW T, S \subseteq T, Gains(gs, new, S)
  PROVE  Gains(gs, new, T)
BY DEF Gains

\* A member more of a group.
LEMMA MemberGains ==
  ASSUME NEW gs, GroupsOK(gs), NEW g \in DOMAIN gs, NEW n
  PROVE  Gains(gs, WithMember(gs, g, n), {n}) /\ n \in WithMember(gs, g, n)[g].members
<1>1. PICK new, r : /\ new = WithMember(gs, g, n)
                    /\ r = [gs[g] EXCEPT !.members = @ \cup {n}]
  OBVIOUS
<1>2. DOMAIN gs[g] = {"members", "using"}
  BY DEF GroupsOK
<1>3. new = [gs EXCEPT ![g] = r]
  BY <1>1 DEF WithMember
<1>4. DOMAIN r = {"members", "using"} /\ r.using = gs[g].using /\ r.members = gs[g].members \cup {n}
  BY <1>1, <1>2
<1>5. DOMAIN new = DOMAIN gs /\ new[g] = r /\ \A h \in DOMAIN gs \ {g} : new[h] = gs[h]
  BY <1>3
<1>6. \A h \in DOMAIN gs : DOMAIN new[h] = {"members", "using"} /\ new[h].using = gs[h].using
  <2> SUFFICES ASSUME NEW h \in DOMAIN gs
               PROVE  DOMAIN new[h] = {"members", "using"} /\ new[h].using = gs[h].using
    OBVIOUS
  <2>1. CASE h = g
    BY <1>4, <1>5, <2>1
  <2>2. CASE h # g
    BY <1>5, <2>2 DEF GroupsOK
  <2> QED  BY <2>1, <2>2
<1>7. GroupsOK(new)
  BY <1>5, <1>6 DEF GroupsOK
<1>8. UsedByRoot(gs) => UsedByRoot(new)
  BY <1>5, <1>6 DEF UsedByRoot, Uses, GroupsOK
<1>9. \A h \in DOMAIN gs : /\ gs[h].members \subseteq new[h].members
                          /\ new[h].members \subseteq gs[h].members \cup {n}
  <2> SUFFICES ASSUME NEW h \in DOMAIN gs
               PROVE  /\ gs[h].members \subseteq new[h].members
                      /\ new[h].members \subseteq gs[h].members \cup {n}
    OBVIOUS
  <2>1. CASE h = g
    BY <1>4, <1>5, <2>1
  <2>2. CASE h # g
    BY <1>5, <2>2
  <2> QED  BY <2>1, <2>2
<1> QED  BY <1>1, <1>4, <1>5, <1>7, <1>8, <1>9 DEF Gains

\* A member of a group that is made for it.
LEMMA IntoGains ==
  ASSUME NEW gs, GroupsOK(gs), NEW g \in STRING, NEW n, NEW new,
         new = WithMember(WithGroup(gs, g), g, n)
  PROVE  Gains(gs, new, {n}) /\ n \in new[g].members
<1>1. PICK mid : mid = WithGroup(gs, g)
  OBVIOUS
<1>2. Enlarged(gs, mid) /\ g \in DOMAIN mid
  BY <1>1, WithGroupEnlarges
<1>3. Gains(gs, mid, {n}) /\ GroupsOK(mid)
  BY <1>2, EnlargedGains, GainsLess DEF Gains
<1>4. Gains(mid, new, {n}) /\ n \in new[g].members
  BY <1>1, <1>2, <1>3, MemberGains
<1> QED  BY <1>3, <1>4, GainsTwice

\* A unit becomes a member of root, and of the group it is defined in.
LEMMA JoinGains ==
  ASSUME GroupsOK(groups), NEW l, IsApplicable(l), l.is = "unit"
  PROVE  Gains(groups, Join(l), {l.name}) /\ l.name \in Join(l)[Root].members
<1>1. PICK mid : mid = WithMember(WithGroup(groups, Root), Root, l.name)
  OBVIOUS
<1>2. Root \in STRING
  BY DEF GroupsOK
<1>3. Gains(groups, mid, {l.name}) /\ l.name \in mid[Root].members
  BY <1>1, <1>2, IntoGains
<1>4. CASE "group" \notin DOMAIN l
  BY <1>1, <1>3, <1>4 DEF Join
<1>5. CASE "group" \in DOMAIN l
  <2>1. PICK new : new = WithMember(WithGroup(mid, l.group), l.group, l.name)
    OBVIOUS
  <2>2. Join(l) = new
    BY <1>1, <1>5, <2>1 DEF Join
  <2>3. l.group \in STRING /\ GroupsOK(mid)
    BY <1>3, <1>5 DEF IsApplicable, Gains
  <2>4. Gains(mid, new, {l.name})
    BY <2>1, <2>3, IntoGains
  <2>5. Root \in DOMAIN mid
    BY <2>3 DEF GroupsOK
  <2> QED  BY <1>3, <2>2, <2>4, <2>5, GainsTwice DEF Gains
<1> QED  BY <1>4, <1>5

\* The using of a group block.
LEMMA BlockGains ==
  ASSUME NEW gs, GroupsOK(gs), NEW g \in STRING, NEW us \in Seq(STRING), NEW new,
         new = [WithGroup(gs, g) EXCEPT ![g].using = @ \o us]
  PROVE  Gains(gs, new, {})
<1>1. PICK mid : mid = WithGroup(gs, g)
  OBVIOUS
<1>2. Gains(gs, mid, {}) /\ GroupsOK(mid) /\ g \in DOMAIN mid
  BY <1>1, WithGroupEnlarges, EnlargedGains DEF Gains
<1>3. PICK u, v, r : u = mid[g].using /\ v = u \o us /\ r = [mid[g] EXCEPT !.using = v]
  OBVIOUS
<1>4. u \in Seq(STRING) /\ DOMAIN mid[g] = {"members", "using"}
  BY <1>2, <1>3 DEF GroupsOK
<1>5. v \in Seq(STRING) /\ ToSet(u) \subseteq ToSet(v)
  BY <1>3, <1>4, Joined
<1>6. DOMAIN r = {"members", "using"} /\ r.using = v /\ r.members = mid[g].members
  BY <1>3, <1>4
<1>7. new = [mid EXCEPT ![g] = r]
  BY <1>1, <1>3
<1>8. DOMAIN new = DOMAIN mid /\ new[g] = r /\ \A h \in DOMAIN mid \ {g} : new[h] = mid[h]
  BY <1>2, <1>7
<1>9. ASSUME NEW h \in DOMAIN mid
      PROVE  /\ DOMAIN new[h] = {"members", "using"} /\ new[h].using \in Seq(STRING)
             /\ ToSet(mid[h].using) \subseteq ToSet(new[h].using)
             /\ new[h].members = mid[h].members
  <2>1. CASE h = g
    BY <1>3, <1>5, <1>6, <1>8, <2>1
  <2>2. CASE h # g
    BY <1>2, <1>8, <2>2 DEF GroupsOK
  <2> QED  BY <2>1, <2>2
<1>10. GroupsOK(new)
  BY <1>2, <1>8, <1>9 DEF GroupsOK
<1>11. UsedByRoot(mid) => UsedByRoot(new)
  BY <1>2, <1>8, <1>9 DEF UsedByRoot, Uses, GroupsOK
<1>12. Gains(mid, new, {})
  BY <1>8, <1>9, <1>10, <1>11 DEF Gains
<1> QED  BY <1>2, <1>12, GainsTwice

\* Units and members that come and none that goes leave the units with root.
LEMMA RootKeepsUnits ==
  ASSUME UnitsOfRoot, NEW S, GroupsOK(groups), Gains(groups, groups', S),
         S \subseteq DOMAIN byName' \cup strays',
         DOMAIN byName \subseteq DOMAIN byName', strays \subseteq strays',
         \A n \in DOMAIN byName' \ DOMAIN byName :
           n \in groups'[Root].members \/ n \in Differences' \cup FullNames
  PROVE  UnitsOfRoot'
<1>1. Root \in DOMAIN groups /\ groups[Root].members \subseteq groups'[Root].members
  BY DEF GroupsOK, Gains
<1>2. UsedByRoot(groups)'
  BY DEF UnitsOfRoot, Gains, UsedByRoot, Uses
<1>3. Differences \subseteq Differences'
  BY DEF Differences
<1>4. DOMAIN byName' \subseteq groups'[Root].members \cup Differences' \cup FullNames
  BY <1>1, <1>3 DEF UnitsOfRoot
<1>5. ASSUME NEW g \in DOMAIN groups', NEW m \in groups'[g].members
      PROVE  m \in DOMAIN byName' \cup strays'
  BY <1>5 DEF Gains, UnitsOfRoot
<1> QED  BY <1>2, <1>4, <1>5 DEF UnitsOfRoot

-----------------------------------------------------------------------------
(* What definitions and calls do to names *)

\* A reading that is no name yet is that of a prefix and a unit that can be defined.
LEMMA CoinedName ==
  ASSUME NamesOK, NEW n, GetName(n) \notin DOMAIN names \cup {Missing}
  PROVE  \E g, p, u : /\ g = GetName(n) /\ g = PrefixedName[<<p, u>>] /\ g \in FullNames
                      /\ g \in DOMAIN Split /\ Split[g] = [prefix |-> p, core |-> u]
                      /\ p \in DOMAIN prefixes /\ p = Split[n].prefix
                      /\ u \in DOMAIN byName /\ u \in Definable \ FullNames
                      /\ names[u] = u /\ byName[u].offset = Zero /\ n \notin DOMAIN names
<1>1. \A k \in DOMAIN names : names[k] \in DOMAIN names
  BY DEF NamesOK
<1>2. n \notin DOMAIN names /\ IsPrefixed(n)
  BY <1>1 DEF GetName
<1>3. PICK p, u : p = Split[n].prefix /\ u = names[Split[n].core]
  OBVIOUS
<1>4. n \in DOMAIN Split /\ p \in DOMAIN prefixes /\ Split[n].core \in DOMAIN names
  BY <1>2, <1>3 DEF IsPrefixed
<1>5. GetName(n) = PrefixedName[<<p, u>>] /\ byName[u].offset = Zero
  BY <1>2, <1>3 DEF GetName
<1>6. Split[n].core \notin FullNames /\ \A v \in Definable \ FullNames : <<p, v>> \in DOMAIN PrefixedName
  BY <1>3, <1>4, ReadingAssumption
<1>7. u \in DOMAIN byName /\ u \in Definable \ FullNames /\ names[u] = u
  BY <1>3, <1>4, <1>6 DEF NamesOK
<1>8. PICK x : x = <<p, u>>
  OBVIOUS
<1>9. x \in DOMAIN PrefixedName /\ x[1] = p /\ x[2] = u
  BY <1>6, <1>7, <1>8
<1>10. PICK g : g = PrefixedName[x]
  OBVIOUS
<1>11. g \in DOMAIN Split /\ Split[g] = [prefix |-> p, core |-> u] /\ g \in FullNames
  BY <1>9, <1>10, ReadingAssumption DEF FullNames
<1> QED  BY <1>2, <1>3, <1>4, <1>5, <1>7, <1>8, <1>10, <1>11

\* What comes when readings enter the registry, and what stays.
Interned(new) ==
  /\ \A g \in new : /\ g \in FullNames /\ g \in DOMAIN Split /\ g \in STRING
                    /\ g \notin DOMAIN names /\ g \notin DOMAIN byName
                    /\ \E p, u : /\ g = PrefixedName[<<p, u>>] /\ Split[g] = [prefix |-> p, core |-> u]
                                 /\ p \in DOMAIN prefixes /\ u \in DOMAIN byName
                                 /\ names[u] = u /\ byName[u].offset = Zero
                                 /\ u \in Definable \ FullNames
  /\ DOMAIN names' = DOMAIN names \cup new /\ DOMAIN byName' = DOMAIN byName \cup new
  /\ \A n \in DOMAIN names : names'[n] = names[n]
  /\ \A n \in DOMAIN byName : byName'[n] = byName[n]
  /\ \A g \in new : names'[g] = g /\ byName'[g] = Synthesized(g)

LEMMA InternBrings ==
  ASSUME NamesOK, NEW ns, Intern(ns)
  PROVE  \E new : /\ new = {GetName(n) : n \in ns} \ (DOMAIN names \cup {Missing})
                  /\ Interned(new)
<1>1. PICK new : new = {GetName(n) : n \in ns} \ (DOMAIN names \cup {Missing})
  OBVIOUS
<1>2. /\ names' = [n \in DOMAIN names \cup new |-> IF n \in new THEN n ELSE names[n]]
      /\ byName' = [n \in DOMAIN byName \cup new |->
                      IF n \in new THEN Synthesized(n) ELSE byName[n]]
  BY <1>1 DEF Intern
<1>3. ASSUME NEW g \in new
      PROVE  /\ g \in FullNames /\ g \in DOMAIN Split /\ g \in STRING
             /\ g \notin DOMAIN names /\ g \notin DOMAIN byName
             /\ \E p, u : /\ g = PrefixedName[<<p, u>>] /\ Split[g] = [prefix |-> p, core |-> u]
                          /\ p \in DOMAIN prefixes /\ u \in DOMAIN byName
                          /\ names[u] = u /\ byName[u].offset = Zero
                          /\ u \in Definable \ FullNames
  <2>1. PICK n \in ns : g = GetName(n) /\ g \notin DOMAIN names \cup {Missing}
    BY <1>1
  <2>2. PICK p, u : /\ g = PrefixedName[<<p, u>>] /\ g \in FullNames
                    /\ g \in DOMAIN Split /\ Split[g] = [prefix |-> p, core |-> u]
                    /\ p \in DOMAIN prefixes
                    /\ u \in DOMAIN byName /\ u \in Definable \ FullNames
                    /\ names[u] = u /\ byName[u].offset = Zero
    BY <2>1, CoinedName
  <2>3. g \in STRING
    BY <2>2, ReadingAssumption
  <2>4. g \notin DOMAIN byName
    BY <2>1 DEF NamesOK
  <2> QED  BY <2>1, <2>2, <2>3, <2>4
<1>4. \A n \in DOMAIN names : names'[n] = names[n]
  BY <1>2, <1>3
<1>5. \A n \in DOMAIN byName : byName'[n] = byName[n]
  BY <1>2, <1>3
<1>6. \A g \in new : names'[g] = g /\ byName'[g] = Synthesized(g)
  BY <1>2
<1>7. Interned(new)
  BY <1>2, <1>3, <1>4, <1>5, <1>6 DEF Interned
<1> QED  BY <1>1, <1>7

\* So names stay right.
LEMMA InternNames ==
  ASSUME NamesOK, NEW ns, Intern(ns), UNCHANGED onRedefinition
  PROVE  NamesOK' /\ DOMAIN byName \subseteq DOMAIN byName'
         /\ DOMAIN byName' \ DOMAIN byName \subseteq FullNames
<1>1. PICK new : Interned(new)
  BY InternBrings
<1> QED  BY <1>1 DEF Interned, NamesOK

\* An alias leads where its name does, and takes no unit's place.
LEMMA AliasNames ==
  ASSUME GroupsInv, ApplyAlias, UNCHANGED onRedefinition
  PROVE  NamesOK'
<1>1. UNCHANGED byName /\ pending # << >> /\ Def.is = "alias" /\ NamesOK
  BY DEF ApplyAlias, Applying, GroupsInv
<1>2. CASE Def.name \notin DOMAIN names
  <2>1. UNCHANGED names
    BY <1>2 DEF ApplyAlias
  <2> QED  BY <1>1, <2>1 DEF NamesOK
<1>3. CASE Def.name \in DOMAIN names
  <2>1. PICK al, d : al = Def.aliases /\ d = Def.name
    OBVIOUS
  <2>2. /\ al \in Seq(STRING) /\ d \notin FullNames
        /\ Policy \subseteq {"raise"} \/ ToSet(al) \cap (Definable \cup FullNames) = {}
    <3>1. IsApplicable(Def)
      BY <1>1, ApplicableNext DEF GroupsInv, Def
    <3> QED  BY <1>1, <2>1, <3>1 DEF IsApplicable
  <2>3. Len(al) \in Nat /\ DOMAIN al = 1..Len(al) /\ \A i \in 1..Len(al) : al[i] \in STRING
    <3>1. PICK T : T = STRING
      OBVIOUS
    <3>2. al \in Seq(T)
      BY <2>2, <3>1
    <3>3. Len(al) \in Nat /\ DOMAIN al = 1..Len(al) /\ \A i \in 1..Len(al) : al[i] \in T
      BY <3>2
    <3> QED  BY <3>1, <3>3
  <2>4. PICK new : new = {al[i] : i \in Aliased}
    OBVIOUS
  <2>5. ASSUME NEW n \in new PROVE n \in STRING /\ n \notin DOMAIN byName
    <3>1. PICK i \in Aliased : n = al[i]
      BY <2>4
    <3>2. i \in DOMAIN al /\ \A j \in 1..i : ~RefuseTaken(al[j], names)
      BY <2>1, <3>1 DEF Aliased
    <3>3. i \in 1..i /\ n \in STRING /\ n \in ToSet(al)
      BY <2>3, <3>1, <3>2 DEF ToSet
    <3>4. CASE onRedefinition = "raise"
      BY <1>1, <3>1, <3>2, <3>3, <3>4 DEF RefuseTaken, NamesOK
    <3>5. CASE onRedefinition # "raise"
      <4>1. ToSet(al) \cap (Definable \cup FullNames) = {}
        BY <1>1, <2>2, <3>5 DEF NamesOK
      <4> QED  BY <1>1, <3>3, <4>1 DEF NamesOK
    <3> QED  BY <3>4, <3>5
  <2>6. names' = [n \in DOMAIN names \cup new |-> names[IF n \in new THEN Def.name ELSE n]]
    BY <1>3, <2>1, <2>4 DEF ApplyAlias
  <2>7. /\ DOMAIN names' = DOMAIN names \cup new
        /\ \A n \in DOMAIN names' : names'[n] = names[IF n \in new THEN d ELSE n]
    BY <2>1, <2>6
  <2>8. d \in DOMAIN names
    BY <1>3, <2>1
  <2> QED  BY <1>1, <2>2, <2>5, <2>7, <2>8 DEF NamesOK
<1> QED  BY <1>2, <1>3

\* A unit and its difference go by their own names.
LEMMA UnitNames ==
  ASSUME NamesOK, ApplyUnit, UNCHANGED onRedefinition
  PROVE  NamesOK'
<1>1. CASE Refused(Def)
  <2>1. UNCHANGED <<names, byName>>
    BY <1>1 DEF ApplyUnit, unitMaps
  <2> QED  BY <2>1 DEF NamesOK
<1>2. CASE ~Refused(Def)
  <2>1. PICK new : new = {Def.name} \cup Deltas(Def)
    OBVIOUS
  <2>2. /\ names' = [n \in DOMAIN names \cup new |-> IF n \in new THEN n ELSE names[n]]
        /\ DOMAIN byName' = DOMAIN byName \cup new
    BY <1>2, <2>1 DEF ApplyUnit
  <2>3. Def.name \in Identifier
    BY <1>2 DEF Refused
  <2>4. \A n \in new : n \in STRING /\ n \in Definable
    BY <2>1, <2>3, TextAssumption DEF Deltas, Definable
  <2> QED  BY <2>2, <2>4 DEF NamesOK
<1> QED  BY <1>1, <1>2

-----------------------------------------------------------------------------
(* The invariant *)

\* The root group is there from the start, and the default file can be applied.
LEMMA GroupsInvInit == Init => GroupsInv
<1> SUFFICES ASSUME Init PROVE GroupsInv
  OBVIOUS
<1>1. PICK e : e = EmptyGroup
  OBVIOUS
<1>2. DOMAIN e = {"members", "using"} /\ e.using = << >> /\ e.members = {}
  BY <1>1 DEF EmptyGroup
<1>3. DOMAIN groups = {Root} /\ groups[Root] = e
  BY <1>1 DEF Init
<1>4. << >> \in Seq(STRING) /\ Root \in STRING
  <2>1. << >> \in Seq(STRING)
    BY EmptyIn
  <2>2. Root \in STRING
    BY TextAssumption
  <2> QED  BY <2>1, <2>2
<1>5. GroupsOK(groups)
  BY <1>2, <1>3, <1>4, FS_Singleton DEF GroupsOK
<1>6. DOMAIN byName = {}
  BY DEF Init, Empty
<1>7. UnitsOfRoot
  BY <1>2, <1>3, <1>6 DEF UnitsOfRoot, UsedByRoot
<1>8. Applicable(pending)
  <2>1. PICK d : d = Embedded["default"]
    OBVIOUS
  <2>2. LineSeq(d)
    BY <2>1, TextAssumption DEF LineSeq
  <2>3. CASE pending = << >>
    BY <2>3, NothingApplicable
  <2>4. CASE pending = Parsed(Embedded["default"]).out
    BY <2>1, <2>2, <2>4, ParsedApplicable
  <2> QED  BY <2>3, <2>4 DEF Init
<1>9. ParsedTyped(parsed) /\ calls \in Nat
  BY NoTextTyped DEF Init
<1>10. NamesOK /\ strays \subseteq STRING
  BY <1>6 DEF Init, Empty, NamesOK
<1> QED  BY <1>5, <1>7, <1>8, <1>9, <1>10 DEF GroupsInv

\* What does not touch groups, units or strays leaves the units with root.
LEMMA GroupsStay ==
  ASSUME GroupsInv, UNCHANGED <<groups, byName, strays>>, calls' \in Nat,
         Applicable(pending'), ParsedTyped(parsed'), NamesOK'
  PROVE  GroupsInv'
<1>1. UnitsOfRoot'
  BY DEF GroupsInv, UnitsOfRoot, Differences
<1>2. GroupsOK(groups)'
  BY DEF GroupsInv
<1> QED  BY <1>1, <1>2 DEF GroupsInv

\* Groups gain nothing but units that come, and names that become strays.
LEMMA GroupsGain ==
  ASSUME GroupsInv, NEW S, Gains(groups, groups', S),
         S \subseteq DOMAIN byName' \cup strays',
         DOMAIN byName \subseteq DOMAIN byName', strays \subseteq strays',
         \A n \in DOMAIN byName' \ DOMAIN byName :
           n \in groups'[Root].members \/ n \in Differences' \cup FullNames,
         strays' \subseteq STRING,
         calls' \in Nat, Applicable(pending'), ParsedTyped(parsed'), NamesOK'
  PROVE  GroupsInv'
<1>1. GroupsOK(groups) /\ UnitsOfRoot
  BY DEF GroupsInv
<1>2. UnitsOfRoot'
  BY <1>1, RootKeepsUnits
<1>3. GroupsOK(groups)'
  BY DEF Gains
<1> QED  BY <1>2, <1>3 DEF GroupsInv

\* What only interns leaves the units with root, for they have a prefix.
LEMMA GroupsIntern ==
  ASSUME GroupsInv, NEW ns, Intern(ns), UNCHANGED <<onRedefinition, groups, strays>>,
         calls' \in Nat, Applicable(pending'), ParsedTyped(parsed')
  PROVE  GroupsInv'
<1>1. GroupsOK(groups) /\ strays \subseteq STRING /\ NamesOK
  BY DEF GroupsInv
<1>2. NamesOK' /\ DOMAIN byName \subseteq DOMAIN byName'
      /\ DOMAIN byName' \ DOMAIN byName \subseteq FullNames
  BY <1>1, InternNames
<1>3. Gains(groups, groups', {})
  BY <1>1 DEF Gains
<1> QED  BY <1>1, <1>2, <1>3, GroupsGain

\* Names and units that stay are right.
LEMMA NamesStay == NamesOK /\ UNCHANGED <<onRedefinition, names, byName>> => NamesOK'
BY DEF NamesOK

\* What is left to apply when a definition is applied or refused.
LEMMA RestApplicable ==
  ASSUME GroupsInv, pending # << >>, Applied \/ Abandon \/ Crash
  PROVE  Applicable(pending')
<1>1. Applicable(pending)
  BY DEF GroupsInv
<1>2. CASE Applied
  BY <1>1, <1>2, ApplicableNext DEF Applied
<1>3. CASE Abandon \/ Crash
  BY <1>3, NothingApplicable DEF Abandon, Crash
<1> QED  BY <1>2, <1>3

\* The steps that read a text.
LEMMA ReadingKeepsGroups ==
  ASSUME GroupsInv, UNCHANGED onRedefinition,
         StartLoad \/ EndOfText \/ LoadDone \/ \E l \in Line : Read(l) \/ Define(l)
  PROVE  GroupsInv'
<1>1. calls \in Nat /\ Applicable(pending) /\ ParsedTyped(parsed) /\ NamesOK
  BY DEF GroupsInv
<1>2. ASSUME UNCHANGED registry PROVE NamesOK' /\ UNCHANGED <<groups, byName>>
  BY <1>1, <1>2, NamesStay DEF registry, unitMaps, blocks
<1>3. CASE StartLoad
  <2>1. UNCHANGED <<registry, pending, strays, calls>> /\ parsed' = NoText
    BY <1>3 DEF StartLoad
  <2> QED  BY <1>1, <1>2, <2>1, GroupsStay, NoTextTyped
<1>4. CASE EndOfText
  <2>1. Applicable(pending')
    <3>1. Applicable(Flush(parsed).out)
      BY <1>1, FlushTyped DEF ParsedTyped
    <3> QED  BY <1>1, <1>4, <3>1 DEF EndOfText
  <2>2. UNCHANGED <<registry, strays, calls>> /\ parsed' = NoText
    BY <1>4 DEF EndOfText
  <2> QED  BY <1>1, <1>2, <2>1, <2>2, GroupsStay, NoTextTyped
<1>5. CASE LoadDone
  <2>1. UNCHANGED <<registry, pending, parsed, strays, calls>>
    BY <1>5 DEF LoadDone, session
  <2> QED  BY <1>1, <1>2, <2>1, GroupsStay
<1>6. ASSUME NEW l \in Line, Read(l) PROVE GroupsInv'
  <2>1. ParsedTyped(parsed')
    BY <1>1, <1>6, TextAssumption, ReadLineTyped DEF Read
  <2>2. UNCHANGED <<registry, pending, strays, calls>>
    BY <1>6 DEF Read
  <2> QED  BY <1>1, <1>2, <2>1, <2>2, GroupsStay
<1>7. ASSUME NEW l \in Line, Define(l) PROVE GroupsInv'
  <2>1. Applicable(pending')
    BY <1>7, TextAssumption, DefinitionApplicable, ApplicableFew DEF Define
  <2>2. UNCHANGED <<registry, parsed, strays, calls>>
    BY <1>7 DEF Define
  <2> QED  BY <1>1, <1>2, <2>1, <2>2, GroupsStay
<1> QED  BY <1>3, <1>4, <1>5, <1>6, <1>7

\* Definitions that are about neither units nor groups.
LEMMA OthersKeepGroups ==
  ASSUME GroupsInv, UNCHANGED onRedefinition,
         \/ ApplyImport \/ ApplyDefaults \/ ApplyPrefix \/ ApplyDimension \/ ApplyDerived
         \/ ApplyAlias \/ ApplySystem \/ ApplyContext
  PROVE  GroupsInv'
<1>1. calls \in Nat /\ Applicable(pending) /\ ParsedTyped(parsed) /\ NamesOK
  BY DEF GroupsInv
<1>2. CASE ApplyImport
  <2>1. pending # << >>
    BY <1>2 DEF ApplyImport, Applying
  <2>2. UNCHANGED <<names, byName, groups, parsed, strays, calls>>
    BY <1>2 DEF ApplyImport, registry, unitMaps, blocks, session
  <2>3. Applicable(pending')
    <3>1. CASE Def.file \in DOMAIN Embedded
      <4>1. LineSeq(Embedded[Def.file])
        BY <3>1, TextAssumption DEF LineSeq
      <4>2. Applicable(Parsed(Embedded[Def.file]).out) /\ Applicable(Tail(pending))
        BY <1>1, <2>1, <4>1, ParsedApplicable, ApplicableNext
      <4> QED  BY <1>2, <3>1, <4>2, ApplicableBefore DEF ApplyImport
    <3>2. CASE Def.file \notin DOMAIN Embedded
      BY <1>2, <2>1, <3>2, RestApplicable DEF ApplyImport
    <3> QED  BY <3>1, <3>2
  <2> QED  BY <1>1, <2>2, <2>3, GroupsStay, NamesStay
<1>3. ASSUME pending # << >>, Applied \/ Abandon \/ Crash, UNCHANGED <<groups, byName, session>>,
             NamesOK'
      PROVE  GroupsInv'
  BY <1>1, <1>3, RestApplicable, GroupsStay DEF session
<1>4. ASSUME UNCHANGED <<names, byName>> PROVE NamesOK'
  BY <1>1, <1>4, NamesStay
<1>5. CASE ApplyDefaults
  BY <1>3, <1>4, <1>5 DEF ApplyDefaults, Applying, unitMaps, blocks
<1>6. CASE ApplyPrefix
  BY <1>3, <1>4, <1>6 DEF ApplyPrefix, Applying, unitMaps, blocks
<1>7. CASE ApplyDimension
  BY <1>3, <1>4, <1>7 DEF ApplyDimension, AddDimension, Applying, unitMaps, blocks
<1>8. CASE ApplyDerived
  BY <1>3, <1>4, <1>8 DEF ApplyDerived, AddDimension, Applying, unitMaps, blocks
<1>9. CASE ApplyAlias
  <2>1. NamesOK'
    BY <1>9, AliasNames
  <2> QED  BY <1>3, <1>9, <2>1 DEF ApplyAlias, Applying, blocks
<1>10. CASE ApplySystem
  BY <1>3, <1>4, <1>10 DEF ApplySystem, Applying, unitMaps, blocks
<1>11. CASE ApplyContext
  <2>1. pending # << >> /\ (Applied \/ Abandon \/ Crash)
    BY <1>11 DEF ApplyContext, Applying
  <2>2. UNCHANGED <<groups, session>> /\ \E ns : Intern(ns)
    BY <1>11, Zenon DEF ApplyContext
  <2>3. Applicable(pending')
    BY <2>1, RestApplicable
  <2>4. UNCHANGED <<parsed, strays, calls>>
    BY <2>2 DEF session
  <2> QED  BY <1>1, <2>2, <2>3, <2>4, GroupsIntern
<1> QED  BY <1>2, <1>5, <1>6, <1>7, <1>8, <1>9, <1>10, <1>11

\* A unit joins root, and its difference comes with it.
LEMMA UnitsKeepGroups ==
  ASSUME GroupsInv, ApplyUnit, UNCHANGED onRedefinition
  PROVE  GroupsInv'
<1>1. /\ calls \in Nat /\ Applicable(pending) /\ ParsedTyped(parsed) /\ strays \subseteq STRING
      /\ GroupsOK(groups) /\ NamesOK /\ pending # << >> /\ Def.is = "unit"
  BY DEF GroupsInv, ApplyUnit, Applying
<1>2. IsApplicable(Def)
  BY <1>1, ApplicableNext DEF Def
<1>3. calls' \in Nat /\ ParsedTyped(parsed') /\ strays' = strays /\ NamesOK'
  BY <1>1, UnitNames DEF ApplyUnit, session
<1>4. CASE Refused(Def)
  <2>1. Applicable(pending') /\ UNCHANGED <<groups, byName>>
    BY <1>1, <1>4, RestApplicable DEF ApplyUnit, unitMaps
  <2> QED  BY <1>3, <2>1, GroupsStay
<1>5. CASE ~Refused(Def)
  <2>1. PICK new : new = {Def.name} \cup Deltas(Def)
    OBVIOUS
  <2>2. DOMAIN byName' = DOMAIN byName \cup new /\ groups' = Join(Def) /\ Applied
    BY <1>5, <2>1 DEF ApplyUnit
  <2>3. Applicable(pending')
    BY <1>1, <2>2, RestApplicable
  <2>4. Gains(groups, groups', {Def.name}) /\ Def.name \in groups'[Root].members
    BY <1>1, <1>2, <2>2, JoinGains
  <2>5. Def.name \in DOMAIN byName' \cap Identifier /\ DOMAIN byName \subseteq DOMAIN byName'
    BY <1>5, <2>1, <2>2 DEF Refused
  <2>6. ASSUME NEW n \in DOMAIN byName' \ DOMAIN byName
        PROVE  n \in groups'[Root].members \/ n \in Differences' \cup FullNames
    <3>1. CASE n = Def.name
      BY <2>4, <3>1
    <3>2. CASE n # Def.name
      <4>1. n \in Deltas(Def)
        BY <2>1, <2>2, <3>2
      <4>2. n = DeltaName[Def.name]
        BY <4>1 DEF Deltas
      <4> QED  BY <2>5, <4>2 DEF Differences
    <3> QED  BY <3>1, <3>2
  <2> QED  BY <1>1, <1>3, <2>3, <2>4, <2>5, <2>6, GroupsGain
<1> QED  BY <1>4, <1>5

\* A group block, calls of the handles of groups, and questions.
LEMMA HandlesKeepGroups ==
  ASSUME GroupsInv, UNCHANGED onRedefinition, ApplyGroup \/ Asking \/ Grouping
  PROVE  GroupsInv'
<1>0. calls \in Nat /\ calls + 1 \in Nat
  <2>1. calls \in Nat
    BY DEF GroupsInv
  <2> QED  BY <2>1
<1>1. /\ calls \in Nat /\ calls + 1 \in Nat /\ Applicable(pending) /\ ParsedTyped(parsed)
      /\ GroupsOK(groups) /\ strays \subseteq STRING /\ NamesOK
  BY <1>0 DEF GroupsInv
<1>2. ASSUME UNCHANGED unitMaps PROVE NamesOK' /\ UNCHANGED byName
  BY <1>1, <1>2, NamesStay DEF unitMaps
<1>3. CASE ApplyGroup
  <2>1. pending # << >> /\ Def.is = "group"
    BY <1>3 DEF ApplyGroup, Applying
  <2>2. IsApplicable(Def) /\ Applicable(Tail(pending))
    BY <1>1, <2>1, ApplicableNext DEF Def
  <2>3. Def.name \in STRING /\ Def.using \in Seq(STRING) /\ UnitSeq(Def.members)
    BY <2>1, <2>2 DEF IsApplicable
  <2>4. Gains(groups, groups', {})
    BY <1>1, <1>3, <2>3, BlockGains DEF ApplyGroup
  <2>5. Applicable(pending')
    <3>1. PICK s : s = [i \in DOMAIN Def.members |-> Put(Def.members[i], "group", Def.name)]
      OBVIOUS
    <3>2. Applicable(s)
      BY <2>3, <3>1, MembersApplicable
    <3>3. pending' = s \o Tail(pending)
      BY <1>3, <3>1 DEF ApplyGroup
    <3> QED  BY <2>2, <3>2, <3>3, ApplicableBefore
  <2>6. UNCHANGED <<unitMaps, strays, calls, parsed>>
    BY <1>3 DEF ApplyGroup, session
  <2> QED  BY <1>1, <1>2, <2>4, <2>5, <2>6, GroupsGain
<1>4. CASE Asking
  <2>1. PICK ns, us, vs, pairs : Looked(ns, us, vs, pairs)
    BY <1>4, AskingLooks
  <2>2. \E read : Intern(read)
    BY <2>1, Zenon DEF Looked
  <2>3. UNCHANGED <<groups, strays, pending, parsed>>
    BY <2>1 DEF Looked, blocks
  <2>4. calls' \in Nat
    BY <1>1, <1>4, AskingLooks DEF Call
  <2> QED  BY <1>1, <2>2, <2>3, <2>4, GroupsIntern
<1>5. ASSUME NEW ns \in Inclusion, NewGroup(Head(ns)) PROVE GroupsInv'
  <2>1. Head(ns) \in STRING
    BY TextAssumption, FirstAndRest
  <2>2. Gains(groups, groups', {})
    BY <1>1, <1>5, <2>1, WithGroupEnlarges, EnlargedGains DEF NewGroup
  <2>3. UNCHANGED <<unitMaps, strays, pending, parsed>> /\ calls' = calls + 1
    BY <1>5 DEF NewGroup, Call
  <2> QED  BY <1>1, <1>2, <2>2, <2>3, GroupsGain
<1>6. ASSUME NEW g \in DOMAIN groups, NEW n \in Stray, AddUnits(g, n) PROVE GroupsInv'
  <2>1. Gains(groups, groups', {n})
    BY <1>1, <1>6, MemberGains DEF AddUnits
  <2>2. UNCHANGED <<unitMaps, pending, parsed>> /\ strays' = strays \cup {n} /\ calls' = calls + 1
    BY <1>6 DEF AddUnits, Call
  <2>3. n \in STRING
    BY TextAssumption
  <2> QED  BY <1>1, <1>2, <2>1, <2>2, <2>3, GroupsGain
<1>7. ASSUME NEW g \in DOMAIN groups, NEW ns \in Inclusion, AddGroups(g, ns) PROVE GroupsInv'
  <2>1. ns \in Seq(STRING)
    BY TextAssumption
  <2>2. Gains(groups, groups', {})
    BY <1>1, <1>7, <2>1, AddGroupsEnlarges, EnlargedGains DEF AddGroups
  <2>3. UNCHANGED <<unitMaps, strays, pending, parsed>> /\ calls' = calls + 1
    BY <1>7 DEF AddGroups, Call
  <2> QED  BY <1>1, <1>2, <2>2, <2>3, GroupsGain
<1> QED  BY <1>3, <1>4, <1>5, <1>6, <1>7 DEF Grouping

\* Every step keeps it.
LEMMA GroupsInvNext == GroupsInv /\ [Next]_vars => GroupsInv'
<1> SUFFICES ASSUME GroupsInv, [Next]_vars PROVE GroupsInv'
  OBVIOUS
<1>1. CASE UNCHANGED vars
  <2>1. UNCHANGED <<onRedefinition, names, byName, groups, strays, calls, pending, parsed>>
    BY <1>1 DEF vars, registry, unitMaps, blocks, session
  <2> QED  BY <2>1, GroupsStay, NamesStay DEF GroupsInv
<1>2. CASE Next
  <2>1. UNCHANGED onRedefinition /\ (Loading \/ Grouping \/ Asking)
    BY <1>2 DEF Next
  <2> QED  BY <2>1, ReadingKeepsGroups, OthersKeepGroups, UnitsKeepGroups, HandlesKeepGroups
           DEF Loading, Grouping, Apply
<1> QED  BY <1>1, <1>2

\* The invariant always holds.
THEOREM GroupsStayWhole == Spec => []GroupsInv
<1>1. Init => GroupsInv
  BY GroupsInvInit
<1>2. GroupsInv /\ [Next]_vars => GroupsInv'
  BY GroupsInvNext
<1> QED  BY <1>1, <1>2, PTL DEF Spec

-----------------------------------------------------------------------------
(* What is found in groups *)

\* The members found are those of the groups that are included.
LEMMA ExpandedFinds ==
  ASSUME NEW gs, GroupsOK(gs), NEW g \in DOMAIN gs
  PROVE  Expanded(gs, g) = UNION {gs[h].members : h \in {k \in DOMAIN gs : Includes(gs, g, k)}}
<1>1. g \in STRING
  BY DEF GroupsOK
<1>2. Reached(gs, g) = {k \in DOMAIN gs : Includes(gs, g, k)}
  BY <1>1, ReachedIncluded
<1> QED  BY <1>2 DEF Expanded

\* Nothing is found in a group that root does not find.
LEMMA RootFindsAll ==
  ASSUME NEW gs, GroupsOK(gs), UsedByRoot(gs), NEW g \in DOMAIN gs
  PROVE  Expanded(gs, g) \subseteq Expanded(gs, Root) /\ gs[g].members \subseteq Expanded(gs, Root)
<1>1. Root \in DOMAIN gs
  BY DEF GroupsOK
<1>2. Includes(gs, Root, g)
  BY DEF UsedByRoot, Uses, Includes, Closed
<1>3. \A h \in DOMAIN gs : Includes(gs, g, h) => Includes(gs, Root, h)
  BY <1>2 DEF Includes
<1>4. /\ Expanded(gs, g) = UNION {gs[h].members : h \in {k \in DOMAIN gs : Includes(gs, g, k)}}
      /\ Expanded(gs, Root) = UNION {gs[h].members : h \in {k \in DOMAIN gs : Includes(gs, Root, k)}}
  BY <1>1, ExpandedFinds
<1> QED  BY <1>2, <1>3, <1>4

\* Root has the compatible units that there are, but for differences, and those of every
\* group and system.
LEMMA RootHasUnits == GroupsInv => RootCoversRegistry
<1> SUFFICES ASSUME GroupsInv, NEW n \in DOMAIN byName
             PROVE  LET all == CompatibleUnits(n, Missing)
                        root == CompatibleUnits(n, Root)
                    IN  /\ all \subseteq root \cup {DeltaName[m] : m \in DOMAIN byName \cap Identifier}
                                          \cup FullNames
                        /\ \A where \in (DOMAIN groups \cup DOMAIN systems) \ {Missing} :
                             CompatibleUnits(n, where) \subseteq root \cap (all \cup strays)
  BY DEF RootCoversRegistry
<1> DEFINE all == CompatibleUnits(n, Missing)
           root == CompatibleUnits(n, Root)
           dim == DimensionOfName(ParseUnits(n))
           compatible(S) == {m \in S : dim.end = "answered" /\ DimensionOfName(m) = dim}
<1>1. GroupsOK(groups) /\ UnitsOfRoot /\ Root \in DOMAIN groups /\ UsedByRoot(groups)
  BY DEF GroupsInv, GroupsOK, UnitsOfRoot
<1>2. PICK found : found = Expanded(groups, Root)
  OBVIOUS
<1>3. all = compatible(DOMAIN byName) /\ root = compatible(found)
  <2>1. Root # Missing
    BY DEF Root, Missing
  <2>2. Pool(Missing) = DOMAIN byName /\ Pool(Root) = found
    BY <1>1, <1>2, <2>1 DEF Pool
  <2> QED  BY <2>2 DEF CompatibleUnits
<1>4. \A g \in DOMAIN groups : Expanded(groups, g) \subseteq found /\ groups[g].members \subseteq found
  BY <1>1, <1>2, RootFindsAll
<1>5. all \subseteq root \cup Differences \cup FullNames
  BY <1>1, <1>3, <1>4 DEF UnitsOfRoot
<1>6. found \subseteq DOMAIN byName \cup strays
  BY <1>1, <1>2, ExpandedFinds DEF UnitsOfRoot
<1>7. ASSUME NEW where \in (DOMAIN groups \cup DOMAIN systems) \ {Missing}
      PROVE  CompatibleUnits(n, where) \subseteq root \cap (all \cup strays)
  <2>1. Pool(where) \subseteq found
    <3>1. CASE where \in DOMAIN groups
      BY <1>4, <3>1 DEF Pool
    <3>2. CASE where \notin DOMAIN groups
      <4>1. PICK G : G = IF systems[where].using = << >> THEN {Root}
                         ELSE ToSet(systems[where].using) \cap DOMAIN groups
        OBVIOUS
      <4>2. G \subseteq DOMAIN groups
        BY <1>1, <4>1
      <4>3. Pool(where) = UNION {Expanded(groups, g) : g \in G}
        BY <3>2, <4>1 DEF Pool
      <4> QED  BY <1>4, <4>2, <4>3
    <3> QED  BY <3>1, <3>2
  <2>2. CompatibleUnits(n, where) = compatible(Pool(where))
    BY DEF CompatibleUnits
  <2> QED  BY <1>3, <1>6, <2>1, <2>2
<1> QED  BY <1>5, <1>7 DEF Differences

\* Whatever texts and calls have made of groups, the members that Expanded finds are those
\* of the groups that are included, at any distance: the depth-first walk ends and misses
\* none, circles and missing groups or not.
THEOREM ExpandedAlwaysFinds == Spec => []ExpandedIsInclusion
<1>1. GroupsInv => ExpandedIsInclusion
  BY ExpandedFinds DEF GroupsInv, ExpandedIsInclusion
<1> QED  BY <1>1, GroupsStayWhole, PTL

\* Whatever was loaded and asked, CompatibleUnits finds every unit in root but differences
\* of units and prefixed units, and in no group or system a unit that root has not.
THEOREM RootAlwaysCovers == Spec => []RootCoversRegistry
BY RootHasUnits, GroupsStayWhole, PTL

\* A call of AddGroups closes no circle, whatever texts have made of groups before and
\* wherever it stops.
THEOREM CallsCloseNoCircle == Spec => AddGroupsAcyclic
<1> DEFINE NoCircle ==
             calls' > calls =>
               \A g \in DOMAIN groups :
                 \A i \in Len(groups[g].using) + 1 .. Len(groups'[g].using) :
                   ~Includes(groups', groups'[g].using[i], g)
<1>1. Enlarged(groups, groups') => NoCircle
  BY DEF Enlarged, Acyclic, Added
<1>2. ASSUME GroupsInv, [Next]_vars PROVE NoCircle
  <2>1. calls \in Nat /\ GroupsOK(groups)
    BY <1>2 DEF GroupsInv
  <2>2. ASSUME calls' = calls PROVE NoCircle
    BY <2>1, <2>2
  <2>3. ASSUME \A h \in DOMAIN groups : groups'[h].using = groups[h].using PROVE NoCircle
    <3>1. ASSUME NEW h \in DOMAIN groups PROVE Len(groups[h].using) + 1 .. Len(groups'[h].using) = {}
      <4>1. PICK m : m = Len(groups[h].using)
        OBVIOUS
      <4>2. m \in Nat /\ Len(groups'[h].using) = m
        BY <2>1, <2>3, <4>1 DEF GroupsOK
      <4>3. m + 1 .. m = {}
        BY <4>2
      <4> QED  BY <4>1, <4>2, <4>3
    <3> QED  BY <3>1
  <2>4. CASE UNCHANGED vars \/ Loading
    <3>1. calls' = calls
      <4>1. CASE UNCHANGED vars
        BY <4>1 DEF vars, session
      <4>2. CASE StartLoad \/ EndOfText \/ \E l \in Line : Read(l) \/ Define(l)
        BY <4>2 DEF StartLoad, EndOfText, Read, Define
      <4>3. CASE Apply
        <5>1. UNCHANGED session
          BY <4>3 DEF Apply, ApplyImport, ApplyDefaults, ApplyPrefix, ApplyDimension, ApplyDerived,
                      ApplyAlias, ApplyUnit, ApplyGroup, ApplySystem, ApplyContext, LoadDone
        <5> QED  BY <5>1 DEF session
      <4> QED  BY <2>4, <4>1, <4>2, <4>3 DEF Loading
    <3> QED  BY <2>2, <3>1
  <2>5. CASE Asking
    <3>1. UNCHANGED groups
      BY <2>5, AskingLooks DEF Looked, blocks
    <3> QED  BY <2>3, <3>1
  <2>6. ASSUME NEW ns \in Inclusion, NewGroup(Head(ns)) PROVE NoCircle
    <3>1. Head(ns) \in STRING
      BY TextAssumption, FirstAndRest
    <3> QED  BY <1>1, <2>1, <2>6, <3>1, WithGroupEnlarges DEF NewGroup
  <2>7. ASSUME NEW g \in DOMAIN groups, NEW n \in Stray, AddUnits(g, n) PROVE NoCircle
    <3>1. groups' = [groups EXCEPT ![g] = [groups[g] EXCEPT !.members = @ \cup {n}]]
      BY <2>7 DEF AddUnits, WithMember
    <3>2. DOMAIN groups[g] = {"members", "using"}
      BY <2>1 DEF GroupsOK
    <3>3. PICK r : r = [groups[g] EXCEPT !.members = @ \cup {n}]
      OBVIOUS
    <3>4. r.using = groups[g].using
      BY <3>2, <3>3
    <3>5. \A h \in DOMAIN groups : groups'[h].using = groups[h].using
      BY <3>1, <3>3, <3>4
    <3> QED  BY <2>3, <3>5
  <2>8. ASSUME NEW g \in DOMAIN groups, NEW ns \in Inclusion, AddGroups(g, ns) PROVE NoCircle
    BY <1>1, <2>1, <2>8, TextAssumption, AddGroupsEnlarges DEF AddGroups
  <2> HIDE DEF NoCircle
  <2> QED  BY <1>2, <2>4, <2>5, <2>6, <2>7, <2>8 DEF Next, Grouping
<1>3. GroupsInv /\ [Next]_vars => [NoCircle]_vars
  BY <1>2
<1> HIDE DEF NoCircle
<1>4. Spec => [][NoCircle]_vars
  BY <1>3, GroupsStayWhole, PTL DEF Spec
<1> QED  BY <1>4 DEF NoCircle, AddGroupsAcyclic
=============================================================================
