------------------------- MODULE ReferenceWalkProofs -------------------------
(***************************************************************************)
(* What following the references of loaded definitions comes to, whatever  *)
(* texts have been loaded, failed or half applied, and however deep the    *)
(* process can recurse: a name is reduced to root units exactly when all   *)
(* its chains of references end, what the caches hold is what a registry   *)
(* that remembers nothing would answer, and one that raises on             *)
(* redefinition keeps the dimensions that it has learned from definitions. *)
(*                                                                         *)
(* Follow is a recursion over walks, of which there are infinitely many.   *)
(* A walk comes by those (Comes) that are in every set that no turn leads  *)
(* out of; it is shown to come by one where it stops, by induction over    *)
(* how many names the stack still holds and, for those of one depth, over  *)
(* the items to visit (Settles).  What every walk on the way keeps then    *)
(* holds of the answer, and entries that are added change none of it.      *)
(*                                                                         *)
(* The invariant has what every map of the registry and every cache holds  *)
(* (LoadingInv) and what the answers that were remembered are worth        *)
(* (FreshInv).  Units that come into the registry because they were asked  *)
(* about are read as they were before (ReadingsStay).                      *)
(***************************************************************************)
EXTENDS DefinitionLoadingProofs

-----------------------------------------------------------------------------
(* Numbers *)

\* The recursion of Euclid, with second numbers up to b.
EuclidTurn(f, p) == IF p[2] = 0 THEN p[1] ELSE f[<<p[2], p[1] % p[2]>>]
IsEuclid(f, b) == f = [p \in Nat \X (0..b) |-> EuclidTurn(f, p)]

\* It exists as a function.
LEMMA EuclidTurns == \A b \in Nat : \E f : IsEuclid(f, b)
<1> DEFINE Good == {b \in Nat : \E f : IsEuclid(f, b)}
<1>1. 0 \in Good
  <2>1. IsEuclid([p \in Nat \X (0..0) |-> p[1]], 0)
    BY DEF IsEuclid, EuclidTurn
  <2> QED  BY <2>1
<1>2. ASSUME NEW m \in Nat, m \in Good PROVE m + 1 \in Good
  <2>1. PICK f : IsEuclid(f, m)
    BY <1>2
  <2> DEFINE h == [p \in Nat \X (0..(m + 1)) |->
                     IF p[2] = m + 1 THEN f[<<p[2], p[1] % p[2]>>] ELSE f[p]]
  <2>2. \A p \in Nat \X (0..m) : f[p] = EuclidTurn(f, p)
    BY <2>1 DEF IsEuclid
  <2>3. \A p \in Nat \X (0..m) : h[p] = f[p]
    <3> SUFFICES ASSUME NEW a \in Nat, NEW c \in 0..m PROVE h[<<a, c>>] = f[<<a, c>>]
      OBVIOUS
    <3>1. <<a, c>> \in Nat \X (0..(m + 1)) /\ c # m + 1
      OBVIOUS
    <3> QED  BY <3>1
  <2>4. \A p \in Nat \X (0..(m + 1)) : h[p] = EuclidTurn(h, p)
    <3> SUFFICES ASSUME NEW p \in Nat \X (0..(m + 1)) PROVE h[p] = EuclidTurn(h, p)
      OBVIOUS
    <3>0. PICK a \in Nat, c \in 0..(m + 1) : p = <<a, c>>
      OBVIOUS
    <3>1. c # 0 => a % c \in 0..(c - 1) /\ c \in Nat
      OBVIOUS
    <3>2. c # 0 => <<c, a % c>> \in Nat \X (0..m)
      BY <3>1
    <3>3. CASE c = m + 1
      <4>1. h[<<a, c>>] = f[<<c, a % c>>]
        BY <3>0, <3>3
      <4>2. h[<<c, a % c>>] = f[<<c, a % c>>]
        BY <2>3, <3>2, <3>3
      <4> HIDE DEF h
      <4> QED  BY <3>0, <3>3, <4>1, <4>2 DEF EuclidTurn
    <3>4. CASE c # m + 1
      <4>1. <<a, c>> \in Nat \X (0..m)
        BY <3>4
      <4>2. h[<<a, c>>] = f[<<a, c>>] /\ f[<<a, c>>] = EuclidTurn(f, <<a, c>>)
        BY <2>2, <2>3, <4>1
      <4>3. c # 0 => h[<<c, a % c>>] = f[<<c, a % c>>]
        BY <2>3, <3>2
      <4> HIDE DEF h
      <4> QED  BY <3>0, <4>2, <4>3 DEF EuclidTurn
    <3> QED  BY <3>0, <3>3, <3>4
  <2>5. IsEuclid(h, m + 1)
    BY <2>4 DEF IsEuclid
  <2> HIDE DEF h
  <2>6. \E g : IsEuclid(g, m + 1)
    BY <2>5
  <2> QED  BY <2>6
<1> HIDE DEF Good
<1>3. \A b \in Nat : b \in Good
  BY <1>1, <1>2, NumberInduction
<1> QED  BY <1>3 DEF Good

\* There is one.
LEMMA EuclidAgrees ==
  ASSUME NEW b \in Nat, NEW c \in Nat, NEW f, NEW h, IsEuclid(f, b), IsEuclid(h, c)
  PROVE  \A d \in Nat : d <= b /\ d <= c => \A a \in Nat : f[<<a, d>>] = h[<<a, d>>]
<1>1. \A p \in Nat \X (0..b) : f[p] = EuclidTurn(f, p)
  BY DEF IsEuclid
<1>2. \A p \in Nat \X (0..c) : h[p] = EuclidTurn(h, p)
  BY DEF IsEuclid
<1> DEFINE Good == {m \in Nat : \A d \in 0..m : d <= b /\ d <= c =>
                                  \A a \in Nat : f[<<a, d>>] = h[<<a, d>>]}
<1>3. \A d \in Nat : d <= b /\ d <= c => \A a \in Nat :
        /\ f[<<a, d>>] = IF d = 0 THEN a ELSE f[<<d, a % d>>]
        /\ h[<<a, d>>] = IF d = 0 THEN a ELSE h[<<d, a % d>>]
  <2> SUFFICES ASSUME NEW d \in Nat, d <= b, d <= c, NEW a \in Nat
               PROVE  /\ f[<<a, d>>] = IF d = 0 THEN a ELSE f[<<d, a % d>>]
                      /\ h[<<a, d>>] = IF d = 0 THEN a ELSE h[<<d, a % d>>]
    OBVIOUS
  <2>1. <<a, d>> \in Nat \X (0..b) /\ <<a, d>> \in Nat \X (0..c)
    OBVIOUS
  <2> QED  BY <1>1, <1>2, <2>1 DEF EuclidTurn
<1>4. 0 \in Good
  <2>1. \A d \in 0..0 : d = 0
    OBVIOUS
  <2>2. 0 <= b /\ 0 <= c
    OBVIOUS
  <2>3. \A a \in Nat : f[<<a, 0>>] = a /\ h[<<a, 0>>] = a
    <3> HIDE DEF Good
    <3> QED  BY <1>3, <2>2
  <2>4. \A d \in 0..0 : \A a \in Nat : f[<<a, d>>] = h[<<a, d>>]
    <3> HIDE DEF Good
    <3> QED  BY <2>1, <2>3
  <2> QED  BY <2>4
<1>5. ASSUME NEW m \in Nat, m \in Good PROVE m + 1 \in Good
  <2> SUFFICES ASSUME NEW d \in 0..(m + 1), d <= b, d <= c, NEW a \in Nat
               PROVE  f[<<a, d>>] = h[<<a, d>>]
    OBVIOUS
  <2>1. CASE d = 0
    BY <1>3, <2>1
  <2>2. CASE d # 0
    <3>1. PICK z : z = a % d
      OBVIOUS
    <3>2. z \in 0..(d - 1) /\ d \in Nat
      BY <2>2, <3>1
    <3>3. z \in 0..m /\ z <= b /\ z <= c
      BY <3>2
    <3>4. f[<<d, z>>] = h[<<d, z>>]
      BY <1>5, <3>2, <3>3
    <3> QED  BY <1>3, <2>2, <3>1, <3>2, <3>4
  <2> QED  BY <2>1, <2>2
<1> HIDE DEF Good
<1>6. \A m \in Nat : m \in Good
  BY <1>4, <1>5, NumberInduction
<1> QED  BY <1>6 DEF Good

\* So Gcd is what its definition says.
LEMMA GcdTurns ==
  \A a \in Nat : \A b \in Nat : Gcd[<<a, b>>] = IF b = 0 THEN a ELSE Gcd[<<b, a % b>>]
<1> DEFINE step(b) == CHOOSE f : IsEuclid(f, b)
           all == [p \in Nat \X Nat |-> step(p[2])[p]]
<1>1. \A b \in Nat : IsEuclid(step(b), b)
  BY EuclidTurns
<1> HIDE DEF step
<1>2. ASSUME NEW a \in Nat, NEW b \in Nat
      PROVE  all[<<a, b>>] = IF b = 0 THEN a ELSE all[<<b, a % b>>]
  <2>1. all[<<a, b>>] = step(b)[<<a, b>>]
    OBVIOUS
  <2>2. step(b)[<<a, b>>] = EuclidTurn(step(b), <<a, b>>)
    <3>1. <<a, b>> \in Nat \X (0..b)
      OBVIOUS
    <3> QED  BY <1>1, <3>1 DEF IsEuclid
  <2>3. CASE b = 0
    BY <2>1, <2>2, <2>3 DEF EuclidTurn
  <2>4. CASE b # 0
    <3>1. PICK z : z = a % b
      OBVIOUS
    <3>2. z \in 0..(b - 1) /\ z \in Nat
      BY <2>4, <3>1
    <3>3. step(b)[<<b, z>>] = step(z)[<<b, z>>]
      BY <1>1, <3>2, EuclidAgrees
    <3>4. all[<<b, z>>] = step(z)[<<b, z>>]
      BY <3>2
    <3>5. step(b)[<<a, b>>] = step(b)[<<b, z>>]
      BY <2>2, <2>4, <3>1 DEF EuclidTurn
    <3> HIDE DEF all
    <3> QED  BY <2>1, <2>4, <3>1, <3>3, <3>4, <3>5
  <2> QED  BY <2>3, <2>4
<1>3. all = [p \in Nat \X Nat |-> IF p[2] = 0 THEN p[1] ELSE all[<<p[2], p[1] % p[2]>>]]
  <2>1. ASSUME NEW p \in Nat \X Nat
        PROVE  all[p] = IF p[2] = 0 THEN p[1] ELSE all[<<p[2], p[1] % p[2]>>]
    <3>1. PICK a \in Nat, b \in Nat : p = <<a, b>>
      OBVIOUS
    <3> HIDE DEF all
    <3> QED  BY <1>2, <3>1
  <2>2. all = [p \in Nat \X Nat |-> all[p]]
    OBVIOUS
  <2> HIDE DEF all
  <2> QED  BY <2>1, <2>2
<1> HIDE DEF all
<1>4. \E f : f = [p \in Nat \X Nat |-> IF p[2] = 0 THEN p[1] ELSE f[<<p[2], p[1] % p[2]>>]]
  BY <1>3
<1>5. Gcd = [p \in Nat \X Nat |-> IF p[2] = 0 THEN p[1] ELSE Gcd[<<p[2], p[1] % p[2]>>]]
  BY <1>4 DEF Gcd
<1>6. PICK g : g = Gcd
  OBVIOUS
<1>7. \A p \in Nat \X Nat : g[p] = IF p[2] = 0 THEN p[1] ELSE g[<<p[2], p[1] % p[2]>>]
  BY <1>5, <1>6
<1>8. ASSUME NEW a \in Nat, NEW b \in Nat
      PROVE  g[<<a, b>>] = IF b = 0 THEN a ELSE g[<<b, a % b>>]
  <2>1. <<a, b>> \in Nat \X Nat
    OBVIOUS
  <2> QED  BY <1>7, <2>1
<1> QED  BY <1>6, <1>8

\* The greatest common divisor of two numbers is between 1 and the second.
LEMMA GcdBetween ==
  ASSUME NEW a \in Nat, NEW b \in Nat \ {0}
  PROVE  Gcd[<<a, b>>] \in 1..b
<1>1. PICK f : f = Gcd
  OBVIOUS
<1>2. \A x \in Nat : \A y \in Nat : f[<<x, y>>] = IF y = 0 THEN x ELSE f[<<y, x % y>>]
  BY <1>1, GcdTurns
<1> DEFINE Good == {m \in Nat : \A x \in Nat : \A y \in 1..m : f[<<x, y>>] \in 1..y}
<1>3. 0 \in Good
  OBVIOUS
<1>4. ASSUME NEW m \in Nat, m \in Good PROVE m + 1 \in Good
  <2> SUFFICES ASSUME NEW x \in Nat, NEW y \in 1..(m + 1) PROVE f[<<x, y>>] \in 1..y
    OBVIOUS
  <2>1. PICK z : z = x % y
    OBVIOUS
  <2>2. z \in 0..(y - 1) /\ y \in Nat /\ y # 0
    BY <2>1
  <2>3. f[<<x, y>>] = f[<<y, z>>]
    BY <1>2, <2>1, <2>2
  <2>4. CASE z = 0
    <3>1. f[<<y, z>>] = y
      BY <1>2, <2>2, <2>4
    <3> QED  BY <2>2, <2>3, <3>1
  <2>5. CASE z # 0
    <3>1. z \in 1..m
      BY <2>2, <2>5
    <3>2. f[<<y, z>>] \in 1..z
      BY <1>4, <2>2, <3>1
    <3> QED  BY <2>2, <2>3, <3>2
  <2> QED  BY <2>4, <2>5
<1> HIDE DEF Good
<1>5. \A m \in Nat : m \in Good
  BY <1>3, <1>4, NumberInduction
<1> QED  BY <1>1, <1>5 DEF Good

\* A fraction of integers is a number.
LEMMA FractionRational ==
  ASSUME NEW n \in Int, NEW d \in Int
  PROVE  Fraction(n, d) \in Rational
<1>1. CASE d = 0
  BY <1>1 DEF Fraction, Rational, Inexact
<1>2. CASE d = 1
  BY <1>1, <1>2 DEF Fraction, Rational, Whole
<1>3. CASE d # 0 /\ d # 1
  <2>1. PICK m, c, g, s : /\ m = Abs(n) /\ c = Abs(d) /\ g = Gcd[<<m, c>>]
                          /\ s = IF d < 0 THEN -1 ELSE 1
    OBVIOUS
  <2>2. m \in Nat /\ c \in Nat \ {0} /\ s \in Int
    BY <1>3, <2>1 DEF Abs
  <2>3. g \in 1..c
    BY <2>1, <2>2, GcdBetween
  <2>4. n \div g \in Int
    BY <2>3
  <2>5. c \div g \in Nat
    BY <2>2, <2>3
  <2>6. c \div g # 0
    BY <2>2, <2>3
  <2>7. s * (n \div g) \in Int
    BY <2>2, <2>4
  <2>8. Fraction(n, d) = <<s * (n \div g), c \div g>>
    BY <1>3, <2>1 DEF Fraction
  <2> QED  BY <2>5, <2>6, <2>7, <2>8 DEF Rational
<1> QED  BY <1>1, <1>2, <1>3

\* The parts of a number.
LEMMA NumberParts ==
  ASSUME NEW r \in Rational
  PROVE  r = <<r[1], r[2]>> /\ r[1] \in Int /\ r[2] \in Nat /\ (r[2] = 0 => r = Inexact)
BY DEF Rational

\* So are sums and products.
LEMMA SumRational ==
  ASSUME NEW r \in Rational, NEW s \in Rational
  PROVE  Plus(r, s) \in Rational /\ Times(r, s) \in Rational
<1>1. r[1] \in Int /\ r[2] \in Int /\ s[1] \in Int /\ s[2] \in Int
  BY NumberParts
<1>2. PICK a, b, c : a = r[1] * s[2] + s[1] * r[2] /\ b = r[2] * s[2] /\ c = r[1] * s[1]
  OBVIOUS
<1>3. a \in Int /\ b \in Int /\ c \in Int
  BY <1>1, <1>2
<1> QED  BY <1>2, <1>3, FractionRational DEF Plus, Times

\* Powers of integers.
Raising(a, n) == LET to[i \in 0..n] == IF i = 0 THEN 1 ELSE a * to[i - 1] IN to

\* The loop of Raised exists as a function.
LEMMA RaisingTurns ==
  ASSUME NEW a, NEW n \in Nat
  PROVE  Raising(a, n)[0] = 1 /\ \A i \in 1..n : Raising(a, n)[i] = a * Raising(a, n)[i - 1]
<1> DEFINE IsPower(f, m) == f = [i \in 0..m |-> IF i = 0 THEN 1 ELSE a * f[i - 1]]
           Good == {m \in Nat : \E f : IsPower(f, m)}
<1>1. 0 \in Good
  <2>1. IsPower([i \in 0..0 |-> 1], 0)
    OBVIOUS
  <2> QED  BY <2>1
<1>2. ASSUME NEW m \in Nat, m \in Good PROVE m + 1 \in Good
  <2>1. PICK f : IsPower(f, m)
    BY <1>2
  <2> DEFINE h == [i \in 0..(m + 1) |-> IF i = m + 1 THEN a * f[m] ELSE f[i]]
  <2>2. \A i \in 0..m : f[i] = IF i = 0 THEN 1 ELSE a * f[i - 1]
    <3> HIDE DEF h
    <3> QED  BY <2>1
  <2>3. ASSUME NEW i \in 0..m PROVE h[i] = f[i]
    <3>1. i \in 0..(m + 1) /\ i # m + 1
      OBVIOUS
    <3> QED  BY <3>1
  <2>4. \A i \in 0..(m + 1) : h[i] = IF i = 0 THEN 1 ELSE a * h[i - 1]
    <3> SUFFICES ASSUME NEW i \in 0..(m + 1) PROVE h[i] = IF i = 0 THEN 1 ELSE a * h[i - 1]
      OBVIOUS
    <3>1. CASE i = m + 1
      <4>1. h[i] = a * f[m] /\ i - 1 = m /\ m \in 0..m /\ i # 0
        BY <3>1
      <4>2. h[m] = f[m]
        BY <2>3, <4>1
      <4> HIDE DEF h
      <4> QED  BY <4>1, <4>2
    <3>2. CASE i # m + 1
      <4>1. i \in 0..m /\ (i # 0 => i - 1 \in 0..m)
        BY <3>2
      <4> HIDE DEF h
      <4> QED  BY <2>2, <2>3, <4>1
    <3> QED  BY <3>1, <3>2
  <2>5. IsPower(h, m + 1)
    BY <2>4
  <2> HIDE DEF h, IsPower
  <2>6. \E g : IsPower(g, m + 1)
    BY <2>5
  <2> QED  BY <2>6
<1>3. n \in Good
  <2> HIDE DEF Good
  <2> QED  BY <1>1, <1>2, NumberInduction
<1>4. PICK f : IsPower(f, n)
  BY <1>3
<1>5. IsPower(Raising(a, n), n)
  BY <1>4 DEF Raising
<1> HIDE DEF Raising
<1>6. \A i \in 0..n : Raising(a, n)[i] = IF i = 0 THEN 1 ELSE a * Raising(a, n)[i - 1]
  BY <1>5
<1>7. 0 \in 0..n /\ \A i \in 1..n : i \in 0..n /\ i # 0
  OBVIOUS
<1> QED  BY <1>6, <1>7

\* A power of an integer is an integer, and one of a positive number is positive.
LEMMA RaisedTyped ==
  ASSUME NEW a \in Int, NEW n \in Nat
  PROVE  Raised(a, n) \in Int /\ (a > 0 => Raised(a, n) > 0)
<1>1. PICK f : f = Raising(a, n)
  OBVIOUS
<1>2. f[0] = 1 /\ \A i \in 1..n : f[i] = a * f[i - 1]
  BY <1>1, RaisingTurns
<1>3. Raised(a, n) = f[n]
  BY <1>1 DEF Raised, Raising
<1> DEFINE Good == {m \in Nat : m <= n => f[m] \in Int /\ (a > 0 => f[m] > 0)}
<1>4. 0 \in Good
  BY <1>2
<1>5. ASSUME NEW m \in Nat, m \in Good PROVE m + 1 \in Good
  <2> SUFFICES ASSUME m + 1 <= n PROVE f[m + 1] \in Int /\ (a > 0 => f[m + 1] > 0)
    OBVIOUS
  <2>1. m + 1 \in 1..n /\ (m + 1) - 1 = m /\ m <= n
    OBVIOUS
  <2>2. PICK x : x = f[m]
    OBVIOUS
  <2>3. x \in Int /\ (a > 0 => x > 0) /\ f[m + 1] = a * x
    BY <1>2, <1>5, <2>1, <2>2
  <2>4. a * x \in Int
    BY <2>3
  <2>5. a > 0 /\ x > 0 => a * x > 0
    BY <2>3
  <2> QED  BY <2>3, <2>4, <2>5
<1>6. n \in Good
  <2> HIDE DEF Good
  <2> QED  BY <1>4, <1>5, NumberInduction
<1> QED  BY <1>3, <1>6

\* A power of a number is a number.
LEMMA PowerRational ==
  ASSUME NEW r \in Rational, NEW p \in Rational
  PROVE  Power(r, p) \in Rational
<1>1. /\ r[1] \in Int /\ r[2] \in Nat /\ (r[2] = 0 => r = Inexact)
      /\ p[1] \in Int /\ p[2] \in Nat
  BY NumberParts
<1>2. One \in Rational /\ Inexact \in Rational
  BY DEF One, Inexact, Rational
<1>3. CASE p = Zero \/ r = One \/ p[2] # 1 \/ r = Inexact
  BY <1>2, <1>3 DEF Power
<1>4. CASE ~(p = Zero \/ r = One \/ p[2] # 1 \/ r = Inexact) /\ p[1] > 0
  <2>1. PICK a, b : a = Raised(r[1], p[1]) /\ b = Raised(r[2], p[1])
    OBVIOUS
  <2>2. p[1] \in Nat /\ r[2] \in Int /\ r[2] > 0
    BY <1>1, <1>4
  <2>3. a \in Int /\ b \in Int /\ b > 0
    BY <1>1, <2>1, <2>2, RaisedTyped
  <2>4. Power(r, p) = <<a, b>>
    BY <1>4, <2>1 DEF Power
  <2> QED  BY <2>3, <2>4 DEF Rational
<1>5. CASE ~(p = Zero \/ r = One \/ p[2] # 1 \/ r = Inexact) /\ ~(p[1] > 0)
  <2>1. PICK a, b, n : a = Raised(r[1], n) /\ b = Raised(r[2], n) /\ n = -p[1]
    OBVIOUS
  <2>2. n \in Nat /\ r[2] \in Int
    BY <1>1, <1>5, <2>1
  <2>3. a \in Int /\ b \in Int
    BY <1>1, <2>1, <2>2, RaisedTyped
  <2>4. Power(r, p) = Fraction(b, a)
    BY <1>5, <2>1 DEF Power
  <2> QED  BY <2>3, <2>4, FractionRational
<1> QED  BY <1>3, <1>4, <1>5

\* One is its own square, and its own power.
LEMMA OneStays ==
  /\ \A p : Power(One, p) = One
  /\ Times(One, One) = One /\ One \in Rational /\ Zero \in Rational /\ One # Zero
<1>1. \A p : Power(One, p) = One
  BY DEF Power
<1>2. Times(One, One) = One
  BY DEF Times, Fraction, One, Whole
<1> QED  BY <1>1, <1>2 DEF One, Zero, Rational, Inexact

-----------------------------------------------------------------------------
(* The names of a container *)

\* A container whose names can be visited.
IsUnits(u) ==
  /\ IsFiniteSet(DOMAIN u) /\ DOMAIN u \subseteq STRING
  /\ \A n \in DOMAIN u : u[n] \in Rational

\* SetToSeq makes a sequence of all elements of a finite set.
LEMMA SetInSequence ==
  ASSUME NEW S, IsFiniteSet(S)
  PROVE  /\ SetToSeq(S) \in Seq(S)
         /\ \A x \in S : \E i \in DOMAIN SetToSeq(S) : SetToSeq(S)[i] = x
<1>1. PICK n : n = Cardinality(S)
  OBVIOUS
<1>2. n \in Nat /\ ExistsBijection(1..n, S)
  BY <1>1, FS_CardinalityType
<1>3. PICK b : b \in Bijection(1..n, S)
  BY <1>2 DEF ExistsBijection
<1>4. b \in [1..n -> S] /\ IsInjective(b)
  BY <1>3 DEF Bijection, Injection
<1>5. PICK f : f = SetToSeq(S)
  OBVIOUS
<1>6. f \in [1..n -> S] /\ IsInjective(f)
  BY <1>1, <1>4, <1>5 DEF SetToSeq
<1>7. f \in Seq(S) /\ DOMAIN f = 1..n
  BY <1>2, <1>6
<1>8. ASSUME NEW x \in S, \A i \in 1..n : f[i] # x PROVE FALSE
  <2>1. IsFiniteSet(S \ {x}) /\ Cardinality(S \ {x}) = n - 1
    BY <1>1, FS_RemoveElement
  <2>2. f \in [1..n -> S \ {x}]
    BY <1>6, <1>8
  <2>3. IsFiniteSet(1..n) /\ Cardinality(1..n) = n
    BY <1>2, FS_CountingElements, FS_Interval
  <2>4. n - 1 < n
    BY <1>2
  <2>5. \E i, j \in 1..n : i # j /\ f[i] = f[j]
    BY <2>1, <2>2, <2>3, <2>4, FS_PigeonHole
  <2> QED  BY <1>6, <1>7, <2>5 DEF IsInjective
<1> QED  BY <1>5, <1>7, <1>8

\* The items of a container are its names, all at the same depth.
LEMMA ItemsTyped ==
  ASSUME NEW u, IsUnits(u), NEW e \in Rational, NEW d \in Nat
  PROVE  /\ Items(u, e, d) \in Seq(Item)
         /\ \A i \in DOMAIN Items(u, e, d) :
              Items(u, e, d)[i].depth = d /\ Items(u, e, d)[i].name \in DOMAIN u
         /\ \A n \in DOMAIN u : \E i \in DOMAIN Items(u, e, d) : Items(u, e, d)[i].name = n
<1>1. PICK s : s = SetToSeq(DOMAIN u)
  OBVIOUS
<1>2. s \in Seq(DOMAIN u) /\ \A n \in DOMAIN u : \E i \in DOMAIN s : s[i] = n
  BY <1>1, SetInSequence DEF IsUnits
<1>3. PICK t : t = [i \in DOMAIN s |-> [name |-> s[i], exp |-> Times(e, u[s[i]]), depth |-> d]]
  OBVIOUS
<1>4. Items(u, e, d) = t
  BY <1>1, <1>3 DEF Items, Names
<1>5. Len(s) \in Nat /\ DOMAIN s = 1..Len(s) /\ \A i \in 1..Len(s) : s[i] \in DOMAIN u
  BY <1>2
<1>6. ASSUME NEW i \in 1..Len(s) PROVE t[i] \in Item /\ t[i].depth = d /\ t[i].name = s[i]
  <2>1. s[i] \in DOMAIN u /\ s[i] \in STRING /\ u[s[i]] \in Rational
    BY <1>5 DEF IsUnits
  <2>2. Times(e, u[s[i]]) \in Rational
    BY <2>1, SumRational
  <2>3. t[i] = [name |-> s[i], exp |-> Times(e, u[s[i]]), depth |-> d]
    BY <1>3, <1>5
  <2> QED  BY <2>1, <2>2, <2>3 DEF Item
<1>7. t \in Seq(Item) /\ DOMAIN t = DOMAIN s
  <2>1. t \in [1..Len(s) -> Item]
    BY <1>3, <1>5, <1>6
  <2> QED  BY <1>5, <2>1
<1> QED  BY <1>2, <1>4, <1>5, <1>6, <1>7

-----------------------------------------------------------------------------
(* A walk and its turns *)

\* What names can lead to.
IsEntry(e) ==
  \/ e.is = "leaf" /\ e.name \in Leaves
  \/ e.is = "inner" /\ e.scale \in Rational /\ IsUnits(e.reference)
EntriesOK(E) == \A n \in DOMAIN E : IsEntry(E[n])

Stops(E, w) ==
  \/ w.todo = << >>
  \/ Head(w.todo).depth > MaxDepth
  \/ Head(w.todo).name \notin DOMAIN E
Further(E, w) == Onward(w, E[Head(w.todo).name])

\* The recursion of Follow.
FollowTurn(E, f, w) ==
  IF w.todo = << >> THEN Answer(Scaled(w.scale, NewUnitsContainer(w.powers)))
  ELSE IF Head(w.todo).depth > MaxDepth THEN Overflow
  ELSE IF Head(w.todo).name \notin DOMAIN E THEN Undefined
  ELSE f[Onward(w, E[Head(w.todo).name])]
IsFollow(E, f) == f = [w \in Walks |-> FollowTurn(E, f, w)]

\* What a walk comes by is in every set that it is in and that no turn leads out of.
Kept(E, S) == \A w \in S : ~Stops(E, w) => Further(E, w) \in S
Comes(E, w, v) == \A S \in SUBSET Walks : w \in S /\ Kept(E, S) => v \in S

\* A turn leads from walk to walk.
LEMMA FurtherTyped ==
  ASSUME NEW E, EntriesOK(E), NEW w \in Walks, ~Stops(E, w)
  PROVE  Further(E, w) \in Walks
<1>1. PICK it, t, e : it = Head(w.todo) /\ t = Tail(w.todo) /\ e = E[it.name]
  OBVIOUS
<1>2. w.todo \in Seq(Item) /\ w.todo # << >> /\ w.scale \in Rational /\ w.powers \in [Leaves -> Rational]
  BY DEF Walks, Stops
<1>3. it \in Item /\ t \in Seq(Item)
  BY <1>1, <1>2, FirstAndRest
<1>4. it.exp \in Rational /\ it.depth + 1 \in Nat
  BY <1>3 DEF Item
<1>5. IsEntry(e)
  BY <1>1 DEF EntriesOK, Stops
<1>6. CASE e.is = "leaf"
  <2>1. e.name \in Leaves
    BY <1>5, <1>6 DEF IsEntry
  <2>2. PICK p : p = [w.powers EXCEPT ![e.name] = Plus(@, it.exp)]
    OBVIOUS
  <2>3. Plus(w.powers[e.name], it.exp) \in Rational
    BY <1>2, <1>4, <2>1, SumRational
  <2>4. p \in [Leaves -> Rational]
    BY <1>2, <2>1, <2>2, <2>3
  <2>5. Further(E, w) = [todo |-> t, scale |-> w.scale, powers |-> p]
    BY <1>1, <1>6, <2>2 DEF Further, Onward
  <2> QED  BY <1>2, <1>3, <2>4, <2>5 DEF Walks
<1>7. CASE e.is # "leaf"
  <2>1. e.scale \in Rational /\ IsUnits(e.reference)
    BY <1>5, <1>7 DEF IsEntry
  <2>2. PICK s, c : /\ s = Items(e.reference, it.exp, it.depth + 1)
                    /\ c = Times(w.scale, Power(e.scale, it.exp))
    OBVIOUS
  <2>3. s \in Seq(Item) /\ c \in Rational
    BY <1>2, <1>4, <2>1, <2>2, ItemsTyped, PowerRational, SumRational
  <2>4. s \o t \in Seq(Item)
    BY <1>3, <2>3, Joined
  <2>5. Further(E, w) = [todo |-> s \o t, scale |-> c, powers |-> w.powers]
    BY <1>1, <1>7, <2>2 DEF Further, Onward
  <2> QED  BY <1>2, <2>3, <2>4, <2>5 DEF Walks
<1> QED  BY <1>6, <1>7

\* It comes by itself, by what comes next, and by what that comes by.
LEMMA ComesOn ==
  ASSUME NEW E, EntriesOK(E)
  PROVE  /\ \A w \in Walks : Comes(E, w, w)
         /\ \A w, v \in Walks : ~Stops(E, w) /\ Comes(E, Further(E, w), v) => Comes(E, w, v)
         /\ \A w, v, x \in Walks : Comes(E, w, v) /\ Comes(E, v, x) => Comes(E, w, x)
BY DEF Comes, Kept

\* Where a walk stops, it does not come by anything else.
LEMMA ComesNoFurther ==
  ASSUME NEW E, NEW w \in Walks, NEW v \in Walks, Stops(E, w), Comes(E, w, v)
  PROVE  v = w
<1>1. {w} \in SUBSET Walks /\ Kept(E, {w})
  BY DEF Kept
<1> QED  BY <1>1 DEF Comes

\* A walk that goes on comes by the stops that the next one comes by.
LEMMA ComesNext ==
  ASSUME NEW E, EntriesOK(E), NEW w \in Walks, ~Stops(E, w), NEW v \in Walks, Stops(E, v)
  PROVE  Comes(E, w, v) <=> Comes(E, Further(E, w), v)
<1>1. Further(E, w) \in Walks
  BY FurtherTyped
<1>2. Comes(E, Further(E, w), v) => Comes(E, w, v)
  BY <1>1, ComesOn
<1>3. ASSUME Comes(E, w, v), NEW S \in SUBSET Walks, Further(E, w) \in S, Kept(E, S) PROVE v \in S
  <2>1. Kept(E, S \cup {w}) /\ S \cup {w} \in SUBSET Walks
    BY <1>3 DEF Kept
  <2>2. v \in S \cup {w}
    BY <1>3, <2>1 DEF Comes
  <2> QED  BY <2>2
<1> QED  BY <1>2, <1>3 DEF Comes

\* There is a function that follows references, and it answers what a walk stops with.
LEMMA FollowStops ==
  ASSUME NEW E, EntriesOK(E), NEW u, Start(u) \in Walks,
         NEW v \in Walks, Comes(E, Start(u), v), Stops(E, v)
  PROVE  Follow(E, u) = FollowTurn(E, << >>, v)
<1> DEFINE Stopping(w) == {FollowTurn(E, << >>, x) : x \in {y \in Walks : Stops(E, y) /\ Comes(E, w, y)}}
           e == [w \in Walks |-> CHOOSE x : x \in Stopping(w)]
<1>0. \A x \in Walks : \A f, g : Stops(E, x) => FollowTurn(E, f, x) = FollowTurn(E, g, x)
  BY DEF Stops, FollowTurn
<1>1. \A w \in Walks : e[w] = FollowTurn(E, e, w)
  <2> SUFFICES ASSUME NEW w \in Walks PROVE e[w] = FollowTurn(E, e, w)
    OBVIOUS
  <2>1. e[w] = CHOOSE x : x \in Stopping(w)
    OBVIOUS
  <2>2. CASE Stops(E, w)
    <3>1. \A y \in Walks : Stops(E, y) /\ Comes(E, w, y) <=> y = w
      BY <2>2, ComesNoFurther, ComesOn
    <3>2. Stopping(w) = {FollowTurn(E, << >>, w)}
      BY <3>1
    <3>3. e[w] = FollowTurn(E, << >>, w)
      BY <2>1, <3>2
    <3> HIDE DEF e
    <3> QED  BY <1>0, <2>2, <3>3
  <2>3. CASE ~Stops(E, w)
    <3>1. PICK n : n = Further(E, w)
      OBVIOUS
    <3>2. n \in Walks
      BY <2>3, <3>1, FurtherTyped
    <3>3. \A y \in Walks : Stops(E, y) => (Comes(E, w, y) <=> Comes(E, n, y))
      BY <2>3, <3>1, ComesNext
    <3>4. Stopping(w) = Stopping(n)
      BY <3>3
    <3>5. e[n] = CHOOSE x : x \in Stopping(n)
      BY <3>2
    <3>6. e[w] = e[n]
      BY <2>1, <3>4, <3>5
    <3> HIDE DEF e
    <3>7. FollowTurn(E, e, w) = e[n]
      BY <2>3, <3>1 DEF FollowTurn, Stops, Further
    <3> QED  BY <3>6, <3>7
  <2> QED  BY <2>2, <2>3
<1>2. IsFollow(E, e)
  <2>1. e = [w \in Walks |-> e[w]]
    OBVIOUS
  <2> HIDE DEF e
  <2> QED  BY <1>1, <2>1 DEF IsFollow
<1> HIDE DEF e
<1>3. PICK f : f = CHOOSE g : IsFollow(E, g)
  OBVIOUS
<1>4. IsFollow(E, f)
  BY <1>2, <1>3
<1>5. Follow(E, u) = f[Start(u)]
  BY <1>3 DEF Follow, IsFollow, FollowTurn
<1>6. \A w \in Walks : f[w] = FollowTurn(E, f, w)
  BY <1>4 DEF IsFollow
<1>7. PICK S : S = {w \in Walks : f[w] = f[Start(u)]}
  OBVIOUS
<1>8. Kept(E, S)
  <2> SUFFICES ASSUME NEW w \in S, ~Stops(E, w) PROVE Further(E, w) \in S
    BY DEF Kept
  <2>1. w \in Walks /\ f[w] = f[Start(u)]
    BY <1>7
  <2>2. Further(E, w) \in Walks
    BY <2>1, FurtherTyped
  <2>3. f[w] = f[Further(E, w)]
    BY <1>6, <2>1 DEF FollowTurn, Stops, Further
  <2> QED  BY <1>7, <2>1, <2>2, <2>3
<1>9. v \in S
  <2>1. S \in SUBSET Walks /\ Start(u) \in S
    BY <1>7
  <2> QED  BY <1>8, <2>1 DEF Comes
<1>10. f[v] = FollowTurn(E, f, v)
  BY <1>6
<1> QED  BY <1>0, <1>5, <1>7, <1>9, <1>10

-----------------------------------------------------------------------------
(* Where walks end *)

NamesIn(s) == {s[i].name : i \in DOMAIN s}

\* The first of two sequences together, and the names in it.
LEMMA FirstOfBoth ==
  ASSUME NEW T, NEW s \in Seq(T), NEW t \in Seq(T), s # << >>
  PROVE  /\ s \o t # << >> /\ Head(s \o t) = Head(s) /\ Tail(s \o t) = Tail(s) \o t
         /\ NamesIn(s) = {Head(s).name} \cup NamesIn(Tail(s))
<1>1. /\ Len(s) \in Nat /\ Len(t) \in Nat /\ Len(s) # 0 /\ DOMAIN s = 1..Len(s)
      /\ s \o t \in Seq(T) /\ Len(s \o t) = Len(s) + Len(t)
      /\ \A i \in 1..(Len(s) + Len(t)) :
           (s \o t)[i] = IF i <= Len(s) THEN s[i] ELSE t[i - Len(s)]
  OBVIOUS
<1>2. /\ Tail(s) \in Seq(T) /\ Len(Tail(s)) = Len(s) - 1 /\ Head(s) = s[1]
      /\ \A i \in 1..(Len(s) - 1) : Tail(s)[i] = s[i + 1]
  OBVIOUS
<1>3. PICK x, y : x = Tail(s \o t) /\ y = Tail(s) \o t
  OBVIOUS
<1>4. s \o t # << >> /\ Head(s \o t) = s[1]
  <2>1. 1 \in 1..(Len(s) + Len(t)) /\ 1 <= Len(s) /\ Len(s \o t) # 0
    BY <1>1
  <2> QED  BY <1>1, <2>1
<1>5. PICK n : n = Len(s) + Len(t) - 1
  OBVIOUS
<1>6. x \in Seq(T) /\ Len(x) = n /\ \A i \in 1..n : x[i] = (s \o t)[i + 1]
  BY <1>1, <1>3, <1>4, <1>5
<1>7. y \in Seq(T) /\ Len(y) = n
      /\ \A i \in 1..n : y[i] = IF i <= Len(s) - 1 THEN Tail(s)[i] ELSE t[i - (Len(s) - 1)]
  BY <1>1, <1>2, <1>3, <1>5
<1>8. ASSUME NEW i \in 1..n PROVE x[i] = y[i]
  <2>1. i + 1 \in 1..(Len(s) + Len(t)) /\ (i + 1) - Len(s) = i - (Len(s) - 1)
    BY <1>1, <1>5
  <2>2. CASE i <= Len(s) - 1
    <3>1. i \in 1..(Len(s) - 1) /\ i + 1 <= Len(s)
      BY <1>1, <2>2
    <3>2. x[i] = s[i + 1] /\ y[i] = s[i + 1]
      BY <1>1, <1>2, <1>6, <1>7, <2>1, <2>2, <3>1
    <3> QED  BY <3>2
  <2>3. CASE ~(i <= Len(s) - 1)
    <3>1. ~(i + 1 <= Len(s))
      BY <1>1, <2>3
    <3>2. x[i] = t[(i + 1) - Len(s)] /\ y[i] = t[i - (Len(s) - 1)]
      BY <1>1, <1>6, <1>7, <2>1, <2>3, <3>1
    <3> QED  BY <2>1, <3>2
  <2> QED  BY <2>2, <2>3
<1>9. x = y
  <2>1. x = [i \in 1..n |-> x[i]] /\ y = [i \in 1..n |-> y[i]]
    BY <1>6, <1>7
  <2> QED  BY <1>8, <2>1
<1>10. NamesIn(s) = {Head(s).name} \cup NamesIn(Tail(s))
  <2>1. DOMAIN Tail(s) = 1..(Len(s) - 1)
    BY <1>1, <1>2
  <2>2. ASSUME NEW i \in DOMAIN s PROVE s[i].name \in {Head(s).name} \cup NamesIn(Tail(s))
    <3>1. CASE i = 1
      BY <1>2, <3>1
    <3>2. CASE i # 1
      <4>1. i - 1 \in 1..(Len(s) - 1) /\ (i - 1) + 1 = i
        BY <1>1, <3>2
      <4>2. Tail(s)[i - 1] = s[i]
        BY <1>2, <4>1
      <4> QED  BY <2>1, <4>1, <4>2 DEF NamesIn
    <3> QED  BY <3>1, <3>2
  <2>3. ASSUME NEW i \in DOMAIN Tail(s) PROVE Tail(s)[i].name \in NamesIn(s)
    <3>1. i + 1 \in DOMAIN s /\ Tail(s)[i] = s[i + 1]
      BY <1>1, <1>2, <2>1
    <3> QED  BY <3>1 DEF NamesIn
  <2>4. Head(s).name \in NamesIn(s)
    <3>1. 1 \in DOMAIN s
      BY <1>1
    <3> QED  BY <1>2, <3>1 DEF NamesIn
  <2>5. NamesIn(s) \subseteq {Head(s).name} \cup NamesIn(Tail(s))
    BY <2>2 DEF NamesIn
  <2>6. NamesIn(Tail(s)) \subseteq NamesIn(s)
    BY <2>3 DEF NamesIn
  <2> QED  BY <2>4, <2>5, <2>6
<1> QED  BY <1>2, <1>3, <1>4, <1>9, <1>10

\* Names whose references end within k names, and names with references that do not.
IsWithin(E, c) ==
  \A k \in 0..MaxDepth :
    c[k] = IF k = 0 THEN {}
           ELSE {n \in DOMAIN E : E[n].is = "leaf" \/ DOMAIN E[n].reference \subseteq c[k - 1]}
IsBeyond(E, b) ==
  \A k \in 0..MaxDepth :
    b[k] = IF k = 0 THEN STRING
           ELSE {n \in DOMAIN E : E[n].is # "leaf" /\ DOMAIN E[n].reference \cap b[k - 1] # {}}

\* The walk w, which begins with the items s, comes to the rest t or stops before.
Settled(E, w, s, t, c, b) ==
  \/ w.todo = t /\ NamesIn(s) \subseteq c
  \/ /\ Stops(E, w) /\ w.todo # << >> /\ ~(NamesIn(s) \subseteq c)
     /\ Head(w.todo).depth > MaxDepth => NamesIn(s) \cap b # {}
Settles(E, w, s, t, c, b) == \E v \in Walks : Comes(E, w, v) /\ Settled(E, v, s, t, c, b)
AtDepth(s, k) == \A i \in DOMAIN s : s[i].depth = MaxDepth + 1 - k
Settling(E, k, s, c, b) ==
  \A t \in Seq(Item) : \A w \in Walks : w.todo = s \o t => Settles(E, w, s, t, c[k], b[k])

\* The walk through no items.
LEMMA NothingSettles ==
  ASSUME NEW E, EntriesOK(E), NEW k, NEW c, NEW b, NEW s \in Seq(Item), s = << >>
  PROVE  Settling(E, k, s, c, b)
<1> SUFFICES ASSUME NEW t \in Seq(Item), NEW w \in Walks, w.todo = s \o t
             PROVE  Settles(E, w, s, t, c[k], b[k])
  BY DEF Settling
<1>1. s \o t = t
  OBVIOUS
<1>2. NamesIn(s) = {}
  BY DEF NamesIn
<1> QED  BY <1>1, <1>2, ComesOn DEF Settles, Settled

\* The walk through items at the depth of k, of those through others known to settle.
LEMMA ItemsSettle ==
  ASSUME NEW E, EntriesOK(E), NEW c, NEW b, IsWithin(E, c), IsBeyond(E, b), MaxDepth \in Nat,
         NEW k \in 0..MaxDepth, NEW s \in Seq(Item), s # << >>, AtDepth(s, k),
         Settling(E, k, Tail(s), c, b),
         k # 0 => \A r \in Seq(Item) : AtDepth(r, k - 1) => Settling(E, k - 1, r, c, b)
  PROVE  Settling(E, k, s, c, b)
<1> SUFFICES ASSUME NEW t \in Seq(Item), NEW w \in Walks, w.todo = s \o t
             PROVE  Settles(E, w, s, t, c[k], b[k])
  BY DEF Settling
<1>1. PICK it, r : it = Head(s) /\ r = Tail(s)
  OBVIOUS
<1>2. /\ w.todo # << >> /\ Head(w.todo) = it /\ Tail(w.todo) = r \o t
      /\ NamesIn(s) = {it.name} \cup NamesIn(r)
  BY <1>1, FirstOfBoth
<1>3. it \in Item /\ r \in Seq(Item) /\ r \o t \in Seq(Item)
  BY <1>1, FirstAndRest, Joined
<1>4. it.depth = MaxDepth + 1 - k
  <2>1. Len(s) \in Nat /\ Len(s) # 0 /\ DOMAIN s = 1..Len(s) /\ Head(s) = s[1]
    OBVIOUS
  <2>2. 1 \in DOMAIN s
    BY <2>1
  <2> QED  BY <1>1, <2>1, <2>2 DEF AtDepth
<1>5. it.name \in STRING /\ it.exp \in Rational /\ it.depth \in Nat
  BY <1>3 DEF Item
<1>6. CASE k = 0
  <2>1. it.depth > MaxDepth /\ Stops(E, w)
    BY <1>2, <1>4, <1>6 DEF Stops
  <2>2. c[k] = {} /\ b[k] = STRING
    BY <1>6 DEF IsWithin, IsBeyond
  <2>3. Settled(E, w, s, t, c[k], b[k])
    BY <1>2, <1>5, <2>1, <2>2 DEF Settled
  <2> QED  BY <2>1, <2>3, ComesOn DEF Settles
<1>7. CASE k # 0 /\ it.name \notin DOMAIN E
  <2>1. ~(it.depth > MaxDepth) /\ Stops(E, w)
    BY <1>2, <1>4, <1>7 DEF Stops
  <2>2. it.name \notin c[k]
    BY <1>7 DEF IsWithin
  <2>3. Settled(E, w, s, t, c[k], b[k])
    BY <1>2, <2>1, <2>2 DEF Settled
  <2> QED  BY <2>1, <2>3, ComesOn DEF Settles
<1>8. CASE k # 0 /\ it.name \in DOMAIN E
  <2>1. PICK e, n : e = E[it.name] /\ n = Further(E, w)
    OBVIOUS
  <2>2. ~Stops(E, w) /\ n \in Walks
    <3>1. ~(it.depth > MaxDepth)
      BY <1>4, <1>8
    <3>2. ~Stops(E, w)
      BY <1>2, <1>8, <3>1 DEF Stops
    <3> QED  BY <2>1, <3>2, FurtherTyped
  <2>3. \A v \in Walks : Comes(E, n, v) => Comes(E, w, v)
    BY <2>1, <2>2, ComesOn
  <2>4. IsEntry(e)
    BY <1>8, <2>1 DEF EntriesOK
  <2>5. ASSUME NEW v \in Walks, Comes(E, n, v), v.todo = r \o t, it.name \in c[k]
        PROVE  Settles(E, w, s, t, c[k], b[k])
    <3>1. PICK x \in Walks : Comes(E, v, x) /\ Settled(E, x, r, t, c[k], b[k])
      BY <1>1, <2>5 DEF Settling, Settles
    <3>2. Comes(E, w, x)
      BY <2>2, <2>3, <2>5, <3>1, ComesOn
    <3>3. Settled(E, x, s, t, c[k], b[k])
      BY <1>2, <2>5, <3>1 DEF Settled
    <3> QED  BY <3>1, <3>2, <3>3 DEF Settles
  <2>6. CASE e.is = "leaf"
    <3>1. n.todo = r \o t
      BY <1>2, <2>1, <2>6 DEF Further, Onward
    <3>2. it.name \in c[k]
      BY <1>8, <2>1, <2>6 DEF IsWithin
    <3>3. Comes(E, n, n)
      BY <2>2, ComesOn
    <3> QED  BY <2>2, <2>5, <3>1, <3>2, <3>3
  <2>7. CASE e.is # "leaf"
    <3>1. IsUnits(e.reference)
      BY <2>4, <2>7 DEF IsEntry
    <3>2. PICK i : i = Items(e.reference, it.exp, it.depth + 1)
      OBVIOUS
    <3>3. n.todo = i \o (r \o t)
      BY <1>2, <2>1, <2>7, <3>2 DEF Further, Onward
    <3>4. /\ i \in Seq(Item) /\ AtDepth(i, k - 1) /\ NamesIn(i) = DOMAIN e.reference
      <4>1. it.depth + 1 \in Nat /\ it.depth + 1 = MaxDepth + 1 - (k - 1)
        BY <1>4, <1>5
      <4>2. /\ i \in Seq(Item)
            /\ \A j \in DOMAIN i : i[j].depth = it.depth + 1 /\ i[j].name \in DOMAIN e.reference
            /\ \A m \in DOMAIN e.reference : \E j \in DOMAIN i : i[j].name = m
        BY <1>5, <3>1, <3>2, <4>1, ItemsTyped
      <4> QED  BY <4>1, <4>2 DEF AtDepth, NamesIn
    <3>5. PICK v \in Walks : Comes(E, n, v) /\ Settled(E, v, i, r \o t, c[k - 1], b[k - 1])
      BY <1>3, <1>8, <2>2, <3>3, <3>4 DEF Settling, Settles
    <3>6. it.name \in c[k] <=> NamesIn(i) \subseteq c[k - 1]
      BY <1>8, <2>1, <2>7, <3>4 DEF IsWithin
    <3>7. NamesIn(i) \cap b[k - 1] # {} => it.name \in b[k]
      BY <1>8, <2>1, <2>7, <3>4 DEF IsBeyond
    <3>8. CASE v.todo = r \o t /\ NamesIn(i) \subseteq c[k - 1]
      BY <2>5, <3>5, <3>6, <3>8
    <3>9. CASE ~(v.todo = r \o t /\ NamesIn(i) \subseteq c[k - 1])
      <4>1. /\ Stops(E, v) /\ v.todo # << >> /\ ~(NamesIn(i) \subseteq c[k - 1])
            /\ Head(v.todo).depth > MaxDepth => NamesIn(i) \cap b[k - 1] # {}
        BY <3>5, <3>9 DEF Settled
      <4>2. Settled(E, v, s, t, c[k], b[k])
        BY <1>2, <3>6, <3>7, <4>1 DEF Settled
      <4> QED  BY <2>3, <3>5, <4>2 DEF Settles
    <3> QED  BY <3>8, <3>9
  <2> QED  BY <2>6, <2>7
<1> QED  BY <1>6, <1>7, <1>8

\* So every walk settles, by induction over how many names the stack still holds and, for
\* those of one depth, over the items.
LEMMA WalkSettles ==
  ASSUME NEW E, EntriesOK(E), NEW c, NEW b, IsWithin(E, c), IsBeyond(E, b)
  PROVE  \A s \in Seq(Item) : AtDepth(s, MaxDepth) => Settling(E, MaxDepth, s, c, b)
<1> DEFINE Good == {k \in Nat : k <= MaxDepth =>
                      \A s \in Seq(Item) : AtDepth(s, k) => Settling(E, k, s, c, b)}
<1>0. MaxDepth \in Nat
  BY LoadingAssumption
<1>1. ASSUME NEW k \in Nat, k <= MaxDepth, k # 0 => k - 1 \in Good PROVE k \in Good
  <2> DEFINE Done == {m \in Nat : \A s \in Seq(Item) :
                        Len(s) = m /\ AtDepth(s, k) => Settling(E, k, s, c, b)}
  <2>1. k \in 0..MaxDepth /\ (k # 0 => k - 1 \in Nat /\ k - 1 <= MaxDepth)
    BY <1>0, <1>1
  <2>2. k # 0 => \A r \in Seq(Item) : AtDepth(r, k - 1) => Settling(E, k - 1, r, c, b)
    BY <1>1, <2>1
  <2>3. 0 \in Done
    <3> SUFFICES ASSUME NEW s \in Seq(Item), Len(s) = 0 PROVE Settling(E, k, s, c, b)
      OBVIOUS
    <3>1. s = << >>
      OBVIOUS
    <3> QED  BY <3>1, NothingSettles
  <2>4. ASSUME NEW m \in Nat, m \in Done PROVE m + 1 \in Done
    <3> SUFFICES ASSUME NEW s \in Seq(Item), Len(s) = m + 1, AtDepth(s, k)
                 PROVE  Settling(E, k, s, c, b)
      OBVIOUS
    <3>1. s # << >>
      OBVIOUS
    <3>2. Tail(s) \in Seq(Item) /\ Len(Tail(s)) = m
      BY <3>1, FirstAndRest
    <3>3. AtDepth(Tail(s), k)
      <4>1. /\ Len(s) \in Nat /\ DOMAIN s = 1..Len(s) /\ DOMAIN Tail(s) = 1..m
            /\ \A i \in 1..m : Tail(s)[i] = s[i + 1] /\ i + 1 \in DOMAIN s
        BY <3>1, <3>2
      <4> QED  BY <4>1 DEF AtDepth
    <3>4. Settling(E, k, Tail(s), c, b)
      BY <2>4, <3>2, <3>3
    <3> HIDE DEF Done, Good
    <3> QED  BY <1>0, <2>1, <2>2, <3>1, <3>4, ItemsSettle
  <2>5. \A m \in Nat : m \in Done
    <3> HIDE DEF Done, Good
    <3> QED  BY <2>3, <2>4, NumberInduction
  <2>6. \A s \in Seq(Item) : Len(s) \in Nat
    OBVIOUS
  <2>7. \A s \in Seq(Item) : AtDepth(s, k) => Settling(E, k, s, c, b)
    BY <2>5, <2>6
  <2> QED  BY <1>1, <2>7
<1>2. 0 \in Good
  BY <1>0, <1>1
<1>3. ASSUME NEW m \in Nat, m \in Good PROVE m + 1 \in Good
  <2>1. m + 1 \in Nat /\ (m + 1) - 1 = m
    OBVIOUS
  <2>2. CASE m + 1 <= MaxDepth
    <3> HIDE DEF Good
    <3> QED  BY <1>1, <1>3, <2>1, <2>2
  <2>3. CASE ~(m + 1 <= MaxDepth)
    BY <2>1, <2>3
  <2> QED  BY <2>2, <2>3
<1>4. MaxDepth \in Good
  <2> HIDE DEF Good
  <2> QED  BY <1>0, <1>2, <1>3, NumberInduction
<1> QED  BY <1>0, <1>4

\* The walk that Follow starts.
LEMMA StartTyped ==
  ASSUME NEW u, IsUnits(u)
  PROVE  /\ Start(u) \in Walks /\ Start(u).todo \in Seq(Item)
         /\ AtDepth(Start(u).todo, MaxDepth) /\ NamesIn(Start(u).todo) = DOMAIN u
         /\ Start(u).scale = One /\ Start(u).powers = [n \in Leaves |-> Zero]
<1>1. PICK s : s = Items(u, One, 1)
  OBVIOUS
<1>2. /\ s \in Seq(Item) /\ \A i \in DOMAIN s : s[i].depth = 1 /\ s[i].name \in DOMAIN u
      /\ \A n \in DOMAIN u : \E i \in DOMAIN s : s[i].name = n
  <2>1. One \in Rational /\ 1 \in Nat
    BY OneStays
  <2>2. /\ Items(u, One, 1) \in Seq(Item)
        /\ \A i \in DOMAIN Items(u, One, 1) :
             Items(u, One, 1)[i].depth = 1 /\ Items(u, One, 1)[i].name \in DOMAIN u
        /\ \A n \in DOMAIN u : \E i \in DOMAIN Items(u, One, 1) : Items(u, One, 1)[i].name = n
    BY <2>1, ItemsTyped
  <2> QED  BY <1>1, <2>2
<1>3. AtDepth(s, MaxDepth) /\ NamesIn(s) = DOMAIN u
  <2>1. MaxDepth + 1 - MaxDepth = 1
    BY LoadingAssumption
  <2> QED  BY <1>2, <2>1 DEF AtDepth, NamesIn
<1>4. [n \in Leaves |-> Zero] \in [Leaves -> Rational]
  BY OneStays
<1> QED  BY <1>1, <1>2, <1>3, <1>4, OneStays DEF Start, Walks

\* Following references answers if they end, and overflows only if some do not.
LEMMA FollowEnds ==
  ASSUME NEW E, EntriesOK(E), NEW u, IsUnits(u), NEW c, NEW b, IsWithin(E, c), IsBeyond(E, b)
  PROVE  /\ Follow(E, u).end = "answered" <=> DOMAIN u \subseteq c[MaxDepth]
         /\ Follow(E, u).end = "overflow" => DOMAIN u \cap b[MaxDepth] # {}
<1>1. PICK s : s = Start(u).todo
  OBVIOUS
<1>2. /\ Start(u) \in Walks /\ s \in Seq(Item) /\ AtDepth(s, MaxDepth) /\ NamesIn(s) = DOMAIN u
  BY <1>1, StartTyped
<1>3. << >> \in Seq(Item) /\ s \o << >> = s
  BY <1>2
<1>4. PICK v \in Walks : /\ Comes(E, Start(u), v)
                         /\ Settled(E, v, s, << >>, c[MaxDepth], b[MaxDepth])
  BY <1>1, <1>2, <1>3, WalkSettles DEF Settling, Settles
<1>5. Stops(E, v)
  BY <1>4 DEF Settled, Stops
<1>6. Follow(E, u) = FollowTurn(E, << >>, v)
  BY <1>2, <1>4, <1>5, FollowStops
<1>7. CASE v.todo = << >>
  <2>1. Follow(E, u).end = "answered"
    BY <1>6, <1>7 DEF FollowTurn, Answer
  <2>2. DOMAIN u \subseteq c[MaxDepth]
    BY <1>2, <1>4, <1>7 DEF Settled
  <2> QED  BY <2>1, <2>2
<1>8. CASE v.todo # << >>
  <2>1. Follow(E, u) = IF Head(v.todo).depth > MaxDepth THEN Overflow ELSE Undefined
    BY <1>5, <1>6, <1>8 DEF FollowTurn, Stops
  <2>2. /\ Follow(E, u).end = IF Head(v.todo).depth > MaxDepth THEN "overflow" ELSE "undefined"
    BY <2>1 DEF Overflow, Undefined
  <2>3. /\ ~(NamesIn(s) \subseteq c[MaxDepth])
        /\ Head(v.todo).depth > MaxDepth => NamesIn(s) \cap b[MaxDepth] # {}
    BY <1>4, <1>8 DEF Settled
  <2> QED  BY <1>2, <2>2, <2>3
<1> QED  BY <1>7, <1>8

-----------------------------------------------------------------------------
(* The walks that Follow makes stop *)

WithinTurn(E, f, k) ==
  IF k = 0 THEN {}
  ELSE {n \in DOMAIN E : E[n].is = "leaf" \/ DOMAIN E[n].reference \subseteq f[k - 1]}
BeyondTurn(E, f, k) ==
  IF k = 0 THEN STRING
  ELSE {n \in DOMAIN E : E[n].is # "leaf" /\ DOMAIN E[n].reference \cap f[k - 1] # {}}

\* There are the names whose references end within so many names.
LEMMA WithinTurns ==
  ASSUME NEW E
  PROVE  \A m \in Nat : \E f : f = [k \in 0..m |-> WithinTurn(E, f, k)]
<1> DEFINE Is(f, m) == f = [k \in 0..m |-> WithinTurn(E, f, k)]
           Good == {m \in Nat : \E f : Is(f, m)}
<1>1. 0 \in Good
  <2>1. Is([k \in 0..0 |-> {}], 0)
    BY DEF WithinTurn
  <2> QED  BY <2>1
<1>2. ASSUME NEW m \in Nat, m \in Good PROVE m + 1 \in Good
  <2>1. PICK f : Is(f, m)
    BY <1>2
  <2>2. PICK g : g = [k \in 0..(m + 1) |-> WithinTurn(E, f, k)]
    OBVIOUS
  <2>3. \A k \in 0..m : f[k] = WithinTurn(E, f, k)
    BY <2>1
  <2>4. \A k \in 0..m : g[k] = f[k]
    BY <2>2, <2>3
  <2>5. ASSUME NEW k \in 0..(m + 1) PROVE WithinTurn(E, g, k) = WithinTurn(E, f, k)
    <3>1. k # 0 => k - 1 \in 0..m
      OBVIOUS
    <3>2. k # 0 => g[k - 1] = f[k - 1]
      BY <2>4, <3>1
    <3> QED  BY <3>2 DEF WithinTurn
  <2>6. Is(g, m + 1)
    BY <2>2, <2>5
  <2> HIDE DEF Is
  <2>7. \E h : Is(h, m + 1)
    BY <2>6
  <2> QED  BY <2>7
<1>3. \A m \in Nat : m \in Good
  <2> HIDE DEF Good
  <2> QED  BY <1>1, <1>2, NumberInduction
<1> QED  BY <1>3

\* There are the names with references longer than so many names.
LEMMA BeyondTurns ==
  ASSUME NEW E
  PROVE  \A m \in Nat : \E f : f = [k \in 0..m |-> BeyondTurn(E, f, k)]
<1> DEFINE Is(f, m) == f = [k \in 0..m |-> BeyondTurn(E, f, k)]
           Good == {m \in Nat : \E f : Is(f, m)}
<1>1. 0 \in Good
  <2>1. Is([k \in 0..0 |-> STRING], 0)
    BY DEF BeyondTurn
  <2> QED  BY <2>1
<1>2. ASSUME NEW m \in Nat, m \in Good PROVE m + 1 \in Good
  <2>1. PICK f : Is(f, m)
    BY <1>2
  <2>2. PICK g : g = [k \in 0..(m + 1) |-> BeyondTurn(E, f, k)]
    OBVIOUS
  <2>3. \A k \in 0..m : f[k] = BeyondTurn(E, f, k)
    BY <2>1
  <2>4. \A k \in 0..m : g[k] = f[k]
    BY <2>2, <2>3
  <2>5. ASSUME NEW k \in 0..(m + 1) PROVE BeyondTurn(E, g, k) = BeyondTurn(E, f, k)
    <3>1. k # 0 => k - 1 \in 0..m
      OBVIOUS
    <3>2. k # 0 => g[k - 1] = f[k - 1]
      BY <2>4, <3>1
    <3> QED  BY <3>2 DEF BeyondTurn
  <2>6. Is(g, m + 1)
    BY <2>2, <2>5
  <2> HIDE DEF Is
  <2>7. \E h : Is(h, m + 1)
    BY <2>6
  <2> QED  BY <2>7
<1>3. \A m \in Nat : m \in Good
  <2> HIDE DEF Good
  <2> QED  BY <1>1, <1>2, NumberInduction
<1> QED  BY <1>3

\* A walk that follows references stops somewhere, and the answer is what it stops with.
LEMMA FollowComes ==
  ASSUME NEW E, EntriesOK(E), NEW u, IsUnits(u)
  PROVE  \E v \in Walks : /\ Comes(E, Start(u), v) /\ Stops(E, v)
                          /\ Follow(E, u) = FollowTurn(E, << >>, v)
<1>1. MaxDepth \in Nat
  BY LoadingAssumption
<1>2. PICK c : c = [k \in 0..MaxDepth |-> WithinTurn(E, c, k)]
  BY <1>1, WithinTurns
<1>3. IsWithin(E, c)
  BY <1>2 DEF IsWithin, WithinTurn
<1>4. PICK b : b = [k \in 0..MaxDepth |-> BeyondTurn(E, b, k)]
  BY <1>1, BeyondTurns
<1>5. IsBeyond(E, b)
  BY <1>4 DEF IsBeyond, BeyondTurn
<1>6. PICK s : s = Start(u).todo
  OBVIOUS
<1>7. Start(u) \in Walks /\ s \in Seq(Item) /\ AtDepth(s, MaxDepth)
  BY <1>6, StartTyped
<1>8. << >> \in Seq(Item) /\ s \o << >> = s
  BY <1>7
<1>9. PICK v \in Walks : /\ Comes(E, Start(u), v)
                         /\ Settled(E, v, s, << >>, c[MaxDepth], b[MaxDepth])
  BY <1>3, <1>5, <1>6, <1>7, <1>8, WalkSettles DEF Settling, Settles
<1>10. Stops(E, v)
  BY <1>9 DEF Settled, Stops
<1> QED  BY <1>7, <1>9, <1>10, FollowStops

\* An answer is one of a walk that has nothing left to visit.
LEMMA AnswerComes ==
  ASSUME NEW E, EntriesOK(E), NEW u, IsUnits(u), Follow(E, u).end = "answered"
  PROVE  \E v \in Walks : /\ Comes(E, Start(u), v) /\ v.todo = << >>
                          /\ Follow(E, u) = Answer(Scaled(v.scale, NewUnitsContainer(v.powers)))
<1>1. PICK v \in Walks : /\ Comes(E, Start(u), v) /\ Stops(E, v)
                         /\ Follow(E, u) = FollowTurn(E, << >>, v)
  BY FollowComes
<1>2. v.todo = << >>
  <2> SUFFICES ASSUME v.todo # << >> PROVE FALSE
    OBVIOUS
  <2>1. Follow(E, u) = Overflow \/ Follow(E, u) = Undefined
    BY <1>1 DEF Stops, FollowTurn
  <2> QED  BY <2>1 DEF Overflow, Undefined
<1> QED  BY <1>1, <1>2 DEF FollowTurn

\* Entries that are added change no answer.
Extends(E, F) == DOMAIN E \subseteq DOMAIN F /\ \A n \in DOMAIN E : F[n] = E[n]
LEMMA AnswersStay ==
  ASSUME NEW E, EntriesOK(E), NEW F, EntriesOK(F), Extends(E, F),
         NEW u, IsUnits(u), Follow(E, u).end = "answered"
  PROVE  Follow(F, u) = Follow(E, u)
<1>1. PICK v \in Walks : /\ Comes(E, Start(u), v) /\ v.todo = << >>
                         /\ Follow(E, u) = Answer(Scaled(v.scale, NewUnitsContainer(v.powers)))
  BY AnswerComes
<1>2. \A S \in SUBSET Walks : Kept(F, S) => Kept(E, S)
  <2> SUFFICES ASSUME NEW S \in SUBSET Walks, Kept(F, S), NEW w \in S, ~Stops(E, w)
               PROVE  Further(E, w) \in S
    BY DEF Kept
  <2>1. ~Stops(F, w) /\ Further(F, w) = Further(E, w)
    BY DEF Stops, Further, Extends
  <2> QED  BY <2>1 DEF Kept
<1>3. Comes(F, Start(u), v)
  BY <1>1, <1>2 DEF Comes
<1>4. Stops(F, v) /\ Start(u) \in Walks
  BY <1>1, StartTyped DEF Stops
<1>5. Follow(F, u) = FollowTurn(F, << >>, v)
  BY <1>3, <1>4, FollowStops
<1> QED  BY <1>1, <1>5 DEF FollowTurn
-----------------------------------------------------------------------------
(* Products of leaves *)

\* Leaves are among the names D; dimensions have no factors.
FindsIn(E, D) == \A n \in DOMAIN E : E[n].is = "leaf" => E[n].name \in D
Unscaled(E) == \A n \in DOMAIN E : E[n].is # "leaf" => E[n].scale = One
Among(D) == {w \in Walks : \A n \in Leaves : w.powers[n] # Zero => n \in D}
ScaledByOne == {w \in Walks : w.scale = One}

\* A walk adds up powers of leaves.
LEMMA AmongKept ==
  ASSUME NEW E, EntriesOK(E), NEW D, FindsIn(E, D)
  PROVE  Kept(E, Among(D))
<1> SUFFICES ASSUME NEW w \in Among(D), ~Stops(E, w) PROVE Further(E, w) \in Among(D)
  BY DEF Kept
<1>1. w \in Walks /\ \A n \in Leaves : w.powers[n] # Zero => n \in D
  BY DEF Among
<1>2. Further(E, w) \in Walks
  BY <1>1, FurtherTyped
<1>3. PICK it, e : it = Head(w.todo) /\ e = E[it.name]
  OBVIOUS
<1>4. it.name \in DOMAIN E
  BY <1>3 DEF Stops
<1>5. w.powers \in [Leaves -> Rational]
  BY <1>1 DEF Walks
<1>6. CASE e.is = "leaf"
  <2>1. e.name \in D
    BY <1>3, <1>4, <1>6 DEF FindsIn
  <2>2. PICK p : p = [w.powers EXCEPT ![e.name] = Plus(@, it.exp)]
    OBVIOUS
  <2>3. Further(E, w).powers = p
    BY <1>3, <1>6, <2>2 DEF Further, Onward
  <2>4. \A n \in Leaves : n # e.name => p[n] = w.powers[n]
    BY <1>5, <2>2
  <2>5. \A n \in Leaves : p[n] # Zero => n \in D
    BY <1>1, <2>1, <2>4
  <2> QED  BY <1>2, <2>3, <2>5 DEF Among
<1>7. CASE e.is # "leaf"
  <2>1. Further(E, w).powers = w.powers
    BY <1>3, <1>7 DEF Further, Onward
  <2> QED  BY <1>1, <1>2, <2>1 DEF Among
<1> QED  BY <1>6, <1>7

\* A walk through dimensions multiplies nothing.
LEMMA ScaledByOneKept ==
  ASSUME NEW E, EntriesOK(E), Unscaled(E)
  PROVE  Kept(E, ScaledByOne)
<1> SUFFICES ASSUME NEW w \in ScaledByOne, ~Stops(E, w) PROVE Further(E, w) \in ScaledByOne
  BY DEF Kept
<1>1. w \in Walks /\ w.scale = One
  BY DEF ScaledByOne
<1>2. Further(E, w) \in Walks
  BY <1>1, FurtherTyped
<1>3. PICK it, e : it = Head(w.todo) /\ e = E[it.name]
  OBVIOUS
<1>4. it.name \in DOMAIN E
  BY <1>3 DEF Stops
<1>5. CASE e.is = "leaf"
  <2>1. Further(E, w).scale = One
    BY <1>1, <1>3, <1>5 DEF Further, Onward
  <2> QED  BY <1>2, <2>1 DEF ScaledByOne
<1>6. CASE e.is # "leaf"
  <2>1. e.scale = One
    BY <1>3, <1>4, <1>6 DEF Unscaled
  <2>2. Further(E, w).scale = Times(One, Power(One, it.exp))
    BY <1>1, <1>3, <1>6, <2>1 DEF Further, Onward
  <2>3. Further(E, w).scale = One
    BY <2>2, OneStays
  <2> QED  BY <1>2, <2>3 DEF ScaledByOne
<1> QED  BY <1>5, <1>6

\* So what is found is a product of leaves.
LEMMA ProductsFound ==
  ASSUME NEW E, EntriesOK(E), NEW D, FindsIn(E, D), NEW u, IsUnits(u),
         Follow(E, u).end = "answered"
  PROVE  /\ \E s : Follow(E, u) = Answer(Scaled(s, Follow(E, u).is.units))
         /\ IsContainer(Follow(E, u).is.units) /\ Names(Follow(E, u).is.units) \subseteq D
<1>1. PICK v \in Walks : /\ Comes(E, Start(u), v) /\ v.todo = << >>
                         /\ Follow(E, u) = Answer(Scaled(v.scale, NewUnitsContainer(v.powers)))
  BY AnswerComes
<1>2. /\ Start(u) \in Walks /\ Start(u).powers = [n \in Leaves |-> Zero]
  BY StartTyped
<1>3. Start(u) \in Among(D)
  BY <1>2 DEF Among
<1>4. v \in Among(D)
  <2>1. Among(D) \in SUBSET Walks
    BY DEF Among
  <2> QED  BY <1>1, <1>3, <2>1, AmongKept DEF Comes
<1>5. v.powers \in [Leaves -> Rational] /\ \A n \in Leaves : v.powers[n] # Zero => n \in D
  BY <1>4 DEF Among, Walks
<1>6. PICK x : x = NewUnitsContainer(v.powers)
  OBVIOUS
<1>7. x = [n \in {m \in Leaves : v.powers[m] # Zero} |-> v.powers[n]]
  BY <1>5, <1>6 DEF NewUnitsContainer
<1>8. Follow(E, u) = Answer(Scaled(v.scale, x)) /\ Follow(E, u).is.units = x
  BY <1>1, <1>6 DEF Answer, Scaled
<1>9. IsContainer(x) /\ Names(x) \subseteq D
  BY <1>5, <1>7 DEF IsContainer, IsRational, Names
<1> QED  BY <1>8, <1>9

\* And without factors there is none in the end.
LEMMA DimensionsFound ==
  ASSUME NEW E, EntriesOK(E), Unscaled(E), NEW u, IsUnits(u), Follow(E, u).end = "answered"
  PROVE  Follow(E, u) = Answer(Scaled(One, Follow(E, u).is.units))
<1>1. PICK v \in Walks : /\ Comes(E, Start(u), v) /\ v.todo = << >>
                         /\ Follow(E, u) = Answer(Scaled(v.scale, NewUnitsContainer(v.powers)))
  BY AnswerComes
<1>2. Start(u) \in ScaledByOne
  BY StartTyped DEF ScaledByOne
<1>3. v \in ScaledByOne
  <2>1. ScaledByOne \in SUBSET Walks
    BY DEF ScaledByOne
  <2> QED  BY <1>1, <1>2, <2>1, ScaledByOneKept DEF Comes
<1>4. PICK x : x = NewUnitsContainer(v.powers)
  OBVIOUS
<1>5. Follow(E, u) = Answer(Scaled(One, x))
  BY <1>1, <1>3, <1>4 DEF ScaledByOne
<1>6. Follow(E, u).is.units = x
  BY <1>5 DEF Answer, Scaled
<1> QED  BY <1>5, <1>6

-----------------------------------------------------------------------------
(* What is registered, and what follows for its entries *)

IsProduct(u) == IsUnits(u) /\ IsContainer(u)
UnitOK(u) ==
  /\ DOMAIN u = {"scale", "offset", "reference", "isBase"}
  /\ u.scale \in Rational /\ IsProduct(u.reference)
DimensionOK(d) == IsProduct(d.reference) /\ (d.isBase => d.reference = Empty)

\* Base units lead to dimensions, and have no prefix.
UnitsOK ==
  \A n \in DOMAIN byName :
    /\ UnitOK(byName[n])
    /\ byName[n].isBase => n \in Leaves /\ Names(byName[n].reference) \subseteq DOMAIN dimensions
PrefixesOK == \A p \in DOMAIN prefixes : prefixes[p] \in Rational
DimensionsOK ==
  /\ DOMAIN dimensions \subseteq Bracketed
  /\ \A d \in DOMAIN dimensions : DimensionOK(dimensions[d])
RegistryOK == NamesOK /\ UnitsOK /\ PrefixesOK /\ DimensionsOK

\* Nothing is a product.
LEMMA EmptyIsProduct == IsProduct(Empty)
<1>1. DOMAIN Empty = {}
  BY DEF Empty
<1>2. IsFiniteSet({})
  BY FS_EmptySet
<1> QED  BY <1>1, <1>2 DEF IsProduct, IsUnits, IsContainer, Names

\* The products that names and values stand for.
LEMMA PairIsUnits ==
  ASSUME NEW n \in STRING
  PROVE  IsProduct(UnitPair(n, One)) /\ IsUnits(UnitPair(n, One)) /\ DOMAIN UnitPair(n, One) = {n}
<1>1. PICK u : u = UnitPair(n, One)
  OBVIOUS
<1>2. {x \in {n} : [y \in {n} |-> One][x] # Zero} = {n}
  BY OneStays
<1>3. u = [x \in {n} |-> One]
  BY <1>1, <1>2 DEF UnitPair, NewUnitsContainer
<1>4. IsFiniteSet({n})
  BY FS_Singleton
<1>5. IsUnits(u)
  BY <1>3, <1>4, OneStays DEF IsUnits
<1>6. IsContainer(u)
  BY <1>3, OneStays DEF IsContainer, IsRational, Names
<1> QED  BY <1>1, <1>3, <1>5, <1>6 DEF IsProduct

\* And the values.
LEMMA MeaningIsProduct ==
  ASSUME NEW v \in DOMAIN Meaning
  PROVE  IsProduct(Meaning[v].units) /\ Meaning[v].scale \in Rational
<1>1. /\ IsContainer(Meaning[v].units) /\ IsRational(Meaning[v].scale)
      /\ IsFiniteSet(Names(Meaning[v].units)) /\ Names(Meaning[v].units) \subseteq STRING
  BY LoadingAssumption
<1> QED  BY <1>1 DEF IsProduct, IsUnits, IsContainer, IsRational, Names

\* A prefixed unit is one of the registry's, also before it is registered.
LEMMA SynthesizedTyped ==
  ASSUME RegistryOK, NEW g \in DOMAIN Split,
         NEW p \in DOMAIN prefixes, NEW u \in DOMAIN byName, Split[g] = [prefix |-> p, core |-> u]
  PROVE  UnitOK(Synthesized(g)) /\ ~Synthesized(g).isBase
<1>1. PICK s : s = Synthesized(g)
  OBVIOUS
<1>2. Split[g].prefix = p /\ Split[g].core = u
  OBVIOUS
<1>3. s = [scale |-> prefixes[p], offset |-> Zero, reference |-> UnitPair(u, One), isBase |-> FALSE]
  BY <1>1, <1>2 DEF Synthesized
<1>4. prefixes[p] \in Rational /\ u \in STRING
  BY DEF RegistryOK, PrefixesOK, NamesOK
<1>5. IsProduct(UnitPair(u, One))
  BY <1>4, PairIsUnits
<1>6. UnitOK(s) /\ ~s.isBase
  BY <1>3, <1>4, <1>5 DEF UnitOK
<1> QED  BY <1>1, <1>6

\* What a name is read as.
LEMMA ReadingTyped ==
  ASSUME RegistryOK, NEW n \in Readable
  PROVE  /\ GetName(n) \in STRING
         /\ ~Nameless(GetName(n)) =>
              /\ UnitOK(Named(GetName(n)))
              /\ Named(GetName(n)).isBase => GetName(n) \in DOMAIN byName \cap Leaves
<1>1. PICK g : g = GetName(n) /\ g # Missing
  BY DEF Readable
<1>2. CASE g \in DOMAIN byName
  <2>1. Named(g) = byName[g] /\ UnitOK(byName[g]) /\ g \in STRING
    BY <1>2 DEF Named, RegistryOK, UnitsOK, NamesOK
  <2> QED  BY <1>1, <1>2, <2>1 DEF RegistryOK, UnitsOK
<1>3. CASE g \in DOMAIN names \ DOMAIN byName
  BY <1>1, <1>3 DEF Nameless, RegistryOK, NamesOK
<1>4. CASE g \notin DOMAIN names \cup DOMAIN byName
  <2>1. NamesOK /\ GetName(n) \notin DOMAIN names \cup {Missing}
    BY <1>1, <1>4 DEF RegistryOK
  <2>2. PICK h, p, u : /\ h = g /\ h \in DOMAIN Split /\ Split[h] = [prefix |-> p, core |-> u]
                       /\ p \in DOMAIN prefixes /\ u \in DOMAIN byName
    BY <1>1, <2>1, CoinedName
  <2>3. UnitOK(Synthesized(g)) /\ ~Synthesized(g).isBase
    BY <2>2, SynthesizedTyped
  <2>4. Named(g) = Synthesized(g) /\ g \in STRING
    BY <1>4, <2>2, ReadingAssumption DEF Named
  <2> QED  BY <1>1, <2>3, <2>4
<1> QED  BY <1>2, <1>3, <1>4

\* What names lead to can be followed.
LEMMA EntriesTyped ==
  ASSUME RegistryOK
  PROVE  /\ EntriesOK(DimEntries) /\ Unscaled(DimEntries) /\ FindsIn(DimEntries, DOMAIN dimensions)
         /\ EntriesOK(RootEntries) /\ FindsIn(RootEntries, DOMAIN byName)
<1>1. UnitsOK /\ DimensionsOK /\ Bracketed \subseteq Leaves /\ One \in Rational
  BY OneStays DEF RegistryOK, Leaves
<1>2. PICK E : E = DimEntries
  OBVIOUS
<1>3. DOMAIN E = (Readable \ Bracketed) \cup (DOMAIN dimensions \cap Bracketed)
  BY <1>2 DEF DimEntries
<1>4. ASSUME NEW n \in DOMAIN E
      PROVE  /\ IsEntry(E[n])
             /\ IF E[n].is = "leaf" THEN E[n].name \in DOMAIN dimensions ELSE E[n].scale = One
  <2>1. CASE n \notin Bracketed
    <3>1. PICK ref : /\ ref = IF Nameless(GetName(n)) THEN Empty ELSE Named(GetName(n)).reference
      OBVIOUS
    <3>2. E[n] = Inner(One, ref)
      BY <1>2, <1>3, <2>1, <3>1 DEF DimEntries
    <3>3. IsUnits(ref)
      <4>1. n \in Readable
        BY <1>3, <2>1
      <4>2. IsProduct(ref)
        BY <3>1, <4>1, ReadingTyped, EmptyIsProduct DEF UnitOK
      <4> QED  BY <4>2 DEF IsProduct
    <3>4. E[n].is = "inner" /\ E[n].scale = One /\ E[n].reference = ref
      BY <3>2 DEF Inner
    <3> QED  BY <1>1, <3>3, <3>4 DEF IsEntry
  <2>2. CASE n \in Bracketed /\ dimensions[n].isBase
    <3>1. E[n] = Leaf(n)
      BY <1>2, <1>3, <2>2 DEF DimEntries
    <3>2. E[n].is = "leaf" /\ E[n].name = n
      BY <3>1 DEF Leaf
    <3> QED  BY <1>1, <1>3, <2>2, <3>2 DEF IsEntry
  <2>3. CASE n \in Bracketed /\ ~dimensions[n].isBase
    <3>1. E[n] = Inner(One, dimensions[n].reference)
      BY <1>2, <1>3, <2>3 DEF DimEntries
    <3>2. IsUnits(dimensions[n].reference)
      BY <1>1, <1>3, <2>3 DEF DimensionsOK, DimensionOK, IsProduct
    <3>3. E[n].is = "inner" /\ E[n].scale = One /\ E[n].reference = dimensions[n].reference
      BY <3>1 DEF Inner
    <3> QED  BY <1>1, <3>2, <3>3 DEF IsEntry
  <2> QED  BY <2>1, <2>2, <2>3
<1>5. PICK R : R = RootEntries
  OBVIOUS
<1>6. DOMAIN R = Rooted
  BY <1>5 DEF RootEntries
<1>7. ASSUME NEW n \in DOMAIN R
      PROVE  IsEntry(R[n]) /\ (R[n].is = "leaf" => R[n].name \in DOMAIN byName)
  <2>1. PICK g, u : g = GetName(n) /\ u = Named(g)
    OBVIOUS
  <2>2. UnitOK(u) /\ (u.isBase => g \in DOMAIN byName \cap Leaves)
    BY <1>6, <2>1, ReadingTyped DEF Rooted
  <2>3. R[n] = IF u.isBase THEN Leaf(g) ELSE Inner(u.scale, u.reference)
    BY <1>5, <1>6, <2>1 DEF RootEntries
  <2>4. CASE u.isBase
    <3>1. R[n].is = "leaf" /\ R[n].name = g
      BY <2>3, <2>4 DEF Leaf
    <3> QED  BY <2>2, <2>4, <3>1 DEF IsEntry
  <2>5. CASE ~u.isBase
    <3>1. R[n].is = "inner" /\ R[n].scale = u.scale /\ R[n].reference = u.reference
      BY <2>3, <2>5 DEF Inner
    <3> QED  BY <2>2, <3>1 DEF IsEntry, UnitOK, IsProduct
  <2> QED  BY <2>4, <2>5
<1> QED  BY <1>2, <1>4, <1>5, <1>7 DEF EntriesOK, FindsIn, Unscaled

-----------------------------------------------------------------------------
(* What is cached *)

\* Products of dimensions for products, amounts in units of the registry, names for
\* spellings and factors for pairs.
CacheOK(cache) ==
  \A u \in DOMAIN cache :
    IsUnits(u) /\ IsContainer(cache[u]) /\ Names(cache[u]) \subseteq DOMAIN dimensions
RootOK(s) == IsContainer(s.units) /\ Names(s.units) \subseteq DOMAIN byName
CachesOK ==
  /\ \A n \in DOMAIN parseCache : parseCache[n] \in DOMAIN names
  /\ CacheOK(dimCache)
  /\ \A u \in DOMAIN rootCache : RootOK(rootCache[u])
  /\ \A p \in DOMAIN convCache : p = <<p[1], p[2]>>

\* They are what the definitions say.
FreshIn(E, cache) == \A u \in DOMAIN cache : Follow(E, u) = Answer(Scaled(One, cache[u]))
RootRight(u, s) ==
  LET root == Follow(RootEntries, u)
  IN  root.end = "answered" /\ s \in {root.is, Checked(root.is)}
FactorRight(p, f) == \E s : RootRight(Div(p[1], p[2]), s) /\ f = s.scale
CachesFresh ==
  /\ \A n \in DOMAIN parseCache : parseCache[n] = GetName(n)
  /\ FreshIn(DimEntries, dimCache)
  /\ \A u \in DOMAIN rootCache : RootRight(u, rootCache[u])
  /\ \A p \in DOMAIN convCache : FactorRight(p, convCache[p])

\* The dimensions of a product, cached or not.
LEMMA DimensionalityTyped ==
  ASSUME RegistryOK, CacheOK(dimCache), NEW u, IsUnits(u), Dimensionality(u).end = "answered"
  PROVE  \E d : /\ Dimensionality(u) = Answer(Scaled(One, d)) /\ Dimensionality(u).is.units = d
                /\ IsContainer(d) /\ Names(d) \subseteq DOMAIN dimensions
                /\ FreshIn(DimEntries, dimCache) => Follow(DimEntries, u) = Answer(Scaled(One, d))
<1>1. CASE u \in DOMAIN dimCache
  <2>1. Dimensionality(u) = Answer(Scaled(One, dimCache[u]))
    BY <1>1 DEF Dimensionality
  <2>2. Dimensionality(u).is.units = dimCache[u]
    BY <2>1 DEF Answer, Scaled
  <2> QED  BY <1>1, <2>1, <2>2 DEF CacheOK, FreshIn
<1>2. CASE u \notin DOMAIN dimCache
  <2>1. PICK E, d : E = DimEntries /\ d = Follow(E, u).is.units
    OBVIOUS
  <2>2. Dimensionality(u) = Follow(E, u)
    BY <1>2, <2>1 DEF Dimensionality
  <2>3. EntriesOK(E) /\ Unscaled(E) /\ FindsIn(E, DOMAIN dimensions)
    BY <2>1, EntriesTyped
  <2>4. Follow(E, u) = Answer(Scaled(One, d))
    BY <2>1, <2>2, <2>3, DimensionsFound
  <2>5. IsContainer(d) /\ Names(d) \subseteq DOMAIN dimensions
    BY <2>1, <2>2, <2>3, ProductsFound
  <2> QED  BY <2>1, <2>2, <2>4, <2>5
<1> QED  BY <1>1, <1>2

\* What is cached, when answers are added to it.
LEMMA CachedTyped ==
  ASSUME RegistryOK, CacheOK(dimCache),
         NEW us, \A u \in us : IsUnits(u) /\ Dimensionality(u).end = "answered"
  PROVE  /\ CacheOK(Cached(us))
         /\ FreshIn(DimEntries, dimCache) => FreshIn(DimEntries, Cached(us))
<1>1. PICK c : c = Cached(us)
  OBVIOUS
<1>2. /\ DOMAIN c = DOMAIN dimCache \cup (us \ {Empty})
      /\ \A u \in DOMAIN c : c[u] = Dimensionality(u).is.units
  BY <1>1 DEF Cached
<1>3. ASSUME NEW u \in DOMAIN c PROVE IsUnits(u) /\ Dimensionality(u).end = "answered"
  <2>1. CASE u \in DOMAIN dimCache
    <3>1. Dimensionality(u) = Answer(Scaled(One, dimCache[u]))
      BY <2>1 DEF Dimensionality
    <3> QED  BY <2>1, <3>1 DEF Answer, CacheOK
  <2> QED  BY <1>2, <2>1
<1>4. ASSUME NEW u \in DOMAIN c
      PROVE  /\ IsUnits(u) /\ IsContainer(c[u]) /\ Names(c[u]) \subseteq DOMAIN dimensions
             /\ FreshIn(DimEntries, dimCache) => Follow(DimEntries, u) = Answer(Scaled(One, c[u]))
  BY <1>2, <1>3, DimensionalityTyped
<1> QED  BY <1>1, <1>4 DEF CacheOK, FreshIn

\* The root units of a product, cached or not.
LEMMA RootUnitsTyped ==
  ASSUME RegistryOK, \A v \in DOMAIN rootCache : RootOK(rootCache[v]),
         NEW u, IsUnits(u), NEW check, RootUnits(u, check).end = "answered"
  PROVE  /\ RootOK(RootUnits(u, check).is)
         /\ (\A v \in DOMAIN rootCache : RootRight(v, rootCache[v])) =>
              RootRight(u, RootUnits(u, check).is)
<1>1. CASE u \in DOMAIN rootCache
  <2>1. RootUnits(u, check).is = rootCache[u]
    BY <1>1 DEF RootUnits, Answer
  <2> QED  BY <1>1, <2>1
<1>2. CASE u \notin DOMAIN rootCache
  <2>1. PICK found : found = Follow(RootEntries, u)
    OBVIOUS
  <2>2. RootUnits(u, check) = IF check /\ found.end = "answered" THEN Answer(Checked(found.is))
                              ELSE found
    BY <1>2, <2>1 DEF RootUnits
  <2>3. found.end = "answered"
    BY <2>2
  <2>4. EntriesOK(RootEntries) /\ FindsIn(RootEntries, DOMAIN byName)
    BY EntriesTyped
  <2>5. PICK s : found = Answer(Scaled(s, found.is.units))
    BY <2>1, <2>3, <2>4, ProductsFound
  <2>6. RootOK(found.is)
    BY <2>1, <2>3, <2>4, ProductsFound DEF RootOK
  <2>7. found.is = [scale |-> s, units |-> found.is.units]
    BY <2>5 DEF Answer, Scaled
  <2>8. Checked(found.is).units = found.is.units
    BY <2>7 DEF Checked
  <2>9. RootUnits(u, check).is \in {found.is, Checked(found.is)}
    BY <2>2 DEF Answer
  <2> QED  BY <2>1, <2>3, <2>6, <2>8, <2>9 DEF RootOK, RootRight
<1> QED  BY <1>1, <1>2

-----------------------------------------------------------------------------
(* What readings come to is the same once they are registered *)

\* A name is read as before.
LEMMA ReadingsStay ==
  ASSUME NamesOK, NEW new, Interned(new), UNCHANGED prefixes
  PROVE  /\ \A n : GetName(n)' = GetName(n)
         /\ Readable' = Readable
         /\ \A g : Nameless(g)' = Nameless(g) /\ Named(g)' = Named(g) /\ IsOffset(g)' = IsOffset(g)
<1>1. /\ DOMAIN names' = DOMAIN names \cup new /\ DOMAIN byName' = DOMAIN byName \cup new
      /\ \A n \in DOMAIN names : names'[n] = names[n] /\ names[n] \in DOMAIN byName
      /\ \A n \in DOMAIN byName : byName'[n] = byName[n]
      /\ \A g \in new : names'[g] = g /\ byName'[g] = Synthesized(g)
      /\ \A g \in new : g \in FullNames /\ g \in DOMAIN Split /\ g \notin DOMAIN names
                        /\ g \notin DOMAIN byName
  BY DEF Interned, NamesOK
<1>2. \A n \in DOMAIN Split : Split[n].core \notin new
  BY <1>1, ReadingAssumption
<1>3. \A n : IsPrefixed(n)' <=> IsPrefixed(n)
  BY <1>1, <1>2 DEF IsPrefixed
<1>4. ASSUME NEW g \in new PROVE IsPrefixed(g) /\ GetName(g) = g
  <2>0. \A h \in new :
          \E p, u : /\ h = PrefixedName[<<p, u>>] /\ Split[h] = [prefix |-> p, core |-> u]
                   /\ p \in DOMAIN prefixes /\ u \in DOMAIN byName
                   /\ names[u] = u /\ byName[u].offset = Zero
                   /\ u \in Definable \ FullNames
    BY Zenon DEF Interned
  <2>1. PICK p, u : /\ g = PrefixedName[<<p, u>>] /\ Split[g] = [prefix |-> p, core |-> u]
                    /\ p \in DOMAIN prefixes /\ u \in DOMAIN byName
                    /\ names[u] = u /\ byName[u].offset = Zero
                    /\ u \in Definable \ FullNames
    BY <2>0
  <2>2. Split[g].prefix = p /\ Split[g].core = u /\ u \in DOMAIN names
    BY <2>1 DEF NamesOK
  <2>3. IsPrefixed(g)
    BY <1>1, <2>1, <2>2 DEF IsPrefixed
  <2> QED  BY <1>1, <2>1, <2>2, <2>3 DEF GetName
<1>5. ASSUME NEW n PROVE GetName(n)' = GetName(n)
  <2>1. CASE n \in new
    <3>1. GetName(n)' = n
      BY <1>1, <2>1 DEF GetName
    <3> QED  BY <1>4, <2>1, <3>1
  <2>2. CASE n \in DOMAIN names
    BY <1>1, <2>2 DEF GetName
  <2>3. CASE n \notin DOMAIN names' /\ IsPrefixed(n)
    <3>1. n \notin DOMAIN names /\ IsPrefixed(n)'
      BY <1>1, <1>3, <2>3
    <3>2. PICK u, x : /\ u = names[Split[n].core]
                      /\ x = PrefixedName[<<Split[n].prefix, u>>]
      OBVIOUS
    <3>3. names'[Split[n].core] = u /\ byName'[u].offset = byName[u].offset
      BY <1>1, <2>3, <3>2 DEF IsPrefixed
    <3>4. GetName(n) = IF byName[u].offset # Zero THEN Missing ELSE x
      BY <2>3, <3>1, <3>2 DEF GetName
    <3>5. GetName(n)' = IF byName'[u].offset # Zero THEN Missing ELSE x
      BY <2>3, <3>1, <3>2, <3>3 DEF GetName
    <3> QED  BY <3>3, <3>4, <3>5
  <2>4. CASE n \notin DOMAIN names' /\ ~IsPrefixed(n)
    <3>1. n \notin DOMAIN names /\ ~IsPrefixed(n)'
      BY <1>1, <1>3, <2>4
    <3>2. n \in DOMAIN Plural => Plural[n] \notin new
      <4>1. SUFFICES ASSUME n \in DOMAIN Plural, Plural[n] \in new PROVE FALSE
        OBVIOUS
      <4>2. n \in DOMAIN Split /\ Split[n] = Split[Plural[n]]
        BY <1>1, <4>1, ReadingAssumption
      <4>3. IsPrefixed(Plural[n])
        BY <1>4, <4>1
      <4> QED  BY <2>4, <4>2, <4>3 DEF IsPrefixed
    <3> QED  BY <1>1, <2>4, <3>1, <3>2 DEF GetName
  <2> QED  BY <1>1, <2>1, <2>2, <2>3, <2>4
<1>6. Readable' = Readable
  <2>1. DOMAIN names' \cup DOMAIN Split \cup DOMAIN Plural
          = DOMAIN names \cup DOMAIN Split \cup DOMAIN Plural
    BY <1>1
  <2>2. Readable' = {n \in DOMAIN names' \cup DOMAIN Split \cup DOMAIN Plural : GetName(n)' # Missing}
    BY DEF Readable
  <2> QED  BY <1>5, <2>1, <2>2 DEF Readable
<1>7. ASSUME NEW g
      PROVE  Nameless(g)' = Nameless(g) /\ Named(g)' = Named(g) /\ IsOffset(g)' = IsOffset(g)
  <2>1. Synthesized(g)' = Synthesized(g)
    BY DEF Synthesized
  <2>2. CASE g \in new
    <3>1. PICK u : u = Synthesized(g)
      OBVIOUS
    <3>2. u.offset = Zero
      BY <3>1 DEF Synthesized
    <3>3. byName'[g] = u /\ g \notin DOMAIN byName /\ g \in DOMAIN byName' /\ g \notin DOMAIN names
      BY <1>1, <2>2, <3>1
    <3> QED  BY <3>1, <3>2, <3>3 DEF Nameless, Named, IsOffset
  <2>3. CASE g \notin new
    BY <1>1, <2>1, <2>3 DEF Nameless, Named, IsOffset
  <2> QED  BY <2>2, <2>3
<1> QED  BY <1>5, <1>6, <1>7

\* And so is where it leads.
LEMMA EntriesStay ==
  ASSUME NamesOK, NEW new, Interned(new), UNCHANGED <<prefixes, dimensions>>
  PROVE  DimEntries' = DimEntries /\ RootEntries' = RootEntries
         /\ \A s : Checked(s)' = Checked(s)
<1>1. /\ \A n : GetName(n)' = GetName(n)
      /\ Readable' = Readable
      /\ \A g : Nameless(g)' = Nameless(g) /\ Named(g)' = Named(g) /\ IsOffset(g)' = IsOffset(g)
  BY ReadingsStay
<1>2. Rooted' = Rooted
  BY <1>1 DEF Rooted
<1>3. DimEntries' = DimEntries
  BY <1>1 DEF DimEntries
<1>4. RootEntries' = RootEntries
  BY <1>1, <1>2 DEF RootEntries
<1>5. \A s : Checked(s)' = Checked(s)
  BY <1>1 DEF Checked
<1> QED  BY <1>3, <1>4, <1>5

-----------------------------------------------------------------------------
(* Where references lead *)

\* The recursions of Complete and Endless.
CompleteTurn(f, k) ==
  IF k = 0 THEN {}
  ELSE {n \in Rooted : UnitOf(n).isBase \/ Names(UnitOf(n).reference) \subseteq f[k - 1]}
EndlessTurn(f, k) ==
  IF k = 0 THEN STRING
  ELSE {n \in Rooted : ~UnitOf(n).isBase /\ Names(UnitOf(n).reference) \cap f[k - 1] # {}}
Completes(f) == f = [k \in 0..MaxDepth |-> CompleteTurn(f, k)]
NeverEnds(f) == f = [k \in 0..MaxDepth |-> EndlessTurn(f, k)]

\* The entries for root units are the units that names are read as.
LEMMA RootEntriesLead ==
  /\ DOMAIN RootEntries = Rooted
  /\ \A n \in Rooted : /\ RootEntries[n].is = "leaf" <=> UnitOf(n).isBase
                       /\ ~UnitOf(n).isBase => RootEntries[n].reference = UnitOf(n).reference
<1>1. PICK R : R = RootEntries
  OBVIOUS
<1>2. /\ DOMAIN R = Rooted
      /\ \A n \in Rooted : R[n] = IF UnitOf(n).isBase THEN Leaf(GetName(n))
                                  ELSE Inner(UnitOf(n).scale, UnitOf(n).reference)
  BY <1>1 DEF RootEntries, UnitOf
<1> QED  BY <1>1, <1>2 DEF Leaf, Inner

\* They say where the entries for root units lead.
LEMMA CompleteWithin ==
  \E c : IsWithin(RootEntries, c) /\ Complete = c[MaxDepth]
<1>1. MaxDepth \in Nat
  BY LoadingAssumption
<1>2. PICK R : R = RootEntries
  OBVIOUS
<1>3. \A f, k : WithinTurn(R, f, k) = CompleteTurn(f, k)
  BY <1>2, RootEntriesLead DEF WithinTurn, CompleteTurn, Names
<1>4. PICK f : f = [k \in 0..MaxDepth |-> WithinTurn(R, f, k)]
  BY <1>1, WithinTurns
<1>5. Completes(f)
  BY <1>3, <1>4 DEF Completes
<1>6. PICK c : c = CHOOSE g : Completes(g)
  OBVIOUS
<1>7. Completes(c)
  BY <1>5, <1>6
<1>8. Complete = c[MaxDepth]
  BY <1>6 DEF Complete, Completes, CompleteTurn
<1>9. \A k \in 0..MaxDepth : c[k] = WithinTurn(R, c, k)
  BY <1>3, <1>7 DEF Completes
<1>10. IsWithin(R, c)
  BY <1>9 DEF IsWithin, WithinTurn
<1> QED  BY <1>2, <1>8, <1>10

\* And where they lead round.
LEMMA EndlessBeyond ==
  \E b : IsBeyond(RootEntries, b) /\ Endless = b[MaxDepth]
<1>1. MaxDepth \in Nat
  BY LoadingAssumption
<1>2. PICK R : R = RootEntries
  OBVIOUS
<1>3. \A f, k : BeyondTurn(R, f, k) = EndlessTurn(f, k)
  BY <1>2, RootEntriesLead DEF BeyondTurn, EndlessTurn, Names
<1>4. PICK f : f = [k \in 0..MaxDepth |-> BeyondTurn(R, f, k)]
  BY <1>1, BeyondTurns
<1>5. NeverEnds(f)
  BY <1>3, <1>4 DEF NeverEnds
<1>6. PICK b : b = CHOOSE g : NeverEnds(g)
  OBVIOUS
<1>7. NeverEnds(b)
  BY <1>5, <1>6
<1>8. Endless = b[MaxDepth]
  BY <1>6 DEF Endless, NeverEnds, EndlessTurn
<1>9. \A k \in 0..MaxDepth : b[k] = BeyondTurn(R, b, k)
  BY <1>3, <1>7 DEF NeverEnds
<1>10. IsBeyond(R, b)
  BY <1>9 DEF IsBeyond, BeyondTurn
<1> QED  BY <1>2, <1>8, <1>10

\* So names are reduced to root units as WalksEnd says.
LEMMA WalksEndSuffices == RegistryOK => WalksEnd
<1> SUFFICES ASSUME RegistryOK, NEW n \in Rooted
             PROVE  /\ Follow(RootEntries, UnitPair(n, One)).end = "answered" <=> n \in Complete
                    /\ Follow(RootEntries, UnitPair(n, One)).end = "overflow" => n \in Endless
  BY DEF WalksEnd
<1>1. n \in STRING
  BY ReadingAssumption DEF Rooted, Readable, RegistryOK, NamesOK
<1>2. PICK u : u = UnitPair(n, One)
  OBVIOUS
<1>3. IsUnits(u) /\ DOMAIN u = {n}
  BY <1>1, <1>2, PairIsUnits
<1>4. PICK c : IsWithin(RootEntries, c) /\ Complete = c[MaxDepth]
  BY CompleteWithin
<1>5. PICK b : IsBeyond(RootEntries, b) /\ Endless = b[MaxDepth]
  BY EndlessBeyond
<1>6. /\ Follow(RootEntries, u).end = "answered" <=> DOMAIN u \subseteq c[MaxDepth]
      /\ Follow(RootEntries, u).end = "overflow" => DOMAIN u \cap b[MaxDepth] # {}
  BY <1>3, <1>4, <1>5, EntriesTyped, FollowEnds
<1> QED  BY <1>2, <1>3, <1>4, <1>5, <1>6

-----------------------------------------------------------------------------
(* The state of a registry *)

ContextsOK ==
  /\ \A x \in DOMAIN systems : DOMAIN systems[x] = {"using", "rules"}
  /\ \A c \in DOMAIN contexts :
       /\ contexts[c].name \in DOMAIN contexts
       /\ \A r \in contexts[c].transforms : {r.src, r.dst} \subseteq DOMAIN Meaning
SessionOK ==
  /\ onRedefinition \in Policy /\ pc \in {"idle", "reading", "applying", "crashed"}
  /\ pc # "reading" => text = << >> /\ parsed = NoText
  /\ pc # "applying" => pending = << >>
  /\ lines \in 0..MaxLines /\ loads \in 0..MaxLoads /\ calls \in 0..MaxCalls
LoadingInv == GroupsInv /\ RegistryOK /\ CachesOK /\ ContextsOK /\ SessionOK

\* It says what TypeOK does.
LEMMA LoadingInvSuffices == LoadingInv => TypeOK
<1> SUFFICES ASSUME LoadingInv PROVE TypeOK
  OBVIOUS
<1>1. NamesOK /\ UnitsOK /\ DimensionsOK /\ CachesOK /\ ContextsOK /\ SessionOK
  BY DEF LoadingInv, RegistryOK
<1>2. /\ Root \in DOMAIN groups
      /\ \A g \in DOMAIN groups : groups[g].members \subseteq DOMAIN byName \cup strays
  BY DEF LoadingInv, GroupsInv, GroupsOK, UnitsOfRoot
<1>3. \A n \in DOMAIN byName : UnitOK(byName[n])
  BY <1>1 DEF UnitsOK
<1>4. \A n \in DOMAIN byName : /\ DOMAIN byName[n] = {"scale", "offset", "reference", "isBase"}
                               /\ IsContainer(byName[n].reference)
  BY <1>3 DEF UnitOK, IsProduct
<1>5. \A d \in DOMAIN dimensions : dimensions[d].isBase => dimensions[d].reference = Empty
  BY <1>1 DEF DimensionsOK, DimensionOK
<1>6. \A n \in DOMAIN byName : byName[n].isBase => Names(byName[n].reference) \subseteq DOMAIN dimensions
  BY <1>1 DEF UnitsOK
<1>7. /\ \A n \in DOMAIN parseCache : parseCache[n] \in DOMAIN names
      /\ \A u \in DOMAIN dimCache :
           IsContainer(dimCache[u]) /\ Names(dimCache[u]) \subseteq DOMAIN dimensions
      /\ \A u \in DOMAIN rootCache :
           IsContainer(rootCache[u].units) /\ Names(rootCache[u].units) \subseteq DOMAIN byName
  BY <1>1 DEF CachesOK, CacheOK, RootOK
<1>8. (\A n \in DOMAIN names : names[n] \in DOMAIN byName) /\ DOMAIN byName \subseteq DOMAIN names
  BY <1>1 DEF NamesOK
<1> QED  BY <1>1, <1>2, <1>4, <1>5, <1>6, <1>7, <1>8 DEF DimensionsOK, ContextsOK, SessionOK, TypeOK

\* An empty registry is as it should be.
LEMMA LoadingInvInit == Init => LoadingInv
<1> SUFFICES ASSUME Init PROVE LoadingInv
  OBVIOUS
<1>1. GroupsInv /\ NamesOK
  BY GroupsInvInit DEF GroupsInv
<1>2. /\ DOMAIN names = {} /\ DOMAIN byName = {} /\ DOMAIN prefixes = {} /\ DOMAIN dimensions = {}
      /\ DOMAIN parseCache = {} /\ DOMAIN dimCache = {} /\ DOMAIN rootCache = {}
      /\ DOMAIN convCache = {} /\ DOMAIN systems = {} /\ DOMAIN contexts = {}
  BY DEF Init, Empty
<1>3. RegistryOK
  BY <1>1, <1>2 DEF RegistryOK, UnitsOK, PrefixesOK, DimensionsOK
<1>4. CachesOK /\ ContextsOK
  BY <1>2 DEF CachesOK, CacheOK, ContextsOK
<1>5. MaxLines \in Nat /\ MaxLoads \in Nat /\ MaxCalls \in Nat
  BY LoadingAssumption
<1>6. SessionOK
  BY <1>5 DEF Init, SessionOK
<1> QED  BY <1>1, <1>3, <1>4, <1>6 DEF LoadingInv

\* A definition is applied, refused, or ends the process.
LEMMA ApplyKeepsSession ==
  ASSUME SessionOK, pc = "applying", UNCHANGED <<onRedefinition, session>>,
         pc' = pc \/ Abandon \/ Crash
  PROVE  SessionOK'
BY DEF SessionOK, session, Abandon, Crash

\* Texts and calls.
LEMMA SessionKept == SessionOK /\ Next => SessionOK'
<1> SUFFICES ASSUME SessionOK, Next PROVE SessionOK'
  OBVIOUS
<1>0. MaxLines \in Nat /\ MaxLoads \in Nat /\ MaxCalls \in Nat
  BY LoadingAssumption
<1>1. UNCHANGED onRedefinition
  BY DEF Next
<1>2. CASE StartLoad
  BY <1>0, <1>1, <1>2 DEF SessionOK, StartLoad
<1>3. CASE EndOfText
  BY <1>0, <1>1, <1>3 DEF SessionOK, EndOfText
<1>4. ASSUME NEW l \in Line, Read(l) \/ Define(l) PROVE SessionOK'
  BY <1>0, <1>1, <1>4 DEF SessionOK, Read, Define
<1>5. CASE Apply
  <2>1. pc = "applying" /\ UNCHANGED session /\ (pc' = pc \/ Abandon \/ Crash \/ LoadDone)
    BY <1>5 DEF Apply, ApplyImport, ApplyDefaults, ApplyPrefix, ApplyDimension, ApplyDerived,
                AddDimension, ApplyAlias, ApplyUnit, ApplyGroup, ApplySystem, ApplyContext,
                LoadDone, Applying, Applied
  <2>2. CASE LoadDone
    BY <1>1, <2>2 DEF SessionOK, LoadDone, session
  <2> QED  BY <1>1, <2>1, <2>2, ApplyKeepsSession
<1>6. CASE Asking
  <2>1. pc = "idle" /\ calls < MaxCalls /\ calls' = calls + 1
    BY <1>6, AskingLooks DEF Call
  <2>2. pc' \in {"crashed", pc} /\ UNCHANGED <<pending, text, parsed, lines, loads>>
    BY <1>6, AskingLooks DEF Looked
  <2> QED  BY <1>0, <1>1, <2>1, <2>2 DEF SessionOK
<1>7. CASE Grouping
  BY <1>0, <1>1, <1>7 DEF SessionOK, Grouping, NewGroup, AddUnits, AddGroups, Call
<1> QED  BY <1>2, <1>3, <1>4, <1>5, <1>6, <1>7 DEF Next, Loading

-----------------------------------------------------------------------------
(* What definitions do to it *)

DefinitionsOK == UnitsOK /\ PrefixesOK /\ DimensionsOK

\* Nothing that is known is lost, or changes.
Grows ==
  /\ DOMAIN names \subseteq DOMAIN names' /\ DOMAIN byName \subseteq DOMAIN byName'
  /\ DOMAIN dimensions \subseteq DOMAIN dimensions'
Learns ==
  /\ \A n \in DOMAIN names : n \in DOMAIN names' /\ names'[n] = names[n]
  /\ \A n \in DOMAIN byName : n \in DOMAIN byName' /\ byName'[n] = byName[n]
  /\ \A d \in DOMAIN dimensions : d \in DOMAIN dimensions' /\ dimensions'[d] = dimensions[d]

\* What a step does to definitions, and to caches that it does not look at.
Defines ==
  /\ DefinitionsOK' /\ Grows /\ (onRedefinition = "raise" => Learns)
  /\ UNCHANGED <<contexts, caches>>

\* Definitions stay as they are.
LEMMA DefinitionsStay ==
  ASSUME RegistryOK, UNCHANGED <<names, byName, prefixes, dimensions>>
  PROVE  DefinitionsOK' /\ Grows /\ Learns
BY DEF RegistryOK, DefinitionsOK, UnitsOK, PrefixesOK, DimensionsOK, Grows, Learns

\* And so do caches, when definitions come.
LEMMA CachesStay ==
  ASSUME CachesOK, UNCHANGED caches, Grows
  PROVE  CachesOK'
<1>1. UNCHANGED <<parseCache, dimCache, rootCache, convCache>>
  BY DEF caches, walkCaches
<1>2. CacheOK(dimCache)'
  BY <1>1 DEF CachesOK, CacheOK, Grows
<1>3. \A u \in DOMAIN rootCache' : RootOK(rootCache[u])'
  BY <1>1 DEF CachesOK, RootOK, Grows
<1> QED  BY <1>1, <1>2, <1>3 DEF CachesOK, Grows

\* A prefix.
LEMMA PrefixKeeps ==
  ASSUME GroupsInv, RegistryOK, ApplyPrefix
  PROVE  Defines
<1>1. /\ UNCHANGED <<names, byName, dimensions, contexts, caches>>
      /\ pending # << >> /\ Def.is = "prefix"
  BY DEF ApplyPrefix, Applying, unitMaps, blocks
<1>2. IsRational(Def.scale)
  <2>1. IsApplicable(Def)
    BY <1>1, ApplicableNext DEF GroupsInv, Def
  <2> QED  BY <1>1, <2>1 DEF IsApplicable
<1>3. PrefixesOK'
  <2>1. CASE UNCHANGED prefixes
    BY <2>1 DEF RegistryOK, PrefixesOK
  <2>2. CASE ~UNCHANGED prefixes
    <3>1. prefixes' = Put(prefixes, Def.name, Def.scale)
      BY <2>2 DEF ApplyPrefix
    <3> QED  BY <1>2, <3>1 DEF RegistryOK, PrefixesOK, Put, IsRational
  <2> QED  BY <2>1, <2>2
<1>4. UnitsOK' /\ DimensionsOK' /\ Grows /\ Learns
  BY <1>1 DEF RegistryOK, UnitsOK, DimensionsOK, Grows, Learns
<1> QED  BY <1>1, <1>3, <1>4 DEF Defines, DefinitionsOK

\* A base dimension or a derived one.
LEMMA AddDimensionKeeps ==
  ASSUME RegistryOK, UNCHANGED <<names, byName, prefixes, contexts, caches>>,
         NEW isBase, NEW reference, IsProduct(reference), isBase => reference = Empty,
         AddDimension(isBase, reference)
  PROVE  Defines
<1>1. CASE Def.name \notin Bracketed \/ RefuseTaken(Def.name, dimensions)
  <2>1. UNCHANGED <<names, byName, prefixes, dimensions>>
    BY <1>1 DEF AddDimension
  <2> QED  BY <2>1, DefinitionsStay DEF Defines
<1>2. CASE Def.name \in Bracketed /\ ~RefuseTaken(Def.name, dimensions)
  <2>1. PICK d, v : d = Def.name /\ v = [isBase |-> isBase, reference |-> reference]
    OBVIOUS
  <2>2. dimensions' = Put(dimensions, d, v)
    BY <1>2, <2>1 DEF AddDimension
  <2>3. /\ DOMAIN dimensions' = DOMAIN dimensions \cup {d}
        /\ \A x \in DOMAIN dimensions' : dimensions'[x] = IF x = d THEN v ELSE dimensions[x]
    BY <2>2 DEF Put
  <2>4. DimensionOK(v)
    BY <2>1 DEF DimensionOK
  <2>5. DimensionsOK'
    BY <1>2, <2>1, <2>3, <2>4 DEF RegistryOK, DimensionsOK
  <2>6. UnitsOK' /\ PrefixesOK' /\ Grows
    BY <2>3 DEF RegistryOK, UnitsOK, PrefixesOK, Grows
  <2>7. onRedefinition = "raise" => Learns
    BY <1>2, <2>1, <2>3 DEF RefuseTaken, Learns
  <2> QED  BY <2>5, <2>6, <2>7 DEF Defines, DefinitionsOK
<1> QED  BY <1>1, <1>2

\* @dimension and its like, of which the derived ones have a meaning.
LEMMA DimensionKeeps ==
  ASSUME RegistryOK, ApplyDimension \/ ApplyDerived
  PROVE  Defines
<1>1. UNCHANGED <<names, byName, prefixes, contexts, caches>>
  BY DEF ApplyDimension, ApplyDerived, unitMaps, blocks
<1>2. CASE ApplyDimension
  <2>1. AddDimension(TRUE, Empty)
    BY <1>2 DEF ApplyDimension
  <2> QED  BY <1>1, <2>1, EmptyIsProduct, AddDimensionKeeps
<1>3. CASE ApplyDerived
  <2>1. CASE Def.value \notin DOMAIN Meaning \/ Meaning[Def.value].scale # One
    <3>1. UNCHANGED <<names, byName, prefixes, dimensions>>
      BY <1>1, <1>3, <2>1 DEF ApplyDerived
    <3> QED  BY <1>1, <3>1, DefinitionsStay DEF Defines
  <2>2. CASE ~(Def.value \notin DOMAIN Meaning \/ Meaning[Def.value].scale # One)
    <3>1. AddDimension(FALSE, Meaning[Def.value].units)
      BY <1>3, <2>2 DEF ApplyDerived
    <3>2. IsProduct(Meaning[Def.value].units)
      BY <2>2, MeaningIsProduct
    <3> QED  BY <1>1, <3>1, <3>2, AddDimensionKeeps
  <2> QED  BY <2>1, <2>2
<1> QED  BY <1>2, <1>3

\* @alias: its aliases lead where the name does.
LEMMA AliasKeeps ==
  ASSUME GroupsInv, RegistryOK, ApplyAlias
  PROVE  Defines
<1>1. /\ UNCHANGED <<byName, prefixes, dimensions, contexts, caches>>
      /\ pending # << >> /\ Def.is = "alias"
  BY DEF ApplyAlias, Applying, blocks
<1>2. CASE Def.name \notin DOMAIN names
  <2>1. UNCHANGED <<names, byName, prefixes, dimensions>>
    BY <1>1, <1>2 DEF ApplyAlias
  <2> QED  BY <1>1, <2>1, DefinitionsStay DEF Defines
<1>3. CASE Def.name \in DOMAIN names
  <2>1. PICK al : al = Def.aliases
    OBVIOUS
  <2>2. al \in Seq(STRING)
    <3>1. IsApplicable(Def)
      BY <1>1, ApplicableNext DEF GroupsInv, Def
    <3> QED  BY <1>1, <2>1, <3>1 DEF IsApplicable
  <2>3. DOMAIN al \subseteq Nat
    <3>1. PICK T : T = STRING
      OBVIOUS
    <3>2. al \in Seq(T)
      BY <2>2, <3>1
    <3> QED  BY <3>2
  <2>4. PICK new : new = {al[i] : i \in Aliased}
    OBVIOUS
  <2>5. ASSUME NEW n \in new, onRedefinition = "raise" PROVE n \notin DOMAIN names
    <3>1. PICK i \in Aliased : n = al[i]
      BY <2>4
    <3>2. i \in DOMAIN al /\ \A j \in 1..i : ~RefuseTaken(al[j], names)
      BY <2>1, <3>1 DEF Aliased
    <3>3. i \in 1..i
      <4>1. DOMAIN al = 1..Len(al)
        <5>1. PICK T : T = STRING
          OBVIOUS
        <5>2. al \in Seq(T)
          BY <2>2, <5>1
        <5> QED  BY <5>2
      <4> QED  BY <2>3, <3>2, <4>1
    <3> QED  BY <2>5, <3>1, <3>2, <3>3 DEF RefuseTaken
  <2>6. names' = [n \in DOMAIN names \cup new |-> names[IF n \in new THEN Def.name ELSE n]]
    BY <1>3, <2>1, <2>4 DEF ApplyAlias
  <2>7. /\ DOMAIN names' = DOMAIN names \cup new
        /\ \A n \in DOMAIN names \ new : names'[n] = names[n]
    BY <2>6
  <2>8. DefinitionsOK'
    BY <1>1 DEF RegistryOK, DefinitionsOK, UnitsOK, PrefixesOK, DimensionsOK
  <2>9. Grows /\ (onRedefinition = "raise" => Learns)
    BY <1>1, <2>5, <2>7 DEF Grows, Learns
  <2> QED  BY <1>1, <2>8, <2>9 DEF Defines
<1> QED  BY <1>2, <1>3

\* A unit, with its difference and with the dimensions it is the first of.
LEMMA UnitKeeps ==
  ASSUME RegistryOK, ApplyUnit
  PROVE  Defines
<1>1. UNCHANGED <<prefixes, contexts, caches>>
  BY DEF ApplyUnit
<1>2. CASE Refused(Def)
  <2>1. UNCHANGED <<names, byName, prefixes, dimensions>>
    BY <1>1, <1>2 DEF ApplyUnit, unitMaps
  <2> QED  BY <1>1, <2>1, DefinitionsStay DEF Defines
<1>3. CASE ~Refused(Def)
  <2>1. PICK l, m : l = Def /\ m = Meaning[l.value]
    OBVIOUS
  <2>2. PICK new : new = {l.name} \cup Deltas(l)
    OBVIOUS
  <2>3. PICK u : u = UnitDef(l)
    OBVIOUS
  <2>4. PICK delta : delta = [u EXCEPT !.offset = Zero, !.isBase = FALSE]
    OBVIOUS
  <2>5. /\ l.value \in DOMAIN Meaning /\ l.name \in Identifier
        /\ IsDimensional(m.units) => Names(m.units) \subseteq Bracketed
        /\ ~RefuseTaken(l.name, names)
    BY <1>3, <2>1 DEF Refused
  <2>6. IsProduct(m.units) /\ m.scale \in Rational
    BY <2>1, <2>5, MeaningIsProduct
  <2>7. u = [scale |-> m.scale, offset |-> l.offset, reference |-> m.units,
             isBase |-> IsDimensional(m.units)]
    BY <2>1, <2>3 DEF UnitDef
  <2>8. UnitOK(u) /\ u.reference = m.units /\ (u.isBase => Names(u.reference) \subseteq Bracketed)
    BY <2>5, <2>6, <2>7 DEF UnitOK
  <2>9. UnitOK(delta) /\ ~delta.isBase
    <3>1. /\ DOMAIN delta = DOMAIN u /\ delta.scale = u.scale /\ delta.reference = u.reference
          /\ delta.isBase = FALSE
      BY <2>4, <2>7
    <3> QED  BY <2>8, <3>1 DEF UnitOK
  <2>10. /\ names' = [n \in DOMAIN names \cup new |-> IF n \in new THEN n ELSE names[n]]
         /\ byName' = [n \in DOMAIN byName \cup new |->
                         IF n = l.name THEN u ELSE IF n \in new THEN delta ELSE byName[n]]
         /\ dimensions' = [d \in DOMAIN dimensions \cup (Names(u.reference) \cap Bracketed) |->
                             IF d \in DOMAIN dimensions THEN dimensions[d]
                             ELSE [isBase |-> TRUE, reference |-> Empty]]
    BY <1>3, <2>1, <2>2, <2>3, <2>4 DEF ApplyUnit
  <2>11. /\ DOMAIN names' = DOMAIN names \cup new
         /\ \A n \in DOMAIN names' : names'[n] = IF n \in new THEN n ELSE names[n]
         /\ DOMAIN byName' = DOMAIN byName \cup new
         /\ \A n \in DOMAIN byName' :
              byName'[n] = IF n = l.name THEN u ELSE IF n \in new THEN delta ELSE byName[n]
    BY <2>10
  <2>12. /\ DOMAIN dimensions' = DOMAIN dimensions \cup (Names(u.reference) \cap Bracketed)
         /\ \A d \in DOMAIN dimensions : dimensions'[d] = dimensions[d]
         /\ \A d \in DOMAIN dimensions' \ DOMAIN dimensions :
              dimensions'[d] = [isBase |-> TRUE, reference |-> Empty]
    BY <2>10
  <2>13. l.name \in Leaves
    BY <2>5 DEF Leaves, Definable
  <2>14. ASSUME NEW n \in new, onRedefinition = "raise" PROVE n \notin DOMAIN names
    <3>1. CASE n = l.name
      BY <2>5, <2>14, <3>1 DEF RefuseTaken
    <3>2. CASE n # l.name
      <4>1. n = DeltaName[l.name] /\ ~RefuseTaken(DeltaName[l.name], names)
        BY <2>2, <3>2 DEF Deltas
      <4> QED  BY <2>14, <4>1 DEF RefuseTaken
    <3> QED  BY <3>1, <3>2
  <2>15. UnitsOK'
    <3>1. ASSUME NEW n \in DOMAIN byName'
          PROVE  /\ UnitOK(byName'[n])
                 /\ byName'[n].isBase =>
                      n \in Leaves /\ Names(byName'[n].reference) \subseteq DOMAIN dimensions'
      <4>1. CASE n = l.name
        BY <2>8, <2>11, <2>12, <2>13, <4>1
      <4>2. CASE n # l.name /\ n \in new
        BY <2>9, <2>11, <4>2
      <4>3. CASE n \notin new
        BY <2>2, <2>11, <2>12, <4>3 DEF RegistryOK, UnitsOK
      <4> QED  BY <4>1, <4>2, <4>3
    <3> QED  BY <3>1 DEF UnitsOK
  <2>16. DimensionsOK'
    <3>1. DimensionOK([isBase |-> TRUE, reference |-> Empty])
      BY EmptyIsProduct DEF DimensionOK
    <3> QED  BY <2>12, <3>1 DEF RegistryOK, DimensionsOK
  <2>17. PrefixesOK' /\ Grows
    BY <1>1, <2>11, <2>12 DEF RegistryOK, PrefixesOK, Grows
  <2>18. onRedefinition = "raise" => Learns
    <3>1. ASSUME onRedefinition = "raise" PROVE new \cap DOMAIN names = {}
      BY <2>14, <3>1
    <3>2. DOMAIN byName \subseteq DOMAIN names
      BY DEF RegistryOK, NamesOK
    <3> QED  BY <2>2, <2>11, <2>12, <3>1, <3>2 DEF Learns
  <2> QED  BY <1>1, <2>15, <2>16, <2>17, <2>18 DEF Defines, DefinitionsOK
<1> QED  BY <1>2, <1>3

\* Readings that enter the registry.
LEMMA InternKeeps ==
  ASSUME RegistryOK, NEW new, Interned(new), UNCHANGED <<prefixes, dimensions>>
  PROVE  DefinitionsOK' /\ Grows /\ Learns
<1>1. /\ DOMAIN names' = DOMAIN names \cup new /\ DOMAIN byName' = DOMAIN byName \cup new
      /\ \A n \in DOMAIN names : names'[n] = names[n]
      /\ \A n \in DOMAIN byName : byName'[n] = byName[n]
      /\ \A g \in new : byName'[g] = Synthesized(g)
  BY DEF Interned
<1>2. ASSUME NEW g \in new PROVE UnitOK(Synthesized(g)) /\ ~Synthesized(g).isBase
  <2>1. \A h \in new :
          /\ h \in DOMAIN Split
          /\ \E p, u : /\ h = PrefixedName[<<p, u>>] /\ Split[h] = [prefix |-> p, core |-> u]
                       /\ p \in DOMAIN prefixes /\ u \in DOMAIN byName
                       /\ names[u] = u /\ byName[u].offset = Zero
                       /\ u \in Definable \ FullNames
    BY Zenon DEF Interned
  <2>2. PICK p, u : /\ Split[g] = [prefix |-> p, core |-> u]
                    /\ p \in DOMAIN prefixes /\ u \in DOMAIN byName
    BY <2>1
  <2> QED  BY <2>1, <2>2, SynthesizedTyped
<1>3. UnitsOK'
  <2>1. ASSUME NEW n \in DOMAIN byName'
        PROVE  /\ UnitOK(byName'[n])
               /\ byName'[n].isBase =>
                    n \in Leaves /\ Names(byName'[n].reference) \subseteq DOMAIN dimensions'
    <3>1. CASE n \in DOMAIN byName
      BY <1>1, <3>1 DEF RegistryOK, UnitsOK
    <3>2. CASE n \in new
      BY <1>1, <1>2, <3>2
    <3> QED  BY <1>1, <3>1, <3>2
  <2> QED  BY <2>1 DEF UnitsOK
<1>4. PrefixesOK' /\ DimensionsOK'
  BY DEF RegistryOK, PrefixesOK, DimensionsOK
<1>5. Grows /\ Learns
  BY <1>1 DEF Grows, Learns
<1> QED  BY <1>3, <1>4, <1>5 DEF DefinitionsOK

\* The values that the relations of a context are between.
LEMMA EndsOfRelations ==
  ASSUME NEW rels, LineSeq(rels)
  PROVE  /\ DOMAIN Ends(rels) \subseteq Nat
         /\ \A i \in DOMAIN Ends(rels) :
              Ends(rels)[i] \in {rels[(i + 1) \div 2].src, rels[(i + 1) \div 2].dst}
         /\ \A i \in DOMAIN rels : \E j \in DOMAIN Ends(rels) : (j + 1) \div 2 = i
<1>1. PICK T : T = ToSet(rels)
  OBVIOUS
<1>2. rels \in Seq(T)
  BY <1>1 DEF LineSeq
<1>3. Len(rels) \in Nat /\ DOMAIN rels = 1..Len(rels)
  BY <1>2
<1>4. PICK e : e = Ends(rels)
  OBVIOUS
<1>5. /\ DOMAIN e = 1..2 * Len(rels)
      /\ \A i \in DOMAIN e : e[i] = IF i % 2 = 1 THEN rels[(i + 1) \div 2].src
                                    ELSE rels[(i + 1) \div 2].dst
  BY <1>4 DEF Ends
<1>6. ASSUME NEW i \in 1..Len(rels) PROVE \E j \in DOMAIN e : (j + 1) \div 2 = i
  <2>1. 2 * i \in 1..2 * Len(rels) /\ (2 * i + 1) \div 2 = i
    BY <1>3
  <2> QED  BY <1>5, <2>1
<1>7. DOMAIN e \subseteq Nat
  BY <1>3, <1>5
<1> QED  BY <1>3, <1>4, <1>5, <1>6, <1>7

\* A relation is between its two values, there or back.
LEMMA ResolvedBetween ==
  ASSUME NEW r, NEW x \in Resolved(r)
  PROVE  x.src \in {r.src, r.dst} /\ x.dst \in {r.src, r.dst}
<1>1. PICK a, b : /\ a = Dimensionality(Meaning[r.src].units).is.units
                  /\ b = Dimensionality(Meaning[r.dst].units).is.units
  OBVIOUS
<1>2. PICK there : there = [src |-> r.src, dst |-> r.dst, from |-> a, to |-> b]
  OBVIOUS
<1>3. PICK back : back = [src |-> r.dst, dst |-> r.src, from |-> there.to, to |-> there.from]
  OBVIOUS
<1>4. Resolved(r) = IF r.bidirect THEN {there, back} ELSE {there}
  BY <1>1, <1>2, <1>3 DEF Resolved
<1>5. x = there \/ x = back
  BY <1>4
<1>6. there.src = r.src /\ there.dst = r.dst /\ back.src = r.dst /\ back.dst = r.src
  BY <1>2, <1>3
<1> QED  BY <1>5, <1>6

\* @context: what comes into the registry and the cache, and the relations of the contexts.
LEMMA ContextApplied ==
  ASSUME GroupsInv, ApplyContext
  PROVE  /\ \E new : Interned(new)
         /\ UNCHANGED <<prefixes, dimensions, systems, parseCache, walkCaches>>
         /\ \E us : /\ \A u \in us : IsUnits(u) /\ Dimensionality(u).end = "answered"
                    /\ dimCache' = Cached(us)
         /\ \/ UNCHANGED contexts
            \/ \E d : \E cs : /\ d.name \in cs
                              /\ \A r \in d.transforms : {r.src, r.dst} \subseteq DOMAIN Meaning
                              /\ contexts' = [c \in DOMAIN contexts \cup cs |->
                                                IF c \in cs THEN d ELSE contexts[c]]
<1> DEFINE ends == Ends(Def.rels)
           parses(i) == LET r == Def.rels[(i + 1) \div 2] IN {r.src, r.dst} \subseteq DOMAIN Meaning
           end(i) == IF parses(i) THEN Dimensionality(Meaning[ends[i]].units).end ELSE "malformed"
           wrong == {i \in DOMAIN ends : end(i) # "answered"}
           done == {i \in DOMAIN ends : \A j \in wrong : i < j}
           tried == {i \in DOMAIN ends : parses(i) /\ \A j \in wrong : i <= j}
           us == {Meaning[ends[i]].units : i \in done}
           ns == Measured({Meaning[ends[i]].units : i \in tried})
           new == [name |-> Head(Def.names), redefs |-> Def.redefs,
                   transforms |-> UNION {Resolved(Def.rels[i]) : i \in DOMAIN Def.rels}]
           cs == ToSet(Def.names)
<1>1. UNCHANGED <<prefixes, dimensions, systems, parseCache, walkCaches>>
  BY DEF ApplyContext
<1>2. Def.names \in Seq(STRING) \ {<< >>} /\ LineSeq(Def.rels)
  <2>1. pending # << >> /\ Def.is = "context"
    BY DEF ApplyContext, Applying
  <2>2. IsApplicable(Def)
    BY <2>1, ApplicableNext DEF GroupsInv, Def
  <2> QED  BY <2>1, <2>2 DEF IsApplicable
<1>3. dimCache' = Cached(us) /\ Intern(ns)
  BY DEF ApplyContext
<1>4. \A i \in DOMAIN ends : end(i) = "answered" =>
        /\ parses(i) /\ ends[i] \in DOMAIN Meaning
        /\ Dimensionality(Meaning[ends[i]].units).end = "answered"
  <2>1. \A i \in DOMAIN ends :
          ends[i] \in {Def.rels[(i + 1) \div 2].src, Def.rels[(i + 1) \div 2].dst}
    BY <1>2, EndsOfRelations
  <2>2. \A i \in DOMAIN ends : parses(i) => ends[i] \in DOMAIN Meaning
    <3> HIDE DEF ends
    <3> QED  BY <2>1
  <2> HIDE DEF ends, parses
  <2> QED  BY <2>2
<1>5. DOMAIN ends \subseteq Nat
  BY <1>2, EndsOfRelations
<1>6. ASSUME NEW u \in us PROVE IsUnits(u) /\ Dimensionality(u).end = "answered"
  <2> HIDE DEF ends, end, parses
  <2>1. PICK i \in done : u = Meaning[ends[i]].units
    OBVIOUS
  <2>2. i \in DOMAIN ends /\ ~(i < i)
    BY <1>5
  <2>3. i \notin wrong
    BY <2>2
  <2>4. end(i) = "answered"
    BY <2>2, <2>3
  <2> QED  BY <1>4, <2>1, <2>2, <2>4, MeaningIsProduct DEF IsProduct
<1>7. \/ UNCHANGED contexts
      \/ /\ wrong = {}
         /\ contexts' = [c \in DOMAIN contexts \cup cs |-> IF c \in cs THEN new ELSE contexts[c]]
  BY DEF ApplyContext
<1>8. ASSUME wrong = {} PROVE \A r \in new.transforms : {r.src, r.dst} \subseteq DOMAIN Meaning
  <2>1. \A i \in DOMAIN ends : end(i) = "answered"
    BY <1>8
  <2> SUFFICES ASSUME NEW r \in new.transforms PROVE {r.src, r.dst} \subseteq DOMAIN Meaning
    OBVIOUS
  <2>2. PICK i \in DOMAIN Def.rels : r \in Resolved(Def.rels[i])
    OBVIOUS
  <2>3. PICK j \in DOMAIN ends : (j + 1) \div 2 = i
    BY <1>2, EndsOfRelations
  <2>4. parses(j)
    <3> HIDE DEF ends, end, parses
    <3> QED  BY <1>4, <2>1
  <2>5. {Def.rels[i].src, Def.rels[i].dst} \subseteq DOMAIN Meaning
    BY <2>3, <2>4
  <2>6. r.src \in {Def.rels[i].src, Def.rels[i].dst} /\ r.dst \in {Def.rels[i].src, Def.rels[i].dst}
    BY <2>2, ResolvedBetween
  <2> QED  BY <2>5, <2>6
<1>9. new.name \in cs
  <2>1. PICK s, T : s = Def.names /\ T = STRING
    OBVIOUS
  <2>2. s \in Seq(T) /\ s # << >>
    BY <1>2, <2>1
  <2>3. Head(s) = s[1] /\ 1 \in DOMAIN s
    BY <2>2
  <2> QED  BY <2>1, <2>3 DEF ToSet
<1> HIDE DEF us, ns, new, cs, wrong
<1>10. \E vs : /\ \A u \in vs : IsUnits(u) /\ Dimensionality(u).end = "answered"
               /\ dimCache' = Cached(vs)
  BY <1>3, <1>6
<1>11. \E coined : Interned(coined)
  BY <1>3, InternBrings DEF GroupsInv
<1>12. PICK d, names_ : d = new /\ names_ = cs
  OBVIOUS
<1>13. CASE ~UNCHANGED contexts
  <2>1. /\ d.name \in names_ /\ \A r \in d.transforms : {r.src, r.dst} \subseteq DOMAIN Meaning
        /\ contexts' = [c \in DOMAIN contexts \cup names_ |-> IF c \in names_ THEN d ELSE contexts[c]]
    BY <1>7, <1>8, <1>9, <1>12, <1>13
  <2> QED  BY <1>1, <1>10, <1>11, <2>1
<1> QED  BY <1>1, <1>10, <1>11, <1>13

-----------------------------------------------------------------------------
(* What questions do to it *)

\* Quotients of products.
LEMMA DivIsUnits ==
  ASSUME NEW u, IsUnits(u), NEW o, IsUnits(o)
  PROVE  IsUnits(Div(u, o))
<1>1. PICK S : S = DOMAIN u \cup DOMAIN o
  OBVIOUS
<1>2. PICK f : f = [n \in S |-> Minus(Get(u, n), Get(o, n))]
  OBVIOUS
<1>3. PICK T : T = {n \in S : f[n] # Zero}
  OBVIOUS
<1>4. Div(u, o) = [n \in T |-> f[n]]
  BY <1>1, <1>2, <1>3 DEF Div, NewUnitsContainer, Names
<1>5. IsFiniteSet(T) /\ T \subseteq STRING
  <2>1. IsFiniteSet(S)
    BY <1>1, FS_Union DEF IsUnits
  <2>2. T \subseteq S /\ S \subseteq STRING
    BY <1>1, <1>3 DEF IsUnits
  <2> QED  BY <2>1, <2>2, FS_Subset
<1>6. ASSUME NEW n \in S PROVE f[n] \in Rational
  <2>1. PICK a, b : a = Get(u, n) /\ b = Get(o, n)
    OBVIOUS
  <2>2. a \in Rational /\ b \in Rational
    BY <2>1, OneStays DEF Get, IsUnits
  <2>3. Neg(b) \in Rational
    <3>1. b[1] \in Int /\ b[2] \in Nat /\ (b[2] = 0 => b[1] = 0)
      BY <2>2, NumberParts DEF Inexact
    <3>2. -b[1] \in Int /\ (b[1] = 0 => -b[1] = 0)
      BY <3>1
    <3> QED  BY <3>1, <3>2 DEF Neg, Rational, Inexact
  <2> QED  BY <1>2, <2>1, <2>2, <2>3, SumRational DEF Minus
<1>7. \A n \in T : [m \in T |-> f[m]][n] \in Rational
  BY <1>3, <1>6
<1>8. PICK d : d = Div(u, o)
  OBVIOUS
<1>9. IsUnits(d)
  BY <1>4, <1>5, <1>7, <1>8 DEF IsUnits
<1> QED  BY <1>8, <1>9

\* What a name is read as is text.
LEMMA ParseTyped ==
  ASSUME NamesOK, CachesOK
  PROVE  \A n : ParseUnits(n) \in STRING
<1> SUFFICES ASSUME NEW n PROVE ParseUnits(n) \in STRING
  OBVIOUS
<1>1. DOMAIN names \subseteq STRING
  BY DEF NamesOK
<1>2. CASE n \in DOMAIN parseCache
  BY <1>1, <1>2 DEF CachesOK, ParseUnits
<1>3. CASE n \notin DOMAIN parseCache
  <2>1. ParseUnits(n) = GetName(n)
    BY <1>3 DEF ParseUnits
  <2>2. CASE GetName(n) \in DOMAIN names \cup {Missing}
    <3>1. Missing \in STRING
      BY TextAssumption
    <3> QED  BY <1>1, <2>1, <2>2, <3>1
  <2>3. CASE GetName(n) \notin DOMAIN names \cup {Missing}
    <3>1. GetName(n) \in DOMAIN Split
      BY <2>3, CoinedName
    <3> QED  BY <2>1, <3>1, ReadingAssumption
  <2> QED  BY <2>2, <2>3
<1> QED  BY <1>2, <1>3

\* So are the names to choose from.
LEMMA PoolTyped ==
  ASSUME GroupsInv
  PROVE  \A where : Pool(where) \subseteq STRING
<1>1. DOMAIN byName \subseteq STRING /\ strays \subseteq STRING /\ GroupsOK(groups)
  BY DEF GroupsInv, NamesOK
<1>2. \A g \in DOMAIN groups : groups[g].members \subseteq STRING
  BY <1>1 DEF GroupsInv, UnitsOfRoot
<1>3. ASSUME NEW g \in DOMAIN groups PROVE Expanded(groups, g) \subseteq STRING
  BY <1>1, <1>2, ExpandedFinds
<1> SUFFICES ASSUME NEW where PROVE Pool(where) \subseteq STRING
  OBVIOUS
<1>4. CASE where = Missing
  BY <1>1, <1>4 DEF Pool
<1>5. CASE where # Missing /\ where \in DOMAIN groups
  BY <1>3, <1>5 DEF Pool
<1>6. CASE where # Missing /\ where \notin DOMAIN groups /\ where \notin DOMAIN systems
  BY <1>6 DEF Pool
<1>7. CASE where # Missing /\ where \notin DOMAIN groups /\ where \in DOMAIN systems
  <2>1. PICK using : using = systems[where].using
    OBVIOUS
  <2>2. PICK S : S = IF using = << >> THEN {Root} ELSE ToSet(using) \cap DOMAIN groups
    OBVIOUS
  <2>3. S \subseteq DOMAIN groups
    BY <1>1, <2>2 DEF GroupsOK
  <2>4. Pool(where) = UNION {Expanded(groups, g) : g \in S}
    BY <1>7, <2>1, <2>2 DEF Pool
  <2> QED  BY <1>3, <2>3, <2>4
<1> QED  BY <1>4, <1>5, <1>6, <1>7

\* Products are asked about, and pairs of them.
Asks(us, vs, pairs) ==
  /\ \A u \in us \cup vs : IsUnits(u)
  /\ \A p \in pairs : p = <<p[1], p[2]>> /\ IsUnits(p[1]) /\ IsUnits(p[2])

\* Whatever is asked.
LEMMA ConvertAsks ==
  ASSUME RegistryOK, CachesOK, NEW n, NEW m, Convert(n, m)
  PROVE  \E ns, us, vs, pairs : Looked(ns, us, vs, pairs) /\ Asks(us, vs, pairs)
<1> DEFINE a == ParseUnits(n)
           b == ParseUnits(m)
           src == UnitPair(a, One)
           dst == UnitPair(b, One)
           differ == a # Missing /\ b # Missing /\ a # b
           affine == differ /\ (IsOffset(a) \/ IsOffset(b))
           refused == affine /\ (~SameDimension(src, dst) \/ Clash(a, b))
           ns == IF a = Missing THEN {} ELSE {n, m}
           us == IF affine THEN InTurn(src, dst) ELSE {}
           pairs == IF differ /\ ~refused THEN {<<Unshifted(a), Unshifted(b)>>} ELSE {}
<1>1. Looked(ns, us, {}, pairs)
  BY DEF Convert
<1>2. a \in STRING /\ b \in STRING
  BY ParseTyped DEF RegistryOK
<1> HIDE DEF a, b
<1>3. IsUnits(src) /\ IsUnits(dst)
  BY <1>2, PairIsUnits
<1>4. ASSUME NEW g \in STRING PROVE IsUnits(Unshifted(g))
  <2>1. CASE IsOffset(g)
    <3>1. UnitOK(byName[g]) /\ Unshifted(g) = byName[g].reference
      BY <2>1 DEF IsOffset, Unshifted, RegistryOK, UnitsOK
    <3> QED  BY <3>1 DEF UnitOK, IsProduct
  <2>2. CASE ~IsOffset(g)
    BY <2>2, PairIsUnits DEF Unshifted
  <2> QED  BY <2>1, <2>2
<1>5. IsUnits(Unshifted(a)) /\ IsUnits(Unshifted(b))
  BY <1>2, <1>4
<1>6. \A u \in us : IsUnits(u)
  <2>1. us \subseteq {src, dst}
    BY DEF InTurn
  <2> HIDE DEF us
  <2> QED  BY <1>3, <2>1
<1>7. \A p \in pairs : p = <<p[1], p[2]>> /\ IsUnits(p[1]) /\ IsUnits(p[2])
  <2>1. pairs \subseteq {<<Unshifted(a), Unshifted(b)>>}
    OBVIOUS
  <2> HIDE DEF pairs
  <2> QED  BY <1>5, <2>1
<1>8. Asks(us, {}, pairs)
  BY <1>6, <1>7 DEF Asks
<1> HIDE DEF ns, us, pairs
<1> QED  BY <1>1, <1>8

LEMMA CompatibleAsks ==
  ASSUME GroupsInv, RegistryOK, CachesOK, NEW n, NEW where, AskCompatible(n, where)
  PROVE  \E ns, us, vs, pairs : Looked(ns, us, vs, pairs) /\ Asks(us, vs, pairs)
<1> DEFINE a == ParseUnits(n)
           found == DimensionOfName(a).end = "answered"
           ms == ({a} \ {Missing}) \cup IF found THEN Pool(where) ELSE {}
           us == {UnitPair(m, One) : m \in ms}
<1>1. Looked({n}, us, {}, {})
  BY DEF AskCompatible
<1>2. ms \subseteq STRING
  BY ParseTyped, PoolTyped DEF RegistryOK
<1> HIDE DEF ms
<1>3. \A u \in us : IsUnits(u)
  BY <1>2, PairIsUnits
<1> HIDE DEF us
<1>4. Asks(us, {}, {})
  BY <1>3 DEF Asks
<1> QED  BY <1>1, <1>4

LEMMA BaseUnitsAsk ==
  ASSUME RegistryOK, CachesOK, NEW n, NEW system, AskBaseUnits(n, system)
  PROVE  \E ns, us, vs, pairs : Looked(ns, us, vs, pairs) /\ Asks(us, vs, pairs)
<1>1. \A x : ParseUnits(x) \in STRING
  BY ParseTyped DEF RegistryOK
<1>2. CASE ParseUnits(n) = Missing
  <2>1. Looked({}, {}, {}, {})
    BY <1>2 DEF AskBaseUnits
  <2>2. Asks({}, {}, {})
    BY DEF Asks
  <2> QED  BY <2>1, <2>2
<1>3. CASE ParseUnits(n) # Missing
  <2> DEFINE root == RootOfName(n)
             remapped == IF root.end = "answered" /\ system \in DOMAIN systems
                         THEN Names(root.is.units) ELSE {}
             rules == systems[system].rules
             tried == UNION {{rules[i] : i \in RulesTried(rules, r)} : r \in remapped}
             replaced == {r \in remapped : SystemReplacement(rules, r) # r}
             us == {UnitPair(r, One) : r \in remapped} \cup
                     {UnitPair(ParseUnits(t), One) : t \in {x \in tried : ParseUnits(x) # Missing}}
             vs == {UnitPair(ParseUnits(n), One)}
             pairs == {<<UnitPair(r, One), UnitPair(ParseUnits(SystemReplacement(rules, r)), One)>> :
                         r \in replaced}
  <2>1. Looked({n} \cup tried, us, vs, pairs)
    BY <1>3 DEF AskBaseUnits
  <2>2. remapped \subseteq STRING
    <3>1. CASE root.end = "answered"
      <4>1. PICK u : u = UnitPair(ParseUnits(n), One)
        OBVIOUS
      <4>2. IsUnits(u)
        BY <1>1, <4>1, PairIsUnits
      <4>3. RootUnits(u, FALSE).end = "answered" /\ root = RootUnits(u, FALSE)
        BY <3>1, <4>1 DEF RootOfName
      <4>4. RootOK(root.is)
        BY <4>2, <4>3, RootUnitsTyped DEF CachesOK
      <4>5. DOMAIN byName \subseteq STRING
        BY DEF RegistryOK, NamesOK
      <4> HIDE DEF root
      <4> QED  BY <4>4, <4>5 DEF RootOK
    <3> HIDE DEF root
    <3> QED  BY <3>1
  <2> HIDE DEF remapped, rules, tried
  <2>3. \A r \in STRING : IsUnits(UnitPair(r, One))
    BY PairIsUnits
  <2>4. \A u \in us \cup vs : IsUnits(u)
    BY <1>1, <2>2, <2>3
  <2>5. \A p \in pairs : p = <<p[1], p[2]>> /\ IsUnits(p[1]) /\ IsUnits(p[2])
    BY <1>1, <2>2, <2>3
  <2> HIDE DEF us, vs, pairs
  <2>6. Asks(us, vs, pairs)
    BY <2>4, <2>5 DEF Asks
  <2> QED  BY <2>1, <2>6
<1> QED  BY <1>2, <1>3

\* Whatever a caller asks.
LEMMA AskingTyped ==
  ASSUME LoadingInv, Asking
  PROVE  \E ns, us, vs, pairs : Looked(ns, us, vs, pairs) /\ Asks(us, vs, pairs)
<1>1. GroupsInv /\ RegistryOK /\ CachesOK
  BY DEF LoadingInv
<1>2. PICK n \in Asked : \/ \E m \in Asked : Convert(n, m)
                        \/ \E where \in Place : AskCompatible(n, where) \/ AskBaseUnits(n, where)
  BY DEF Asking
<1>3. CASE \E m \in Asked : Convert(n, m)
  BY <1>1, <1>3, ConvertAsks
<1>4. CASE \E where \in Place : AskCompatible(n, where)
  BY <1>1, <1>4, CompatibleAsks
<1>5. CASE \E where \in Place : AskBaseUnits(n, where)
  BY <1>1, <1>5, BaseUnitsAsk
<1> QED  BY <1>2, <1>3, <1>4, <1>5

\* The spellings that a call remembers are read as before, and those it reads are names.
LEMMA ReadingsRemembered ==
  ASSUME CachesOK, NEW ns, NEW new, Interned(new), UNCHANGED prefixes, NamesOK,
         \A n \in ns \ DOMAIN parseCache :
           GetName(n) # Missing => GetName(n) \in DOMAIN names \cup new,
         parseCache' = [n \in DOMAIN parseCache \cup {m \in ns : ParseUnits(m) # Missing}
                          |-> ParseUnits(n)]
  PROVE  /\ \A n \in DOMAIN parseCache' : parseCache'[n] \in DOMAIN names'
         /\ (\A n \in DOMAIN parseCache : parseCache[n] = GetName(n)) =>
              \A n \in DOMAIN parseCache' : parseCache'[n] = GetName(n)'
<1>1. DOMAIN names' = DOMAIN names \cup new
  BY DEF Interned
<1>2. \A n : GetName(n)' = GetName(n)
  BY ReadingsStay
<1>3. PICK read : read = {m \in ns : ParseUnits(m) # Missing}
  OBVIOUS
<1>4. parseCache' = [n \in DOMAIN parseCache \cup read |-> ParseUnits(n)]
  BY <1>3
<1>5. DOMAIN parseCache' = DOMAIN parseCache \cup read
  BY <1>4
<1>6. \A n \in DOMAIN parseCache' : parseCache'[n] = ParseUnits(n)
  BY <1>4, <1>5
<1>7. ASSUME NEW n \in DOMAIN parseCache
      PROVE  ParseUnits(n) = parseCache[n] /\ ParseUnits(n) \in DOMAIN names'
  BY <1>1 DEF ParseUnits, CachesOK
<1>8. ASSUME NEW n \in read \ DOMAIN parseCache
      PROVE  ParseUnits(n) = GetName(n) /\ ParseUnits(n) \in DOMAIN names'
  <2>1. ParseUnits(n) = GetName(n)
    BY DEF ParseUnits
  <2>2. n \in ns \ DOMAIN parseCache /\ GetName(n) # Missing
    BY <1>3, <2>1
  <2> QED  BY <1>1, <2>1, <2>2
<1> QED  BY <1>2, <1>5, <1>6, <1>7, <1>8

\* The amounts in root units that a call remembers are in units of the registry, and right.
LEMMA RootsRemembered ==
  ASSUME RegistryOK, CachesOK, NEW new, Interned(new), UNCHANGED <<prefixes, dimensions>>,
         NEW roots, \A u \in roots : IsUnits(u), NEW ratios, NEW kept, kept \subseteq roots,
         \A u \in kept : RootUnits(u, u \in ratios).end = "answered",
         rootCache' = [u \in DOMAIN rootCache \cup kept |-> RootUnits(u, u \in ratios).is]
  PROVE  /\ \A u \in DOMAIN rootCache' : RootOK(rootCache[u])'
         /\ (\A u \in DOMAIN rootCache : RootRight(u, rootCache[u])) =>
              \A u \in DOMAIN rootCache' : RootRight(u, rootCache[u])'
<1>1. RootEntries' = RootEntries /\ (\A s : Checked(s)' = Checked(s))
      /\ DOMAIN byName \subseteq DOMAIN byName'
  BY EntriesStay DEF Interned, RegistryOK
<1>2. PICK c : c = rootCache'
  OBVIOUS
<1>3. DOMAIN c = DOMAIN rootCache \cup kept
  BY <1>2
<1>4. \A u \in DOMAIN c : c[u] = RootUnits(u, u \in ratios).is
  BY <1>2, <1>3
<1>5. ASSUME NEW u \in DOMAIN c
      PROVE  /\ RootOK(c[u])
             /\ (\A v \in DOMAIN rootCache : RootRight(v, rootCache[v])) => RootRight(u, c[u])
  <2>1. CASE u \in DOMAIN rootCache
    <3>1. RootUnits(u, u \in ratios) = Answer(rootCache[u])
      BY <2>1 DEF RootUnits
    <3>2. c[u] = rootCache[u]
      BY <1>4, <3>1 DEF Answer
    <3> QED  BY <2>1, <3>2 DEF CachesOK
  <2>2. CASE u \notin DOMAIN rootCache
    <3>1. u \in kept /\ IsUnits(u)
      BY <1>3, <2>2
    <3>2. PICK check : check = (u \in ratios)
      OBVIOUS
    <3>3. RootUnits(u, check).end = "answered" /\ c[u] = RootUnits(u, check).is
      BY <1>4, <3>1, <3>2
    <3> QED  BY <3>1, <3>3, RootUnitsTyped DEF CachesOK
  <2> QED  BY <2>1, <2>2
<1>6. ASSUME NEW u, NEW s PROVE (RootOK(s) => RootOK(s)') /\ (RootRight(u, s) => RootRight(u, s)')
  BY <1>1 DEF RootOK, RootRight
<1>7. DOMAIN rootCache' = DOMAIN c
  BY <1>2
<1>8. ASSUME NEW u \in DOMAIN rootCache'
      PROVE  /\ RootOK(rootCache[u])'
             /\ (\A v \in DOMAIN rootCache : RootRight(v, rootCache[v])) =>
                  RootRight(u, rootCache[u])'
  <2>1. PICK s : s = c[u]
    OBVIOUS
  <2>2. rootCache'[u] = s
    BY <1>2, <2>1
  <2>3. RootOK(s)' /\ ((\A v \in DOMAIN rootCache : RootRight(v, rootCache[v])) => RootRight(u, s)')
    BY <1>5, <1>6, <1>7, <2>1
  <2> QED  BY <2>2, <2>3 DEF RootOK, RootRight
<1> QED  BY <1>8

\* So are the factors.
LEMMA FactorsRemembered ==
  ASSUME RegistryOK, CachesOK, NEW new, Interned(new), UNCHANGED <<prefixes, dimensions>>,
         NEW pairs, \A p \in pairs : p = <<p[1], p[2]>> /\ IsUnits(p[1]) /\ IsUnits(p[2]),
         NEW kept, kept \subseteq pairs \ DOMAIN convCache,
         \A p \in kept : ConversionFactor(p[1], p[2]).end = "answered",
         convCache' = [p \in DOMAIN convCache \cup kept |-> ConversionFactor(p[1], p[2]).is.scale]
  PROVE  /\ \A p \in DOMAIN convCache' : p = <<p[1], p[2]>>
         /\ CachesFresh => \A p \in DOMAIN convCache' : FactorRight(p, convCache[p])'
<1>1. RootEntries' = RootEntries /\ \A s : Checked(s)' = Checked(s)
  BY EntriesStay DEF RegistryOK
<1>2. PICK c : c = convCache'
  OBVIOUS
<1>3. DOMAIN c = DOMAIN convCache \cup kept
  BY <1>2
<1>4. \A p \in DOMAIN c : c[p] = ConversionFactor(p[1], p[2]).is.scale
  BY <1>2, <1>3
<1>5. \A p \in DOMAIN c : p = <<p[1], p[2]>>
  BY <1>3 DEF CachesOK
<1>6. ASSUME NEW p \in DOMAIN c, CachesFresh PROVE FactorRight(p, c[p])
  <2>1. CASE p \in DOMAIN convCache
    <3>1. ConversionFactor(p[1], p[2]) = Answer(Dimensionless(convCache[p]))
      BY <1>5, <2>1 DEF ConversionFactor
    <3>2. c[p] = convCache[p]
      BY <1>4, <3>1 DEF Answer, Dimensionless, Scaled
    <3> QED  BY <1>6, <2>1, <3>2 DEF CachesFresh
  <2>2. CASE p \notin DOMAIN convCache
    <3>1. p \in kept /\ p \in pairs
      BY <1>3, <2>2
    <3>2. PICK u, v : u = p[1] /\ v = p[2]
      OBVIOUS
    <3>3. IsUnits(u) /\ IsUnits(v) /\ p = <<u, v>> /\ ConversionFactor(u, v).end = "answered"
      BY <3>1, <3>2
    <3>4. PICK d : d = Div(u, v)
      OBVIOUS
    <3>5. ConversionFactor(u, v) = RootUnits(d, TRUE)
      <4>1. ConversionFactor(u, v) = IF SameDimension(u, v) THEN RootUnits(d, TRUE) ELSE Mismatch
        BY <2>2, <3>3, <3>4 DEF ConversionFactor
      <4>2. Mismatch.end # "answered"
        BY DEF Mismatch
      <4> QED  BY <3>3, <4>1, <4>2
    <3>6. IsUnits(d)
      BY <3>3, <3>4, DivIsUnits
    <3>7. RootRight(d, RootUnits(d, TRUE).is)
      BY <1>6, <3>3, <3>5, <3>6, RootUnitsTyped DEF CachesOK, CachesFresh
    <3>8. c[p] = RootUnits(d, TRUE).is.scale
      BY <1>4, <3>2, <3>5
    <3> QED  BY <3>2, <3>4, <3>7, <3>8 DEF FactorRight
  <2> QED  BY <2>1, <2>2
<1>7. ASSUME NEW u, NEW s PROVE RootRight(u, s) => RootRight(u, s)'
  BY <1>1 DEF RootRight
<1>8. ASSUME NEW p \in DOMAIN convCache', CachesFresh PROVE FactorRight(p, convCache[p])'
  <2>1. PICK f : f = c[p]
    OBVIOUS
  <2>2. PICK s : RootRight(Div(p[1], p[2]), s) /\ f = s.scale
    BY <1>2, <1>6, <1>8, <2>1 DEF FactorRight
  <2>3. RootRight(Div(p[1], p[2]), s)' /\ convCache'[p] = s.scale
    BY <1>2, <1>7, <2>1, <2>2
  <2> QED  BY <2>3 DEF FactorRight
<1> QED  BY <1>2, <1>5, <1>8

\* A call leaves caches that are as they should be, and right if they were.
LEMMA LookedTyped ==
  ASSUME RegistryOK, CachesOK, NEW ns, NEW us, NEW vs, NEW pairs, Asks(us, vs, pairs),
         Looked(ns, us, vs, pairs)
  PROVE  /\ \E new : Interned(new)
         /\ UNCHANGED <<prefixes, dimensions, systems, contexts, stale>>
         /\ CachesOK' /\ (CachesFresh => CachesFresh')
<1> DEFINE read == {n \in ns : ParseUnits(n) # Missing}
           fresh == pairs \ DOMAIN convCache
           dims == us \cup UNION {InTurn(p[1], p[2]) : p \in fresh}
           ratios == {Div(p[1], p[2]) : p \in {q \in fresh : SameDimension(q[1], q[2])}}
           roots == vs \cup ratios
           met == (read \ DOMAIN parseCache) \cup Measured(dims)
                    \cup UNION {Met(RootEntries, u) : u \in roots \ DOMAIN rootCache}
           found == {u \in dims : Dimensionality(u).end = "answered"}
           reduced == {u \in roots \ {Empty} : RootUnits(u, u \in ratios).end = "answered"}
           compared == {p \in fresh : ConversionFactor(p[1], p[2]).end = "answered"}
<1>1. /\ UNCHANGED <<prefixes, dimensions, systems, contexts, stale>>
      /\ Intern(met) /\ dimCache' = Cached(found)
      /\ parseCache' = [n \in DOMAIN parseCache \cup read |-> ParseUnits(n)]
      /\ rootCache' = [u \in DOMAIN rootCache \cup reduced |-> RootUnits(u, u \in ratios).is]
      /\ convCache' = [p \in DOMAIN convCache \cup compared
                         |-> ConversionFactor(p[1], p[2]).is.scale]
  BY DEF Looked, blocks
<1>2. NamesOK /\ CacheOK(dimCache)
  BY DEF RegistryOK, CachesOK
<1>3. PICK new : new = {GetName(n) : n \in met} \ (DOMAIN names \cup {Missing}) /\ Interned(new)
  BY <1>1, <1>2, InternBrings
<1>4. \A p \in pairs : p = <<p[1], p[2]>> /\ IsUnits(p[1]) /\ IsUnits(p[2])
  BY DEF Asks
<1>5. \A u \in dims : IsUnits(u)
  <2>1. \A p \in pairs : InTurn(p[1], p[2]) \subseteq {p[1], p[2]}
    BY DEF InTurn
  <2> QED  BY <1>4, <2>1 DEF Asks
<1>6. \A u \in roots : IsUnits(u)
  BY <1>4, DivIsUnits DEF Asks
<1>7. /\ \A n \in DOMAIN parseCache' : parseCache'[n] \in DOMAIN names'
      /\ CachesFresh => \A n \in DOMAIN parseCache' : parseCache'[n] = GetName(n)'
  <2>1. \A n \in ns \ DOMAIN parseCache :
          GetName(n) # Missing => GetName(n) \in DOMAIN names \cup new
    <3> SUFFICES ASSUME NEW n \in ns \ DOMAIN parseCache, GetName(n) # Missing
                 PROVE  GetName(n) \in DOMAIN names \cup new
      OBVIOUS
    <3>1. n \in read \ DOMAIN parseCache
      BY DEF ParseUnits
    <3>2. n \in met
      BY <3>1
    <3> HIDE DEF met
    <3> QED  BY <1>3, <3>2
  <2>2. UNCHANGED prefixes
    BY <1>1
  <2> QED  BY <1>1, <1>2, <1>3, <2>1, <2>2, ReadingsRemembered DEF CachesFresh
<1> HIDE DEF read, fresh, dims, ratios, roots, met
<1>8. CacheOK(dimCache)' /\ (CachesFresh => FreshIn(DimEntries, dimCache)')
  <2>1. PICK c : c = Cached(found)
    OBVIOUS
  <2>2. CacheOK(c) /\ (CachesFresh => FreshIn(DimEntries, c))
    BY <1>2, <1>5, <2>1, CachedTyped DEF CachesFresh
  <2>3. dimCache' = c /\ DimEntries' = DimEntries /\ dimensions' = dimensions
    BY <1>1, <1>2, <1>3, <2>1, EntriesStay
  <2> QED  BY <2>2, <2>3 DEF CacheOK, FreshIn
<1>9. /\ \A u \in DOMAIN rootCache' : RootOK(rootCache[u])'
      /\ CachesFresh => \A u \in DOMAIN rootCache' : RootRight(u, rootCache[u])'
  <2>1. UNCHANGED <<prefixes, dimensions>> /\ reduced \subseteq roots
    BY <1>1
  <2>2. \A u \in reduced : RootUnits(u, u \in ratios).end = "answered"
    OBVIOUS
  <2> HIDE DEF reduced
  <2> QED  BY <1>1, <1>3, <1>6, <2>1, <2>2, RootsRemembered DEF CachesFresh
<1>10. /\ \A p \in DOMAIN convCache' : p = <<p[1], p[2]>>
       /\ CachesFresh => \A p \in DOMAIN convCache' : FactorRight(p, convCache[p])'
  <2>1. UNCHANGED <<prefixes, dimensions>> /\ compared \subseteq pairs \ DOMAIN convCache
    BY <1>1 DEF fresh
  <2>2. \A p \in compared : ConversionFactor(p[1], p[2]).end = "answered"
    OBVIOUS
  <2> HIDE DEF compared
  <2> QED  BY <1>1, <1>3, <1>4, <2>1, <2>2, FactorsRemembered
<1>11. CachesOK'
  BY <1>7, <1>8, <1>9, <1>10 DEF CachesOK
<1>12. CachesFresh => CachesFresh'
  BY <1>7, <1>8, <1>9, <1>10 DEF CachesFresh
<1>13. \E coined : Interned(coined)
  BY <1>3
<1> QED  BY <1>1, <1>11, <1>12, <1>13

-----------------------------------------------------------------------------
(* Every step *)

\* Those that neither define anything nor ask.
Aside ==
  \/ StartLoad \/ EndOfText \/ ApplyImport \/ ApplyDefaults \/ ApplyGroup
  \/ (\E l \in Line : Read(l) \/ Define(l)) \/ Grouping

\* They leave alone what conversions use.
LEMMA AsideStays ==
  ASSUME Aside
  PROVE  UNCHANGED <<names, byName, prefixes, dimensions, systems, contexts, caches>>
<1>1. CASE StartLoad \/ EndOfText
  BY <1>1 DEF StartLoad, EndOfText, registry, unitMaps, blocks
<1>2. CASE ApplyImport \/ ApplyDefaults
  BY <1>2 DEF ApplyImport, ApplyDefaults, registry, unitMaps, blocks
<1>3. CASE ApplyGroup
  BY <1>3 DEF ApplyGroup, unitMaps
<1>4. CASE \E l \in Line : Read(l) \/ Define(l)
  BY <1>4 DEF Read, Define, registry, unitMaps, blocks
<1>5. CASE Grouping
  BY <1>5 DEF Grouping, NewGroup, AddUnits, AddGroups, unitMaps
<1> QED  BY <1>1, <1>2, <1>3, <1>4, <1>5 DEF Aside

\* Every action is one of these or of those above.
LEMMA NextIs ==
  ASSUME Next
  PROVE  \/ Aside \/ ApplyPrefix \/ ApplyDimension \/ ApplyDerived \/ ApplyAlias \/ ApplyUnit
         \/ ApplySystem \/ ApplyContext \/ LoadDone \/ Asking
BY DEF Next, Loading, Apply, Aside

\* Contexts and systems that are left alone.
LEMMA ContextsStay == ContextsOK /\ UNCHANGED <<systems, contexts>> => ContextsOK'
BY DEF ContextsOK

\* A definition of a prefix, a dimension or a unit, or a further name.
LEMMA DefinitionDefines ==
  ASSUME LoadingInv,
         ApplyPrefix \/ ApplyDimension \/ ApplyDerived \/ ApplyAlias \/ ApplyUnit
  PROVE  Defines /\ UNCHANGED systems
<1>1. GroupsInv /\ RegistryOK
  BY DEF LoadingInv
<1>2. CASE ApplyPrefix
  BY <1>1, <1>2, PrefixKeeps DEF ApplyPrefix, blocks
<1>3. CASE ApplyDimension \/ ApplyDerived
  BY <1>1, <1>3, DimensionKeeps DEF ApplyDimension, ApplyDerived, blocks
<1>4. CASE ApplyAlias
  BY <1>1, <1>4, AliasKeeps DEF ApplyAlias, blocks
<1>5. CASE ApplyUnit
  BY <1>1, <1>5, UnitKeeps DEF ApplyUnit
<1> QED  BY <1>2, <1>3, <1>4, <1>5

\* @system.
LEMMA SystemKept ==
  ASSUME RegistryOK, CachesOK, ContextsOK, ApplySystem
  PROVE  /\ UNCHANGED <<names, byName, prefixes, dimensions, contexts, caches>>
         /\ DefinitionsOK' /\ CachesOK' /\ ContextsOK' /\ Learns
<1>1. UNCHANGED <<names, byName, prefixes, dimensions, contexts, caches>>
  BY DEF ApplySystem, unitMaps
<1>2. PICK v : v = [using |-> Def.using, rules |-> Def.rules]
  OBVIOUS
<1>3. systems' = Put(systems, Def.name, v)
  BY <1>2 DEF ApplySystem
<1>4. DOMAIN v = {"using", "rules"}
  BY <1>2
<1>5. ContextsOK'
  BY <1>1, <1>3, <1>4 DEF ContextsOK, Put
<1> QED  BY <1>1, <1>5, DefinitionsStay, CachesStay

\* @context.
LEMMA ContextKept ==
  ASSUME LoadingInv, ApplyContext
  PROVE  DefinitionsOK' /\ CachesOK' /\ ContextsOK' /\ Learns
<1>1. GroupsInv /\ RegistryOK /\ CachesOK /\ CacheOK(dimCache) /\ ContextsOK
  BY DEF LoadingInv, CachesOK
<1>2. PICK new : Interned(new)
  BY <1>1, ContextApplied
<1>3. UNCHANGED <<prefixes, dimensions, systems, parseCache, rootCache, convCache>>
  BY <1>1, ContextApplied DEF walkCaches
<1>4. DefinitionsOK' /\ Grows /\ Learns
  BY <1>1, <1>2, <1>3, InternKeeps
<1>5. PICK us : /\ \A u \in us : IsUnits(u) /\ Dimensionality(u).end = "answered"
                /\ dimCache' = Cached(us)
  BY <1>1, ContextApplied
<1>6. PICK c : c = Cached(us)
  OBVIOUS
<1>7. CacheOK(c)
  BY <1>1, <1>5, <1>6, CachedTyped
<1>8. CacheOK(dimCache)'
  BY <1>3, <1>5, <1>6, <1>7 DEF CacheOK
<1>9. \A u \in DOMAIN rootCache' : RootOK(rootCache[u])'
  BY <1>1, <1>3, <1>4 DEF CachesOK, RootOK, Grows
<1>10. CachesOK'
  BY <1>1, <1>3, <1>4, <1>8, <1>9 DEF CachesOK, Grows
<1>11. ContextsOK'
  <2>1. CASE UNCHANGED contexts
    BY <1>1, <1>3, <2>1, ContextsStay
  <2>2. CASE ~UNCHANGED contexts
    <3>1. PICK d, cs : /\ d.name \in cs
                       /\ \A r \in d.transforms : {r.src, r.dst} \subseteq DOMAIN Meaning
                       /\ contexts' = [c_ \in DOMAIN contexts \cup cs |->
                                         IF c_ \in cs THEN d ELSE contexts[c_]]
      BY <1>1, <2>2, ContextApplied
    <3> QED  BY <1>1, <1>3, <3>1 DEF ContextsOK
  <2> QED  BY <2>1, <2>2
<1> QED  BY <1>4, <1>10, <1>11

\* What is registered stays right, and a registry that raises only learns.
LEMMA RegistryKept ==
  ASSUME LoadingInv, Next
  PROVE  /\ DefinitionsOK' /\ CachesOK' /\ ContextsOK'
         /\ onRedefinition = "raise" => Learns
<1>1. RegistryOK /\ CachesOK /\ ContextsOK
  BY DEF LoadingInv
<1>2. CASE Aside
  BY <1>1, <1>2, AsideStays, DefinitionsStay, CachesStay, ContextsStay
<1>3. CASE ApplyPrefix \/ ApplyDimension \/ ApplyDerived \/ ApplyAlias \/ ApplyUnit
  <2>1. Defines /\ UNCHANGED systems
    BY <1>3, DefinitionDefines
  <2> QED  BY <1>1, <2>1, CachesStay, ContextsStay DEF Defines
<1>4. CASE ApplySystem
  BY <1>1, <1>4, SystemKept
<1>5. CASE ApplyContext
  BY <1>5, ContextKept
<1>6. CASE LoadDone
  <2>1. /\ UNCHANGED <<names, byName, prefixes, dimensions, systems, contexts>>
        /\ DOMAIN parseCache' = {} /\ DOMAIN dimCache' = {} /\ DOMAIN rootCache' = {}
        /\ DOMAIN convCache' = {}
    BY <1>6 DEF LoadDone, registry, unitMaps, blocks, Empty
  <2>2. CachesOK'
    BY <2>1 DEF CachesOK, CacheOK
  <2> QED  BY <1>1, <2>1, <2>2, DefinitionsStay, ContextsStay
<1>7. CASE Asking
  <2>1. PICK ns, us, vs, pairs : Looked(ns, us, vs, pairs) /\ Asks(us, vs, pairs)
    BY <1>7, AskingTyped
  <2>2. PICK new : Interned(new)
    BY <1>1, <2>1, LookedTyped
  <2>3. UNCHANGED <<prefixes, dimensions, systems, contexts>> /\ CachesOK'
    BY <1>1, <2>1, LookedTyped
  <2>4. DefinitionsOK' /\ Learns
    BY <1>1, <2>2, <2>3, InternKeeps
  <2> QED  BY <1>1, <2>3, <2>4, ContextsStay
<1> QED  BY <1>2, <1>3, <1>4, <1>5, <1>6, <1>7, NextIs

\* Every step keeps the invariant.
LEMMA LoadingInvNext == LoadingInv /\ [Next]_vars => LoadingInv'
<1> SUFFICES ASSUME LoadingInv, [Next]_vars PROVE LoadingInv'
  OBVIOUS
<1>1. GroupsInv' /\ NamesOK'
  <2>1. GroupsInv'
    BY GroupsInvNext DEF LoadingInv
  <2> QED  BY <2>1 DEF GroupsInv
<1>2. CASE Next
  <2>1. RegistryOK'
    BY <1>1, <1>2, RegistryKept DEF RegistryOK, DefinitionsOK
  <2> QED  BY <1>1, <1>2, <2>1, RegistryKept, SessionKept DEF LoadingInv
<1>3. CASE UNCHANGED vars
  <2>1. UNCHANGED <<onRedefinition, names, byName, prefixes, dimensions, systems, contexts, caches,
                    pc, pending, text, parsed, lines, loads, calls>>
    BY <1>3 DEF vars, registry, unitMaps, blocks, session
  <2>2. RegistryOK /\ CachesOK /\ ContextsOK
    BY DEF LoadingInv
  <2>3. DefinitionsOK' /\ CachesOK' /\ ContextsOK'
    BY <2>1, <2>2, DefinitionsStay, CachesStay, ContextsStay
  <2>4. SessionOK'
    BY <2>1 DEF LoadingInv, SessionOK
  <2> QED  BY <1>1, <2>3, <2>4 DEF LoadingInv, RegistryOK, DefinitionsOK
<1> QED  BY <1>2, <1>3

\* What is loaded keeps the parts that its kind has, and so does what is remembered.
THEOREM LoadedTypeCorrect == Spec => []TypeOK
<1>1. Init => LoadingInv
  BY LoadingInvInit
<1>2. LoadingInv /\ [Next]_vars => LoadingInv'
  BY LoadingInvNext
<1>3. LoadingInv => TypeOK
  BY LoadingInvSuffices
<1> QED  BY <1>1, <1>2, <1>3, PTL DEF Spec

\* A name is reduced to root units exactly when its references lead to them.
THEOREM WalksEndWhereTheyCan == Spec => []WalksEnd
<1>1. Init => LoadingInv
  BY LoadingInvInit
<1>2. LoadingInv /\ [Next]_vars => LoadingInv'
  BY LoadingInvNext
<1>3. LoadingInv => WalksEnd
  BY WalksEndSuffices DEF LoadingInv
<1> QED  BY <1>1, <1>2, <1>3, PTL DEF Spec

-----------------------------------------------------------------------------
(* Caches stay right *)

\* From the end of a text that did not fail until the next text is applied.
FreshInv == pc \in {"idle", "reading"} /\ ~stale => CachesFresh

\* It says what CachesStayFresh does.
LEMMA FreshInvSuffices == FreshInv => CachesStayFresh
<1> SUFFICES ASSUME FreshInv, pc = "idle", ~stale
             PROVE  /\ \A n \in DOMAIN parseCache : parseCache[n] = GetName(n)
                    /\ \A u \in DOMAIN dimCache :
                         Follow(DimEntries, u) = Answer(Scaled(One, dimCache[u]))
                    /\ \A u \in DOMAIN rootCache : RootRight(u, rootCache[u])
                    /\ \A p \in DOMAIN convCache :
                         LET ratio == Follow(RootEntries, Div(p[1], p[2]))
                         IN  /\ ratio.end = "answered"
                             /\ convCache[p] \in {ratio.is.scale, Checked(ratio.is).scale}
  BY DEF CachesStayFresh, RootRight
<1>1. CachesFresh
  BY DEF FreshInv
<1>2. ASSUME NEW p \in DOMAIN convCache
      PROVE  LET ratio == Follow(RootEntries, Div(p[1], p[2]))
             IN  /\ ratio.end = "answered"
                 /\ convCache[p] \in {ratio.is.scale, Checked(ratio.is).scale}
  <2>1. PICK s : RootRight(Div(p[1], p[2]), s) /\ convCache[p] = s.scale
    BY <1>1 DEF CachesFresh, FactorRight
  <2>2. PICK ratio : ratio = Follow(RootEntries, Div(p[1], p[2]))
    OBVIOUS
  <2>3. ratio.end = "answered" /\ s \in {ratio.is, Checked(ratio.is)}
    BY <2>1, <2>2 DEF RootRight
  <2> QED  BY <2>1, <2>2, <2>3
<1> QED  BY <1>1, <1>2 DEF CachesFresh, FreshIn

\* Nothing is remembered.
LEMMA NothingRemembered ==
  ASSUME parseCache = Empty, dimCache = Empty, rootCache = Empty, convCache = Empty
  PROVE  CachesFresh
<1>1. DOMAIN parseCache = {} /\ DOMAIN dimCache = {} /\ DOMAIN rootCache = {} /\ DOMAIN convCache = {}
  BY DEF Empty
<1> QED  BY <1>1 DEF CachesFresh, FreshIn

LEMMA FreshInvInit == Init => FreshInv
BY NothingRemembered DEF Init, FreshInv

\* What is remembered of definitions that stay as they are.
LEMMA FreshStays ==
  ASSUME NamesOK, CachesFresh, UNCHANGED <<names, byName, prefixes, dimensions, caches>>
  PROVE  CachesFresh'
<1>1. PICK new : new = {}
  OBVIOUS
<1>2. Interned(new)
  BY <1>1 DEF Interned
<1>3. UNCHANGED <<parseCache, dimCache, rootCache, convCache>>
  BY DEF caches, walkCaches
<1>4. /\ \A n : GetName(n)' = GetName(n)
      /\ DimEntries' = DimEntries /\ RootEntries' = RootEntries /\ \A s : Checked(s)' = Checked(s)
  BY <1>2, ReadingsStay, EntriesStay
<1>5. ASSUME NEW u, NEW s PROVE RootRight(u, s) => RootRight(u, s)'
  BY <1>4 DEF RootRight
<1>6. ASSUME NEW u \in DOMAIN rootCache' PROVE RootRight(u, rootCache[u])'
  <2>1. PICK s : s = rootCache[u]
    OBVIOUS
  <2>2. RootRight(u, s)' /\ rootCache'[u] = s
    BY <1>3, <1>5, <2>1 DEF CachesFresh
  <2> QED  BY <2>2 DEF RootRight
<1>7. ASSUME NEW p \in DOMAIN convCache' PROVE FactorRight(p, convCache[p])'
  <2>1. PICK s : RootRight(Div(p[1], p[2]), s) /\ convCache[p] = s.scale
    BY <1>3 DEF CachesFresh, FactorRight
  <2>2. RootRight(Div(p[1], p[2]), s)' /\ convCache'[p] = s.scale
    BY <1>3, <1>5, <2>1
  <2> QED  BY <2>2 DEF FactorRight
<1>8. FreshIn(DimEntries, dimCache)'
  BY <1>3, <1>4 DEF CachesFresh, FreshIn
<1> QED  BY <1>3, <1>4, <1>6, <1>7, <1>8 DEF CachesFresh

\* Every step keeps it.
LEMMA FreshInvNext == LoadingInv /\ FreshInv /\ [Next]_vars => FreshInv'
<1> SUFFICES ASSUME LoadingInv, FreshInv, [Next]_vars PROVE FreshInv'
  OBVIOUS
<1>1. NamesOK /\ RegistryOK /\ CachesOK
  BY DEF LoadingInv, RegistryOK
<1>2. ASSUME UNCHANGED <<names, byName, prefixes, dimensions, caches, stale>>,
             pc \in {"idle", "reading"}
      PROVE  FreshInv'
  BY <1>1, <1>2, FreshStays DEF FreshInv
<1>3. CASE UNCHANGED vars
  <2>1. UNCHANGED <<names, byName, prefixes, dimensions, caches, stale, pc>>
    BY <1>3 DEF vars, registry, unitMaps
  <2> QED  BY <1>2, <2>1 DEF FreshInv
<1>4. CASE ApplyImport \/ ApplyDefaults \/ ApplyGroup \/ ApplySystem
  <2>1. stale' \/ pc' = "applying"
    BY <1>4 DEF ApplyImport, ApplyDefaults, ApplyGroup, ApplySystem, Applying, Applied, Abandon
  <2> QED  BY <2>1 DEF FreshInv
<1>5. CASE ApplyPrefix \/ ApplyDimension \/ ApplyDerived \/ ApplyAlias \/ ApplyUnit
  <2>1. stale' \/ pc' = "applying"
    BY <1>5 DEF ApplyPrefix, ApplyDimension, ApplyDerived, AddDimension, ApplyAlias, ApplyUnit,
                Applying, Applied, Abandon
  <2> QED  BY <2>1 DEF FreshInv
<1>6. CASE ApplyContext
  <2>1. stale' \/ pc' \in {"applying", "crashed"}
    BY <1>6 DEF ApplyContext, Applying, Applied, Abandon, Crash
  <2> QED  BY <2>1 DEF FreshInv
<1>7. CASE StartLoad \/ EndOfText \/ (\E l \in Line : Read(l) \/ Define(l)) \/ Grouping
  <2>1. UNCHANGED <<names, byName, prefixes, dimensions, caches>>
    BY <1>7, AsideStays DEF Aside
  <2>2. UNCHANGED stale /\ pc \in {"idle", "reading"}
    BY <1>7 DEF StartLoad, EndOfText, Read, Define, Grouping, NewGroup, AddUnits, AddGroups, Call
  <2> QED  BY <1>2, <2>1, <2>2
<1>8. CASE LoadDone
  <2>1. (parseCache = Empty /\ dimCache = Empty /\ rootCache = Empty /\ convCache = Empty)'
    BY <1>8 DEF LoadDone, Empty
  <2>2. (parseCache = Empty /\ dimCache = Empty /\ rootCache = Empty /\ convCache = Empty
         => CachesFresh)'
    BY NothingRemembered, PTL
  <2> QED  BY <2>1, <2>2 DEF FreshInv
<1>9. CASE Asking
  <2>1. PICK ns, us, vs, pairs : Looked(ns, us, vs, pairs) /\ Asks(us, vs, pairs)
    BY <1>9, AskingTyped
  <2>2. UNCHANGED stale /\ (CachesFresh => CachesFresh')
    BY <1>1, <2>1, LookedTyped
  <2>3. pc = "idle"
    BY <1>9, AskingLooks DEF Call
  <2> QED  BY <2>2, <2>3 DEF FreshInv
<1> QED  BY <1>3, <1>4, <1>5, <1>6, <1>7, <1>8, <1>9, NextIs DEF Aside

\* What the caches hold is what a registry that remembers nothing would answer.
THEOREM CachesAlwaysFresh == Spec => []CachesStayFresh
<1>1. Init => LoadingInv /\ FreshInv
  BY LoadingInvInit, FreshInvInit
<1>2. LoadingInv /\ FreshInv /\ [Next]_vars => LoadingInv' /\ FreshInv'
  BY LoadingInvNext, FreshInvNext
<1>3. FreshInv => CachesStayFresh
  BY FreshInvSuffices
<1> QED  BY <1>1, <1>2, <1>3, PTL DEF Spec

-----------------------------------------------------------------------------
(* What is learned is kept *)

\* The names that are defined lead where they led when there are more of them.
LEMMA LearnsExtends ==
  ASSUME NamesOK, Learns
  PROVE  Extends(DefinitionEntries, DimEntries')
<1>1. PICK E, D, F : E = DefinitionEntries /\ D = DimEntries /\ F = DimEntries'
  OBVIOUS
<1>2. /\ DOMAIN D = (Readable \ Bracketed) \cup (DOMAIN dimensions \cap Bracketed)
      /\ \A n \in DOMAIN D :
           D[n] = IF n \notin Bracketed
                  THEN Inner(One, IF Nameless(GetName(n)) THEN Empty ELSE Named(GetName(n)).reference)
                  ELSE IF dimensions[n].isBase THEN Leaf(n) ELSE Inner(One, dimensions[n].reference)
  BY <1>1 DEF DimEntries
<1>3. /\ DOMAIN F = (Readable' \ Bracketed) \cup (DOMAIN dimensions' \cap Bracketed)
      /\ \A n \in DOMAIN F :
           F[n] = IF n \notin Bracketed
                  THEN Inner(One, IF Nameless(GetName(n))' THEN Empty ELSE Named(GetName(n))'.reference)
                  ELSE IF dimensions'[n].isBase THEN Leaf(n) ELSE Inner(One, dimensions'[n].reference)
  BY <1>1 DEF DimEntries
<1>4. DOMAIN E = DOMAIN D \cap (DOMAIN names \cup Bracketed) /\ \A n \in DOMAIN E : E[n] = D[n]
  BY <1>1 DEF DefinitionEntries
<1>5. ASSUME NEW n \in DOMAIN E PROVE n \in DOMAIN F /\ F[n] = E[n]
  <2>1. CASE n \notin Bracketed
    <3>1. PICK g : g = names[n]
      OBVIOUS
    <3>2. n \in DOMAIN names /\ g \in DOMAIN byName /\ g \in DOMAIN names
      BY <1>4, <2>1, <3>1 DEF NamesOK
    <3>3. n \in DOMAIN names' /\ names'[n] = g /\ g \in DOMAIN byName' /\ byName'[g] = byName[g]
      BY <3>1, <3>2 DEF Learns
    <3>4. GetName(n) = g /\ ~Nameless(g) /\ Named(g) = byName[g]
      BY <3>1, <3>2 DEF GetName, Nameless, Named
    <3>5. GetName(n)' = g
      BY <3>3 DEF GetName
    <3>6. Nameless(GetName(n))' = FALSE /\ Named(GetName(n))' = byName[g]
      BY <3>3, <3>5 DEF Nameless, Named
    <3>7. g # Missing
      <4>1. g \in Definable \cup FullNames
        BY <3>2 DEF NamesOK
      <4>2. Missing \notin Definable \cup DOMAIN Split
        BY ReadingAssumption
      <4>3. FullNames \subseteq DOMAIN Split
        BY ReadingAssumption DEF FullNames
      <4> HIDE DEF Missing
      <4> QED  BY <4>1, <4>2, <4>3
    <3>8. n \in Readable'
      BY <3>3, <3>5, <3>7 DEF Readable
    <3>9. n \in DOMAIN F
      BY <1>3, <2>1, <3>8
    <3>10. F[n] = Inner(One, byName[g].reference)
      BY <1>3, <2>1, <3>6, <3>9
    <3>11. E[n] = Inner(One, byName[g].reference)
      BY <1>2, <1>4, <2>1, <3>4
    <3> QED  BY <3>9, <3>10, <3>11
  <2>2. CASE n \in Bracketed
    <3>1. n \in DOMAIN dimensions
      BY <1>2, <1>4, <2>2
    <3>2. n \in DOMAIN dimensions' /\ dimensions'[n] = dimensions[n]
      BY <3>1 DEF Learns
    <3> QED  BY <1>2, <1>3, <1>4, <2>2, <3>2
  <2> QED  BY <2>1, <2>2
<1> QED  BY <1>1, <1>5 DEF Extends

\* Products are held.
LEMMA HeldTyped ==
  ASSUME CacheOK(dimCache), ContextsOK
  PROVE  \A u \in Held : IsUnits(u)
<1>1. \A v \in DOMAIN Meaning : IsUnits(Meaning[v].units)
  BY MeaningIsProduct DEF IsProduct
<1>2. \A r \in UNION {contexts[c].transforms : c \in DOMAIN contexts} :
        r.src \in DOMAIN Meaning /\ r.dst \in DOMAIN Meaning
  BY DEF ContextsOK
<1>3. \A u \in DOMAIN dimCache : IsUnits(u)
  BY DEF CacheOK
<1> QED  BY <1>1, <1>2, <1>3 DEF Held

\* So what is held has the dimensions it had.
LEMMA HeldStays ==
  ASSUME LoadingInv, LoadingInv', Learns, NEW u \in Held,
         Follow(DefinitionEntries, u).end = "answered"
  PROVE  Follow(DimEntries', u) = Follow(DefinitionEntries, u)
<1>1. NamesOK /\ RegistryOK /\ RegistryOK' /\ CacheOK(dimCache) /\ ContextsOK
  BY DEF LoadingInv, RegistryOK, CachesOK
<1>2. PICK E, F : E = DefinitionEntries /\ F = DimEntries'
  OBVIOUS
<1>3. EntriesOK(E)
  <2>1. PICK D : D = DimEntries
    OBVIOUS
  <2>2. EntriesOK(D)
    BY <1>1, <2>1, EntriesTyped
  <2>3. DOMAIN E \subseteq DOMAIN D /\ \A n \in DOMAIN E : E[n] = D[n]
    BY <1>2, <2>1 DEF DefinitionEntries
  <2> QED  BY <2>2, <2>3 DEF EntriesOK
<1>4. EntriesOK(F)
  <2>1. (RegistryOK => EntriesOK(DimEntries))'
    BY EntriesTyped, PTL
  <2> QED  BY <1>1, <1>2, <2>1 DEF EntriesOK
<1>5. Extends(E, F)
  BY <1>1, <1>2, LearnsExtends
<1>6. IsUnits(u)
  BY <1>1, HeldTyped
<1> QED  BY <1>2, <1>3, <1>4, <1>5, <1>6, AnswersStay

\* What a registry that raises has learned from its definitions it keeps.
THEOREM DimensionsAlwaysStay == Spec => DimensionsStay
<1>1. Init => LoadingInv
  BY LoadingInvInit
<1>2. LoadingInv /\ [Next]_vars => LoadingInv'
  BY LoadingInvNext
<1>3. ASSUME LoadingInv, LoadingInv', [Next]_vars
      PROVE  [onRedefinition = "raise" =>
                LET defined == DefinitionEntries
                    entries == DimEntries'
                IN  \A u \in Held : LET found == Follow(defined, u)
                                   IN  found.end = "answered" => Follow(entries, u) = found]_vars
  <2>1. CASE UNCHANGED vars
    BY <2>1
  <2>2. CASE Next
    <3>1. onRedefinition = "raise" => Learns
      BY <1>3, <2>2, RegistryKept
    <3>2. ASSUME onRedefinition = "raise", NEW u \in Held,
                 Follow(DefinitionEntries, u).end = "answered"
          PROVE  Follow(DimEntries', u) = Follow(DefinitionEntries, u)
      BY <1>3, <3>1, <3>2, HeldStays
    <3> QED  BY <3>2
  <2> QED  BY <1>3, <2>1, <2>2
<1>4. Spec => []LoadingInv
  BY <1>1, <1>2, PTL DEF Spec
<1> QED  BY <1>3, <1>4, PTL DEF Spec, DimensionsStay
=============================================================================
