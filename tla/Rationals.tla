----------------------------- MODULE Rationals -----------------------------
(***************************************************************************)
(* The numbers of the package are float64.  Here they are fractions in     *)
(* lowest terms, <<numerator, denominator>> with a positive denominator,   *)
(* and every number that is not a fraction (an irrational power, an        *)
(* infinity) is Inexact, which absorbs what is computed with it.           *)
(***************************************************************************)
EXTENDS Integers

Inexact == <<0, 0>>
Zero == <<0, 1>>
One == <<1, 1>>
Whole(n) == <<n, 1>>

\* Every number that there is.
Rational == {r \in Int \X Nat : r[2] = 0 => r = Inexact}
IsRational(r) == r \in Rational

Gcd[p \in Nat \X Nat] == IF p[2] = 0 THEN p[1] ELSE Gcd[<<p[2], p[1] % p[2]>>]
Abs(n) == IF n < 0 THEN -n ELSE n

Fraction(n, d) ==
  IF d = 0 THEN Inexact
  ELSE IF d = 1 THEN Whole(n)
  ELSE LET g == Gcd[<<Abs(n), Abs(d)>>]
           sign == IF d < 0 THEN -1 ELSE 1
       IN  <<sign * (n \div g), Abs(d) \div g>>

Neg(r) == <<-r[1], r[2]>>
Plus(r, s) == Fraction(r[1] * s[2] + s[1] * r[2], r[2] * s[2])
Minus(r, s) == Plus(r, Neg(s))
Times(r, s) == Fraction(r[1] * s[1], r[2] * s[2])
Over(r, s) == IF s = Inexact THEN Inexact ELSE Fraction(r[1] * s[2], r[2] * s[1])
AtMost(r, s) == r[1] * s[2] <= s[1] * r[2]

\* a^n, for n at least 0, in a form that can be reasoned about.
Raised(a, n) == LET to[i \in 0..n] == IF i = 0 THEN 1 ELSE a * to[i - 1] IN to[n]

\* math.Pow: anything to the power 0, and 1 to any power, is 1.
Power(r, p) ==
  IF p = Zero \/ r = One THEN One
  ELSE IF p[2] # 1 \/ r = Inexact THEN Inexact
  ELSE IF p[1] > 0 THEN <<Raised(r[1], p[1]), Raised(r[2], p[1])>>
  ELSE Fraction(Raised(r[2], -p[1]), Raised(r[1], -p[1]))
=============================================================================
