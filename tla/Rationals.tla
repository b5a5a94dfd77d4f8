----------------------------- MODULE Rationals -----------------------------
(***************************************************************************)
(* The arithmetic of the analyses.  The code works with floats; here a     *)
(* number is a fraction <<numerator, denominator>> in lowest terms, so     *)
(* that two ways of computing the same number agree exactly.  None, the    *)
(* value of what cannot be computed yet, is the empty sequence.            *)
(***************************************************************************)
EXTENDS Integers, Sequences

None == <<>>

gcd[p \in Nat \X Nat] == IF p[2] = 0 THEN p[1] ELSE gcd[<<p[2], p[1] % p[2]>>]

Abs(n) == IF n < 0 THEN -n ELSE n

Ratio(n, d) ==
  LET g == gcd[<<Abs(n), Abs(d)>>]
      s == IF d < 0 THEN -1 ELSE 1
  IN <<s * (n \div g), s * (d \div g)>>

(* The fractions in lowest terms.                                          *)
Number == {a \in Int \X (Nat \ {0}) : gcd[<<Abs(a[1]), a[2]>>] = 1}

Q(n) == <<n, 1>>
Zero == Q(0)
One  == Q(1)

Plus(a, b)  == Ratio(a[1] * b[2] + b[1] * a[2], a[2] * b[2])
Minus(a, b) == Ratio(a[1] * b[2] - b[1] * a[2], a[2] * b[2])
Times(a, b) == Ratio(a[1] * b[1], a[2] * b[2])
Over(a, b)  == Ratio(a[1] * b[2], a[2] * b[1])
Negated(a)  == <<-a[1], a[2]>>
Positive(a) == a[1] > 0
Magnitude(a) == <<Abs(a[1]), a[2]>>
Below(a, b) == a[1] * b[2] < b[1] * a[2]

Lowest(S)  == CHOOSE a \in S : \A b \in S : ~Below(b, a)
Highest(S) == CHOOSE a \in S : \A b \in S : ~Below(a, b)

Total(s) ==
  LET f[i \in 0 .. Len(s)] == IF i = 0 THEN Zero ELSE Plus(f[i - 1], s[i])
  IN f[Len(s)]

Product(s) ==
  LET f[i \in 0 .. Len(s)] == IF i = 0 THEN One ELSE Times(f[i - 1], s[i])
  IN f[Len(s)]

Mean(s) == Over(Total(s), Q(Len(s)))

=============================================================================
