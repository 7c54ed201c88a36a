------------------------------ MODULE Fractions ------------------------------
(***************************************************************************)
(* Exact fractions <<n, d>>, d > 0, in lowest terms: the probabilities of   *)
(* crfsuite without the rounding of floatval_t.  Equal fractions are equal  *)
(* values.                                                                  *)
(***************************************************************************)
EXTENDS Integers, Sequences, Functions

Zero == <<0, 1>>
One  == <<1, 1>>

gcd[p \in Nat \X Nat] == IF p[2] = 0 THEN p[1] ELSE gcd[<< p[2], p[1] % p[2] >>]

Fraction == Int \X (Nat \ {0})

Gcd(n, d) == gcd[<< n, d >>]
AbsGcd(n, d) == Gcd(IF n < 0 THEN -n ELSE n, d)

(* Such a fraction.                                                         *)
Lowest(x) == x \in Fraction /\ AbsGcd(x[1], x[2]) = 1

reduced == [x \in Fraction |->
  LET g == AbsGcd(x[1], x[2]) IN << x[1] \div g, x[2] \div g >>]

(* Functions and not operators, so that TLC evaluates an argument once;     *)
(* common divisors are taken out first, for its integers have 32 bits.      *)
plus == [p \in Fraction \X Fraction |->
  LET u == p[1] v == p[2]
      g == Gcd(u[2], v[2])
  IN  reduced[u[1] * (v[2] \div g) + v[1] * (u[2] \div g), u[2] * (v[2] \div g)]]
times == [p \in Fraction \X Fraction |->
  LET u == p[1] v == p[2]
      g == AbsGcd(u[1], v[2])
      h == AbsGcd(v[1], u[2])
  IN  << (u[1] \div g) * (v[1] \div h), (u[2] \div h) * (v[2] \div g) >>]

Times(x, y) == times[x, y]

(* y is positive: a sum of exponentials or a scale factor.                  *)
Over(x, y) == times[x, << y[2], y[1] >>]

(* By any number but zero.                                                  *)
DividedBy(x, y) == IF y[1] > 0 THEN Over(x, y) ELSE times[x, << -y[2], -y[1] >>]

Minus(x) == << -x[1], x[2] >>

Less(x, y) == LET g == Gcd(x[2], y[2]) IN x[1] * (y[2] \div g) < y[1] * (x[2] \div g)

(* exp, to base 2 in place of e.                                            *)
power[n \in Nat] == IF n = 0 THEN 1 ELSE 2 * power[n - 1]
Exp(n) == IF n < 0 THEN << 1, power[-n] >> ELSE << power[n], 1 >>

(* A row of values; the concatenation makes TLC evaluate each one once.     *)
Row(values) == << >> \o values

(* The sum of a row of integers, added up as they come.                      *)
IntSum(row) ==
  LET sum[k \in 0 .. Len(row)] == IF k = 0 THEN 0 ELSE sum[k - 1] + row[k]
  IN  sum[Len(row)]

(* vecsum and vecsumlog: the sum and the product of the values of a row.    *)
VecSum(row) ==
  LET sum[k \in 0 .. Len(row)] == IF k = 0 THEN Zero ELSE plus[sum[k - 1], row[k]]
  IN  sum[Len(row)]

Product(row) ==
  LET product[k \in 0 .. Len(row)] == IF k = 0 THEN One ELSE times[product[k - 1], row[k]]
  IN  product[Len(row)]
==============================================================================
