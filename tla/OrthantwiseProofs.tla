-------------------------- MODULE OrthantwiseProofs --------------------------
(***************************************************************************)
(* Proofs about Orthantwise, for any weighted problem of two weights that  *)
(* is convex, any directions, first steps, ftol and number of iterations,  *)
(* and any number of resumptions.                                          *)
(***************************************************************************)
EXTENDS Orthantwise, Lemmas, TLAPS

Points == [Weights -> Numbers]

(* No coordinate goes up along v, whose slope is g.                        *)
Descends(v, g) == \A i \in Weights : ~Less(Zero, Times(v[i], g[i]))

Orthant(from, g) == [i \in Weights |-> IF from[i] = Zero THEN Minus(g[i]) ELSE from[i]]

OwlTyped ==
  /\ problem \in Problems
  /\ owl \in {"loop", "search", "direction", "converged", "maximum", "failed"}
  /\ {x, xp, pg, gp, d, wp} \subseteq Points
  /\ {fx, finit, step} \subseteq Numbers /\ Less(Zero, step)

(* OrthantwiseDescent is not inductive: that the objective falls comes of  *)
(* the direction, which the pseudo-gradient before it has constrained, and *)
(* of the orthant that a trial is projected to.  The pseudo-gradient is    *)
(* that of the point where the test for the end reads it.                  *)
OwlInv ==
  /\ OwlTyped
  /\ owl = "loop" => Descends(d, pg)
  /\ owl = "search" => Descends(d, gp) /\ wp = Orthant(xp, gp)
  /\ owl \in {"converged", "direction"} =>
       pg = PseudoGradient(problem, x) /\ (owl = "converged" <=> pg = Origin)
  /\ OrthantwiseDescent

LEMMA ProblemIs ==
  ASSUME NEW pr \in Problems
  PROVE  /\ pr.a \in Nat \ {0} /\ pr.m \in Int /\ pr.m * pr.m < pr.a * pr.a
         /\ pr.b[1] \in Int /\ pr.b[2] \in Int /\ pr.c \in Nat \ {0}
BY OrthantwiseAssumption DEF Weights

LEMMA TwoWeights == 1 \in Weights /\ 2 \in Weights /\ \A i \in Weights : i = 1 \/ i = 2
BY DEF Weights

LEMMA PointNumbers ==
  ASSUME NEW v \in Points
  PROVE  v[1] \in Numbers /\ v[2] \in Numbers /\ \A i \in Weights : v[i] \in Numbers /\ v[Other(i)] \in Numbers
<1>1. \A i \in Weights : v[i] \in Numbers
  BY DEF Points
<1>2. Other(1) = 2 /\ Other(2) = 1
  BY DEF Other
<1> QED
  BY <1>1, <1>2, TwoWeights

LEMMA IntegerNumber ==
  ASSUME NEW n \in Int
  PROVE  Int2F(n) \in Numbers /\ Equals(Int2F(n), n, 1)
BY WholeEquals DEF Int2F, Numbers, Equals

LEMMA GradientNumber ==
  ASSUME NEW pr \in Problems, NEW v \in Points
  PROVE  Gradient(pr, v) \in Points
<1> SUFFICES ASSUME NEW i \in Weights
             PROVE Plus2(Plus2(Times(Int2F(pr.a), v[i]), Times(Int2F(pr.m), v[Other(i)])), Int2F(-pr.b[i])) \in Numbers
  BY DEF Gradient, Points
<1>1. Int2F(pr.a) \in Numbers /\ Int2F(pr.m) \in Numbers /\ Int2F(-pr.b[i]) \in Numbers
  BY ProblemIs, TwoWeights, IntegerNumber
<1>2. v[i] \in Numbers /\ v[Other(i)] \in Numbers
  BY PointNumbers
<1>3. Times(Int2F(pr.a), v[i]) \in Numbers /\ Times(Int2F(pr.m), v[Other(i)]) \in Numbers
  BY <1>1, <1>2, PlusNumber
<1> QED
  BY <1>1, <1>3, PlusNumber DEF Plus2

LEMMA PseudoGradientNumber ==
  ASSUME NEW pr \in Problems, NEW v \in Points
  PROVE  PseudoGradient(pr, v) \in Points
<1>1. PICK g \in Points : g = Gradient(pr, v)
  BY GradientNumber
<1>2. PICK c \in Numbers : c = Int2F(pr.c)
  BY ProblemIs, IntegerNumber
<1>3. Minus(c) \in Numbers
  BY <1>2, PlusNumber
<1>4. \A i \in Weights : Plus2(g[i], c) \in Numbers /\ Plus2(g[i], Minus(c)) \in Numbers
  BY <1>1, <1>2, <1>3, PlusNumber, PointNumbers DEF Plus2
<1>5. Zero \in Numbers
  BY ZeroNumber
<1> QED
  BY <1>1, <1>2, <1>4, <1>5 DEF PseudoGradient, Points

LEMMA OriginIsPoint == Origin \in Points /\ \A i \in Weights : Origin[i] = Zero
BY ZeroNumber DEF Origin, Points

LEMMA MagnitudeParts ==
  ASSUME NEW p \in Numbers, NEW n \in Int, NEW q \in Nat \ {0}, Equals(p, n, q)
  PROVE  Magnitude(p) \in Numbers /\ Equals(Magnitude(p), IF n < 0 THEN -n ELSE n, q)
<1>1. Minus(p) \in Numbers /\ Equals(Minus(p), -n, q)
  BY MinusEquals, PlusNumber DEF Numbers
<1>2. p[1] < 0 <=> n < 0
  <2>1. p[1] >= 0 <=> n >= 0
    BY PositiveOf
  <2>2. p[1] \in Int
    BY FractionEquals DEF Numbers
  <2> QED
    BY <2>1, <2>2
<1> QED
  BY <1>1, <1>2 DEF Magnitude

(* The objective over a common denominator of the weights.                 *)
Size(n) == IF n < 0 THEN -n ELSE n

Value(pr, X, Y, D) ==
  pr.a * (X * X + Y * Y) + 2 * (pr.m * (X * Y)) - 2 * (D * (pr.b[1] * X + pr.b[2] * Y))
    + 2 * (D * (pr.c * (Size(X) + Size(Y))))

LEMMA InnerParts ==
  ASSUME NEW u \in Numbers, NEW v \in Numbers, NEW n \in Int, NEW m \in Int, NEW D \in Nat \ {0},
         Equals(u, n, D), Equals(v, m, D), NEW p \in Int, NEW q \in Int
  PROVE  LET r == Plus2(Times(Int2F(p), u), Times(Int2F(q), v))
         IN  r \in Numbers /\ Equals(r, p * n + q * m, D)
<1>1. ASSUME NEW w \in Numbers, NEW l \in Int, Equals(w, l, D), NEW s \in Int
      PROVE  Equals(Times(Int2F(s), w), s * l, D) /\ s * l \in Int
  <2>1. Equals(Times(Int2F(s), w), s * l, 1 * D)
    BY <1>1, IntegerNumber, TimesEquals DEF Times
  <2> QED
    BY <2>1
<1>2. Equals(Times(Int2F(p), u), p * n, D) /\ Equals(Times(Int2F(q), v), q * m, D) /\ p * n \in Int /\ q * m \in Int
  BY <1>1
<1> QED
  BY <1>2, PartsOfPlus DEF Plus2

LEMMA SquareParts ==
  ASSUME NEW u \in Numbers, NEW v \in Numbers, NEW n \in Int, NEW m \in Int, NEW D \in Nat \ {0},
         Equals(u, n, D), Equals(v, m, D)
  PROVE  Equals(Times(u, v), n * m, D * D) /\ n * m \in Int /\ D * D \in Nat \ {0}
<1>1. n * m \in Int /\ D * D \in Nat \ {0}
  OBVIOUS
<1>2. Equals(Times(u, v), n * m, D * D)
  BY TimesEquals DEF Times
<1> QED
  BY <1>1, <1>2

(* A whole number or a fraction times another.                             *)
LEMMA FactorParts ==
  ASSUME NEW r, NEW n \in Int, NEW q \in Nat \ {0}, Equals(r, n, q), NEW s, NEW p \in Int, NEW l \in Nat \ {0},
         Equals(s, p, l)
  PROVE  Equals(Times(s, r), p * n, l * q) /\ p * n \in Int /\ l * q \in Nat \ {0}
<1>1. p * n \in Int /\ l * q \in Nat \ {0}
  OBVIOUS
<1>2. Equals(Times(s, r), p * n, l * q)
  BY TimesEquals DEF Times
<1> QED
  BY <1>1, <1>2

LEMMA WholeParts ==
  ASSUME NEW r, NEW n \in Int, NEW q \in Nat \ {0}, Equals(r, n, q), NEW p \in Int
  PROVE  Equals(Times(Int2F(p), r), p * n, q) /\ p * n \in Int
<1>1. PICK s : s = Int2F(p) /\ Equals(s, p, 1)
  BY IntegerNumber
<1>2. Equals(Times(s, r), p * n, 1 * q) /\ p * n \in Int
  BY <1>1, FactorParts
<1> QED
  BY <1>1, <1>2

LEMMA SumParts ==
  ASSUME NEW u, NEW v, NEW n \in Int, NEW m \in Int, NEW D \in Nat \ {0}, Equals(u, n, D), Equals(v, m, D)
  PROVE  Plus2(u, v) \in Numbers /\ Equals(Plus2(u, v), n + m, D) /\ n + m \in Int
<1>1. n + m \in Int
  OBVIOUS
<1>2. plus[u, v] \in Numbers /\ Equals(plus[u, v], n + m, D)
  BY PartsOfPlus
<1> QED
  BY <1>1, <1>2 DEF Plus2

LEMMA ObjectiveParts ==
  ASSUME NEW pr \in Problems, NEW v \in Points, NEW X \in Int, NEW Y \in Int, NEW D \in Nat \ {0},
         Equals(v[1], X, D), Equals(v[2], Y, D)
  PROVE  /\ Objective(pr, v) \in Numbers /\ Value(pr, X, Y, D) \in Int /\ 2 * (D * D) \in Nat \ {0}
         /\ Equals(Objective(pr, v), Value(pr, X, Y, D), 2 * (D * D))
<1>1. v[1] \in Numbers /\ v[2] \in Numbers
  BY PointNumbers
<1>2. PICK DD \in Nat \ {0} : DD = D * D
  OBVIOUS
<1>3. PICK a \in Nat \ {0}, m \in Int, b \in Int, e \in Int, c \in Nat \ {0} :
        a = pr.a /\ m = pr.m /\ b = pr.b[1] /\ e = pr.b[2] /\ c = pr.c
  BY ProblemIs
<1>4. PICK XX \in Int, YY \in Int, XY \in Int :
        /\ XX = X * X /\ YY = Y * Y /\ XY = X * Y
        /\ Equals(Times(v[1], v[1]), XX, DD) /\ Equals(Times(v[2], v[2]), YY, DD) /\ Equals(Times(v[1], v[2]), XY, DD)
  BY <1>1, <1>2, SquareParts
<1>5. PICK squares : squares = Plus2(Times(v[1], v[1]), Times(v[2], v[2])) /\ Equals(squares, XX + YY, DD)
  BY <1>4, PartsOfPlus DEF Plus2
<1>6. Equals(Times(<< a, 2 >>, squares), a * (XX + YY), 2 * DD)
  <2>1. Equals(<< a, 2 >>, a, 2)
    BY <1>3 DEF Equals, Fraction
  <2>2. XX + YY \in Int
    BY <1>4
  <2> QED
    BY <1>5, <2>1, <2>2, FactorParts
<1>7. Equals(Times(Int2F(m), Times(v[1], v[2])), 2 * (m * XY), 2 * DD)
  <2>1. Equals(Times(Int2F(m), Times(v[1], v[2])), m * XY, DD)
    BY <1>3, <1>4, WholeParts
  <2>2. Equals(Times(Int2F(m), Times(v[1], v[2])), (m * XY) * 2, DD * 2)
    BY <2>1, Rescaled
  <2>3. (m * XY) * 2 = 2 * (m * XY) /\ DD * 2 = 2 * DD
    BY <1>3, <1>4
  <2> QED
    BY <2>2, <2>3
<1>8. PICK inner \in Numbers :
        /\ inner = Inner([i \in Weights |-> Int2F(pr.b[i])], v)
        /\ Equals(inner, b * X + e * Y, D)
  <2>1. Inner([i \in Weights |-> Int2F(pr.b[i])], v) = Plus2(Times(Int2F(b), v[1]), Times(Int2F(e), v[2]))
    BY <1>3, TwoWeights DEF Inner
  <2> QED
    BY <1>1, <1>3, <2>1, InnerParts
<1>9. Equals(Minus(inner), - (2 * (D * (b * X + e * Y))), 2 * DD)
  <2>1. PICK l \in Int : l = b * X + e * Y
    BY <1>3
  <2>2. Equals(Minus(inner), -l, D) /\ -l \in Int
    BY <1>8, <2>1, MinusEquals
  <2>3. Equals(Minus(inner), (-l) * (2 * D), D * (2 * D))
    BY <2>2, Rescaled
  <2>4. (-l) * (2 * D) = -(2 * (D * l)) /\ D * (2 * D) = 2 * DD
    BY <1>2, <2>1
  <2> QED
    BY <2>1, <2>3, <2>4
<1>10. PICK s \in Int : s = Size(X) + Size(Y) /\ Equals(X1Norm(v), s, D)
  <2>1. Equals(Magnitude(v[1]), Size(X), D) /\ Equals(Magnitude(v[2]), Size(Y), D) /\ Size(X) \in Int /\ Size(Y) \in Int
    BY <1>1, MagnitudeParts DEF Size
  <2>2. Equals(X1Norm(v), Size(X) + Size(Y), D)
    BY <2>1, PartsOfPlus DEF X1Norm, Plus2
  <2> QED
    BY <2>1, <2>2
<1>11. Equals(Times(Int2F(c), X1Norm(v)), 2 * (D * (c * s)), 2 * DD)
  <2>1. Equals(Times(Int2F(c), X1Norm(v)), c * s, D) /\ c * s \in Int
    <3>1. c \in Int
      BY <1>3
    <3> QED
      BY <3>1, <1>10, WholeParts
  <2>2. Equals(Times(Int2F(c), X1Norm(v)), (c * s) * (2 * D), D * (2 * D))
    BY <2>1, Rescaled
  <2>3. (c * s) * (2 * D) = 2 * (D * (c * s)) /\ D * (2 * D) = 2 * DD
    BY <1>2, <2>1
  <2> QED
    BY <2>2, <2>3
<1>12. PICK p \in Int, q \in Int, r \in Int, t \in Int :
         /\ p = a * (XX + YY) /\ q = 2 * (m * XY) /\ r = -(2 * (D * (b * X + e * Y))) /\ t = 2 * (D * (c * s))
  <2>1. a * (XX + YY) \in Int /\ 2 * (m * XY) \in Int
    BY <1>3, <1>4
  <2>2. PICK l \in Int : l = b * X + e * Y
    BY <1>3
  <2>3. -(2 * (D * (b * X + e * Y))) \in Int
    BY <2>2
  <2>4. 2 * (D * (c * s)) \in Int
    <3>1. c * s \in Int
      BY <1>3, <1>10
    <3> QED
      BY <3>1
  <2> QED
    BY <2>1, <2>3, <2>4
<1>13. PICK R \in Nat \ {0} : R = 2 * DD
  BY <1>2
<1>18. PICK A, B, C, E :
         /\ A = Times(<< a, 2 >>, squares) /\ B = Times(Int2F(m), Times(v[1], v[2]))
         /\ C = Minus(inner) /\ E = Times(Int2F(c), X1Norm(v))
  OBVIOUS
<1>19. Equals(A, p, R) /\ Equals(B, q, R) /\ Equals(C, r, R) /\ Equals(E, t, R)
  BY <1>6, <1>7, <1>9, <1>11, <1>12, <1>13, <1>18
<1>14. PICK F, f : F = Plus2(A, B) /\ Equals(F, f, R) /\ f = p + q /\ f \in Int
  <2>1. Equals(Plus2(A, B), p + q, R) /\ p + q \in Int
    BY <1>19, SumParts
  <2> QED
    BY <2>1
<1>15. PICK G, g : G = Plus2(F, C) /\ Equals(G, g, R) /\ g = f + r /\ g \in Int
  <2>1. Equals(Plus2(F, C), f + r, R) /\ f + r \in Int
    BY <1>19, <1>14, SumParts
  <2> QED
    BY <2>1
<1>20. Plus2(G, E) \in Numbers /\ Equals(Plus2(G, E), g + t, R) /\ g + t \in Int
  BY <1>19, <1>15, SumParts
<1>16. Objective(pr, v) = Plus2(G, E)
  BY <1>3, <1>5, <1>8, <1>14, <1>15, <1>18 DEF Objective, Smooth
<1>17. g + t = Value(pr, X, Y, D)
  BY <1>3, <1>4, <1>10, <1>12, <1>14, <1>15 DEF Value
<1> QED
  BY <1>2, <1>13, <1>16, <1>17, <1>20

(* The gradient and the pseudo-gradient over it.                           *)
Slope(pr, X, Y, e, D) == pr.a * X + pr.m * Y - D * e

Kinked(X, G, K) ==
  IF X < 0 \/ (X = 0 /\ K < G) THEN G - K
  ELSE IF X > 0 \/ (X = 0 /\ G < -K) THEN G + K ELSE 0

LEMMA SlopeParts ==
  ASSUME NEW pr \in Problems, NEW v \in Points, NEW X \in Int, NEW Y \in Int, NEW D \in Nat \ {0},
         NEW i \in Weights, Equals(v[i], X, D), Equals(v[Other(i)], Y, D)
  PROVE  /\ Gradient(pr, v)[i] \in Numbers /\ Slope(pr, X, Y, pr.b[i], D) \in Int
         /\ Equals(Gradient(pr, v)[i], Slope(pr, X, Y, pr.b[i], D), D)
<1>1. PICK a \in Int, m \in Int, e \in Int : a = pr.a /\ m = pr.m /\ e = pr.b[i]
  BY ProblemIs, TwoWeights
<1>2. PICK A, B, C : A = Times(Int2F(a), v[i]) /\ B = Times(Int2F(m), v[Other(i)]) /\ C = Int2F(-e)
  OBVIOUS
<1>3. PICK p \in Int, q \in Int, r \in Int : p = a * X /\ q = m * Y /\ r = -(D * e)
  BY <1>1
<1>4. Equals(A, p, D) /\ Equals(B, q, D)
  BY <1>1, <1>2, <1>3, WholeParts
<1>5. Equals(C, r, D)
  <2>1. Equals(C, -e, 1) /\ -e \in Int
    BY <1>1, <1>2, IntegerNumber
  <2>2. Equals(C, (-e) * D, 1 * D)
    BY <2>1, Rescaled
  <2>3. (-e) * D = r /\ 1 * D = D
    BY <1>1, <1>3
  <2> QED
    BY <2>2, <2>3
<1>6. PICK F, f : F = Plus2(A, B) /\ Equals(F, f, D) /\ f = p + q /\ f \in Int
  <2>1. Equals(Plus2(A, B), p + q, D) /\ p + q \in Int
    BY <1>4, SumParts
  <2> QED
    BY <2>1
<1>7. Plus2(F, C) \in Numbers /\ Equals(Plus2(F, C), f + r, D) /\ f + r \in Int
  BY <1>5, <1>6, SumParts
<1>8. Gradient(pr, v)[i] = Plus2(F, C)
  BY <1>1, <1>2, <1>6 DEF Gradient
<1>9. f + r = Slope(pr, X, Y, pr.b[i], D)
  BY <1>1, <1>3, <1>6 DEF Slope
<1> QED
  BY <1>7, <1>8, <1>9

LEMMA PseudoParts ==
  ASSUME NEW pr \in Problems, NEW v \in Points, NEW X \in Int, NEW D \in Nat \ {0}, NEW i \in Weights,
         Equals(v[i], X, D), NEW G \in Int, Equals(Gradient(pr, v)[i], G, D), NEW K \in Int, K = D * pr.c
  PROVE  /\ PseudoGradient(pr, v)[i] \in Numbers /\ Kinked(X, G, K) \in Int
         /\ Equals(PseudoGradient(pr, v)[i], Kinked(X, G, K), D)
<1>1. PICK c \in Numbers : c = Int2F(pr.c) /\ Equals(c, K, D)
  <2>1. Int2F(pr.c) \in Numbers /\ Equals(Int2F(pr.c), pr.c, 1) /\ pr.c \in Int
    BY ProblemIs, IntegerNumber
  <2>2. Equals(Int2F(pr.c), pr.c * D, 1 * D)
    BY <2>1, Rescaled
  <2>3. pr.c * D = K /\ 1 * D = D
    BY <2>1
  <2> QED
    BY <2>1, <2>2, <2>3
<1>2. PICK l : l = Minus(c) /\ l \in Numbers /\ Equals(l, -K, D) /\ -K \in Int
  <2>1. Equals(Minus(c), -K, D) /\ -K \in Int
    BY <1>1, MinusEquals
  <2> QED
    BY <2>1, PlusNumber
<1>3. PICK w : w = v[i] /\ w \in Numbers /\ Equals(w, X, D)
  BY PointNumbers
<1>4. PICK g : g = Gradient(pr, v)[i] /\ g \in Numbers /\ Equals(g, G, D)
  BY GradientNumber, PointNumbers
<1>5. /\ (Less(w, Zero) <=> X < 0) /\ (Less(Zero, w) <=> X > 0) /\ (w = Zero <=> X = 0)
      /\ (Less(c, g) <=> K < G) /\ (Less(g, l) <=> G < -K)
  BY <1>1, <1>2, <1>3, <1>4, SignOfNumber, OrderOfParts
<1>6. Plus2(g, l) \in Numbers /\ Equals(Plus2(g, l), G - K, D) /\ Plus2(g, c) \in Numbers /\ Equals(Plus2(g, c), G + K, D)
  <2>1. Plus2(g, l) \in Numbers /\ Equals(Plus2(g, l), G + (-K), D) /\ Plus2(g, c) \in Numbers /\ Equals(Plus2(g, c), G + K, D)
    BY <1>1, <1>2, <1>4, SumParts
  <2>2. G + (-K) = G - K
    OBVIOUS
  <2> QED
    BY <2>1, <2>2
<1>7. PseudoGradient(pr, v)[i] =
        IF Less(w, Zero) \/ (w = Zero /\ Less(c, g)) THEN Plus2(g, l)
        ELSE IF Less(Zero, w) \/ (w = Zero /\ Less(g, l)) THEN Plus2(g, c) ELSE Zero
  <2>1. PseudoGradient(pr, v)[i] =
          CASE Less(w, Zero) \/ (w = Zero /\ Less(c, g)) -> Plus2(g, l)
            [] Less(Zero, w) \/ (w = Zero /\ Less(g, l)) -> Plus2(g, c)
            [] OTHER -> Zero
    BY <1>1, <1>2, <1>3, <1>4 DEF PseudoGradient
  <2>2. K \in Nat
    BY ProblemIs
  <2>3. ~((Less(w, Zero) \/ (w = Zero /\ Less(c, g))) /\ (Less(Zero, w) \/ (w = Zero /\ Less(g, l))))
    BY <1>5, <2>2
  <2> QED
    BY <2>1, <2>3
<1>8. Zero \in Numbers /\ Equals(Zero, 0, D)
  BY ZeroPart
<1>9. Kinked(X, G, K) \in Int
  BY DEF Kinked
<1> QED
  BY <1>5, <1>6, <1>7, <1>8, <1>9 DEF Kinked

(* A convex quadratic function is not negative.                            *)
LEMMA QuadraticNotNegative ==
  ASSUME NEW a \in Nat, NEW m \in Int, m * m < a * a, NEW H \in Int, NEW J \in Int
  PROVE  a * (H * H + J * J) + 2 * (m * (H * J)) >= 0
<1>1. m < a /\ -m < a
  <2>1. ASSUME NEW n \in Int, n >= a PROVE n * n >= a * a
    <3>1. n * n >= a * n /\ a * n >= a * a
      BY <2>1
    <3> QED
      BY <2>1, <3>1
  <2>2. -m \in Int /\ (-m) * (-m) = m * m
    OBVIOUS
  <2>3. m * m \in Int /\ a * a \in Int
    OBVIOUS
  <2> QED
    BY <2>1, <2>2, <2>3
<1>2. PICK p \in Nat, q \in Nat : p = a - m /\ q = a + m
  BY <1>1
<1>3. PICK S \in Nat, T \in Nat : S = (H - J) * (H - J) /\ T = (H + J) * (H + J)
  <2>1. ASSUME NEW n \in Int PROVE n * n \in Nat
    BY <2>1
  <2>2. H - J \in Int /\ H + J \in Int
    OBVIOUS
  <2> QED
    BY <2>1, <2>2
<1>4. p * S >= 0 /\ q * T >= 0 /\ p * S \in Int /\ q * T \in Int
  BY <1>2, <1>3
<1>5. 2 * (a * (H * H + J * J) + 2 * (m * (H * J))) = p * S + q * T
  BY <1>2, <1>3
<1>6. a * (H * H + J * J) + 2 * (m * (H * J)) \in Int
  <2>1. H * H + J * J \in Int /\ H * J \in Int
    OBVIOUS
  <2> QED
    BY <2>1
<1> QED
  BY <1>4, <1>5, <1>6

(* What one weight adds to the objective when it moves.                    *)
Move(X, G, K, H) == G * H + K * (Size(X + H) - Size(X))

LEMMA SizeIs == ASSUME NEW n \in Int PROVE Size(n) \in Nat
BY DEF Size

LEMMA ValueMoves ==
  ASSUME NEW pr \in Problems, NEW X \in Int, NEW Y \in Int, NEW H \in Int, NEW J \in Int, NEW D \in Nat \ {0}
  PROVE  LET G == Slope(pr, X, Y, pr.b[1], D)
             L == Slope(pr, Y, X, pr.b[2], D)
             K == D * pr.c
         IN  Value(pr, X + H, Y + J, D) - Value(pr, X, Y, D)
               = (pr.a * (H * H + J * J) + 2 * (pr.m * (H * J))) + 2 * Move(X, G, K, H) + 2 * Move(Y, L, K, J)
<1>1. PICK a \in Int, m \in Int, b \in Int, e \in Int, c \in Int :
        a = pr.a /\ m = pr.m /\ b = pr.b[1] /\ e = pr.b[2] /\ c = pr.c
  <2>1. pr.a \in Int /\ pr.m \in Int /\ pr.b[1] \in Int /\ pr.b[2] \in Int /\ pr.c \in Int
    BY ProblemIs
  <2> QED
    BY <2>1, Zenon
<1>2. PICK s \in Int, t \in Int, u \in Int, w \in Int :
        s = Size(X) /\ t = Size(Y) /\ u = Size(X + H) /\ w = Size(Y + J)
  <2>1. X + H \in Int /\ Y + J \in Int /\ \A n \in Nat : n \in Int
    OBVIOUS
  <2>2. Size(X) \in Int /\ Size(Y) \in Int /\ Size(X + H) \in Int /\ Size(Y + J) \in Int
    BY <2>1, SizeIs, Zenon
  <2> QED
    BY <2>2, Zenon
<1>3. Value(pr, X + H, Y + J, D) = a * ((X + H) * (X + H) + (Y + J) * (Y + J)) + 2 * (m * ((X + H) * (Y + J)))
        - 2 * (D * (b * (X + H) + e * (Y + J))) + 2 * (D * (c * (u + w)))
  BY <1>1, <1>2 DEF Value
<1>4. Value(pr, X, Y, D) = a * (X * X + Y * Y) + 2 * (m * (X * Y)) - 2 * (D * (b * X + e * Y)) + 2 * (D * (c * (s + t)))
  BY <1>1, <1>2 DEF Value
<1>5. /\ Move(X, Slope(pr, X, Y, pr.b[1], D), D * pr.c, H) = (a * X + m * Y - D * b) * H + (D * c) * (u - s)
      /\ Move(Y, Slope(pr, Y, X, pr.b[2], D), D * pr.c, J) = (a * Y + m * X - D * e) * J + (D * c) * (w - t)
  BY <1>1, <1>2 DEF Move, Slope
<1>6. a * ((X + H) * (X + H) + (Y + J) * (Y + J)) - a * (X * X + Y * Y)
        = a * (H * H + J * J) + 2 * ((a * X) * H) + 2 * ((a * Y) * J)
  BY <1>1
<1>7. 2 * (m * ((X + H) * (Y + J))) - 2 * (m * (X * Y)) = 2 * (m * (H * J)) + 2 * ((m * Y) * H) + 2 * ((m * X) * J)
  BY <1>1
<1>8. 2 * (D * (b * (X + H) + e * (Y + J))) - 2 * (D * (b * X + e * Y)) = 2 * ((D * b) * H) + 2 * ((D * e) * J)
  BY <1>1
<1>9. 2 * (D * (c * (u + w))) - 2 * (D * (c * (s + t))) = 2 * ((D * c) * (u - s)) + 2 * ((D * c) * (w - t))
  BY <1>1, <1>2
<1>10. (a * X + m * Y - D * b) * H = (a * X) * H + (m * Y) * H - (D * b) * H
  BY <1>1
<1>11. (a * Y + m * X - D * e) * J = (a * Y) * J + (m * X) * J - (D * e) * J
  BY <1>1
<1>12. PICK q \in Int, r \in Int, p1 \in Int, p2 \in Int, p3 \in Int, p4 \in Int, l1 \in Int, l2 \in Int, k1 \in Int, k2 \in Int :
         /\ q = a * (H * H + J * J) /\ r = m * (H * J) /\ p1 = (a * X) * H /\ p2 = (a * Y) * J
         /\ p3 = (m * Y) * H /\ p4 = (m * X) * J /\ l1 = (D * b) * H /\ l2 = (D * e) * J
         /\ k1 = (D * c) * (u - s) /\ k2 = (D * c) * (w - t)
  <2>1. a * (H * H + J * J) \in Int /\ m * (H * J) \in Int
    <3>1. H * H + J * J \in Int /\ H * J \in Int
      OBVIOUS
    <3> QED
      BY <1>1, <3>1
  <2>2. ASSUME NEW f \in Int, NEW g \in Int, NEW h \in Int PROVE (f * g) * h \in Int
    BY <2>2
  <2>3. PICK f \in Int, g \in Int : f = u - s /\ g = w - t
    BY <1>2
  <2>4. (D * c) * f \in Int /\ (D * c) * g \in Int
    BY <1>1, <2>2
  <2>5. (a * X) * H \in Int /\ (a * Y) * J \in Int /\ (m * Y) * H \in Int /\ (m * X) * J \in Int
    BY <1>1, <2>2
  <2>6. (D * b) * H \in Int /\ (D * e) * J \in Int
    BY <1>1, <2>2
  <2> QED
    BY <2>1, <2>3, <2>4, <2>5, <2>6
<1>13. PICK q1 \in Int, q2 \in Int, r1 \in Int, r2 \in Int, f1 \in Int, f2 \in Int, c1 \in Int, c2 \in Int :
         /\ q1 = a * ((X + H) * (X + H) + (Y + J) * (Y + J)) /\ q2 = a * (X * X + Y * Y)
         /\ r1 = 2 * (m * ((X + H) * (Y + J))) /\ r2 = 2 * (m * (X * Y))
         /\ f1 = 2 * (D * (b * (X + H) + e * (Y + J))) /\ f2 = 2 * (D * (b * X + e * Y))
         /\ c1 = 2 * (D * (c * (u + w))) /\ c2 = 2 * (D * (c * (s + t)))
  <2>1. ASSUME NEW f \in Int, NEW g \in Int
        PROVE a * (f * f + g * g) \in Int /\ 2 * (m * (f * g)) \in Int /\ 2 * (D * (b * f + e * g)) \in Int
    <3>1. f * f + g * g \in Int /\ f * g \in Int /\ b * f + e * g \in Int
      BY <1>1, <2>1
    <3> QED
      BY <1>1, <3>1
  <2>2. ASSUME NEW f \in Int, NEW g \in Int PROVE 2 * (D * (c * (f + g))) \in Int
    <3>1. c * (f + g) \in Int
      BY <1>1, <2>2
    <3> QED
      BY <3>1
  <2>3. X + H \in Int /\ Y + J \in Int
    OBVIOUS
  <2> QED
    BY <1>2, <2>1, <2>2, <2>3
<1>14. q1 - q2 = q + 2 * p1 + 2 * p2 /\ r1 - r2 = 2 * r + 2 * p3 + 2 * p4 /\ f1 - f2 = 2 * l1 + 2 * l2 /\ c1 - c2 = 2 * k1 + 2 * k2
  BY <1>6, <1>7, <1>8, <1>9, <1>12, <1>13
<1>15. Value(pr, X + H, Y + J, D) = q1 + r1 - f1 + c1 /\ Value(pr, X, Y, D) = q2 + r2 - f2 + c2
  BY <1>3, <1>4, <1>13
<1>16. /\ Move(X, Slope(pr, X, Y, pr.b[1], D), D * pr.c, H) = p1 + p3 - l1 + k1
       /\ Move(Y, Slope(pr, Y, X, pr.b[2], D), D * pr.c, J) = p2 + p4 - l2 + k2
  BY <1>5, <1>10, <1>11, <1>12
<1>17. pr.a * (H * H + J * J) = q /\ pr.m * (H * J) = r
  BY <1>1, <1>12
<1>18. (q1 + r1 - f1 + c1) - (q2 + r2 - f2 + c2) = (q + 2 * r) + 2 * (p1 + p3 - l1 + k1) + 2 * (p2 + p4 - l2 + k2)
  BY <1>14
<1> QED
  BY <1>15, <1>16, <1>17, <1>18

(* Where there is no pseudo-gradient it adds nothing less than zero.       *)
LEMMA NoMoveFalls ==
  ASSUME NEW X \in Int, NEW G \in Int, NEW K \in Nat, NEW H \in Int, Kinked(X, G, K) = 0
  PROVE  Move(X, G, K, H) \in Int /\ Move(X, G, K, H) >= 0
<1>1. PICK s \in Nat, u \in Nat : s = Size(X) /\ u = Size(X + H)
  BY SizeIs
<1>2. G * H + K * (u - s) \in Int
  BY <1>1
<1>3. CASE X < 0
  <2>1. G = K /\ s = -X /\ u >= -(X + H)
    BY <1>1, <1>3 DEF Kinked, Size
  <2>2. PICK r \in Nat : r = H + (u - s)
    BY <1>1, <2>1
  <2>3. G * H + K * (u - s) = K * r /\ K * r >= 0
    BY <1>1, <2>1, <2>2
  <2> QED
    BY <1>1, <1>2, <2>3 DEF Move
<1>4. CASE X > 0
  <2>1. G = -K /\ s = X /\ u >= X + H
    BY <1>1, <1>4 DEF Kinked, Size
  <2>2. PICK r \in Nat : r = (u - s) - H
    BY <1>1, <2>1
  <2>3. G * H + K * (u - s) = K * r /\ K * r >= 0
    BY <1>1, <2>1, <2>2
  <2> QED
    BY <1>1, <1>2, <2>3 DEF Move
<1>5. CASE X = 0
  <2>1. G <= K /\ -K <= G /\ s = 0
    BY <1>1, <1>5 DEF Kinked, Size
  <2>2. CASE H < 0
    <3>1. u = -H
      BY <1>1, <1>5, <2>2 DEF Size
    <3>3. PICK r \in Nat, h \in Nat : r = K - G /\ h = -H
      BY <2>1, <2>2
    <3>4. r * h >= 0 /\ r * h = (K - G) * (-H)
      BY <3>3
    <3>5. G * H + K * (-H) = (K - G) * (-H)
      OBVIOUS
    <3>2. G * H + K * (u - s) = (K - G) * (-H) /\ (K - G) * (-H) >= 0
      BY <2>1, <3>1, <3>4, <3>5
    <3> QED
      BY <1>1, <1>2, <3>2 DEF Move
  <2>3. CASE H >= 0
    <3>1. u = H
      BY <1>1, <1>5, <2>3 DEF Size
    <3>2. G * H + K * (u - s) = (K + G) * H /\ (K + G) * H >= 0
      BY <1>1, <2>1, <2>3, <3>1
    <3> QED
      BY <1>1, <1>2, <3>2 DEF Move
  <2> QED
    BY <2>2, <2>3
<1> QED
  BY <1>3, <1>4, <1>5

(* Where there is one, a step of one against it makes the objective less,  *)
(* when that is small enough for the curvature: it does not cross 0.       *)
LEMMA OneMoveFalls ==
  ASSUME NEW X \in Int, NEW G \in Int, NEW K \in Nat, NEW a \in Nat, NEW P \in Int, P = Kinked(X, G, K),
         a < 2 * Size(P), NEW H \in Int, H = IF P > 0 THEN -1 ELSE 1
  PROVE  Move(X, G, K, H) \in Int /\ a * (H * H) + 2 * Move(X, G, K, H) < 0
<1>1. P # 0 /\ (P > 0 => H = -1) /\ (P < 0 => H = 1) /\ H * H = 1
  BY DEF Size
<1>2. Move(X, G, K, H) = P * H
  <2>1. CASE X < 0 \/ (X = 0 /\ P > 0)
    <3>1. P = G - K
      BY <2>1 DEF Kinked
    <3>2. Size(X + H) - Size(X) = -H
      BY <1>1, <2>1 DEF Size
    <3>3. H \in Int /\ G * H + K * (-H) = (G - K) * H
      BY <1>1
    <3> QED
      BY <3>1, <3>2, <3>3 DEF Move
  <2>2. CASE X > 0 \/ (X = 0 /\ P < 0)
    <3>1. P = G + K
      BY <2>2 DEF Kinked
    <3>2. Size(X + H) - Size(X) = H
      BY <1>1, <2>2 DEF Size
    <3>3. H \in Int /\ G * H + K * H = (G + K) * H
      BY <1>1
    <3> QED
      BY <3>1, <3>2, <3>3 DEF Move
  <2> QED
    BY <1>1, <2>1, <2>2
<1>3. P * H = -Size(P)
  BY <1>1 DEF Size
<1> QED
  BY <1>1, <1>2, <1>3, SizeIs

LEMMA OtherWeights == Other(1) = 2 /\ Other(2) = 1
BY DEF Other

(* A point, its slopes and its pseudo-gradient over a denominator.         *)
Over2(pr, v, X, Y, D, G, L, K) ==
  /\ X \in Int /\ Y \in Int /\ G \in Int /\ L \in Int /\ K \in Nat /\ K = D * pr.c
  /\ Equals(v[1], X, D) /\ Equals(v[2], Y, D)
  /\ G = Slope(pr, X, Y, pr.b[1], D) /\ L = Slope(pr, Y, X, pr.b[2], D)
  /\ Equals(PseudoGradient(pr, v)[1], Kinked(X, G, K), D) /\ Equals(PseudoGradient(pr, v)[2], Kinked(Y, L, K), D)

LEMMA OverDenominator ==
  ASSUME NEW pr \in Problems, NEW v \in Points, NEW X \in Int, NEW Y \in Int, NEW D \in Nat \ {0},
         Equals(v[1], X, D), Equals(v[2], Y, D)
  PROVE  \E G, L, K : Over2(pr, v, X, Y, D, G, L, K)
<1>1. PICK G \in Int : G = Slope(pr, X, Y, pr.b[1], D) /\ Equals(Gradient(pr, v)[1], G, D)
  BY TwoWeights, OtherWeights, SlopeParts
<1>2. PICK L \in Int : L = Slope(pr, Y, X, pr.b[2], D) /\ Equals(Gradient(pr, v)[2], L, D)
  BY TwoWeights, OtherWeights, SlopeParts
<1>3. PICK K \in Nat : K = D * pr.c
  BY ProblemIs
<1>4. Equals(PseudoGradient(pr, v)[1], Kinked(X, G, K), D) /\ Equals(PseudoGradient(pr, v)[2], Kinked(Y, L, K), D)
  BY <1>1, <1>2, <1>3, TwoWeights, PseudoParts
<1> QED
  BY <1>1, <1>2, <1>3, <1>4 DEF Over2

(* No point at all is lower than one without a pseudo-gradient.            *)
LEMMA NowhereLower ==
  ASSUME NEW pr \in Problems, NEW v \in Points, PseudoGradient(pr, v) = Origin, NEW w \in Points
  PROVE  ~Less(Objective(pr, w), Objective(pr, v))
<1>1. v[1] \in Numbers /\ v[2] \in Numbers /\ w[1] \in Numbers /\ w[2] \in Numbers
  BY PointNumbers
<1>2. PICK D \in Nat \ {0}, X \in Int, Y \in Int, n \in Int, l \in Int :
        Equals(v[1], X, D) /\ Equals(v[2], Y, D) /\ Equals(w[1], n, D) /\ Equals(w[2], l, D)
  BY <1>1, OverFour
<1>3. PICK H \in Int, J \in Int : n = X + H /\ l = Y + J
  <2>1. n - X \in Int /\ l - Y \in Int /\ n = X + (n - X) /\ l = Y + (l - Y)
    OBVIOUS
  <2> QED
    BY <2>1
<1>4. PICK G, L, K : Over2(pr, v, X, Y, D, G, L, K)
  BY <1>2, OverDenominator
<1>5. Kinked(X, G, K) = 0 /\ Kinked(Y, L, K) = 0
  <2>1. Equals(Zero, Kinked(X, G, K), D) /\ Equals(Zero, Kinked(Y, L, K), D)
    BY <1>4, OriginIsPoint, TwoWeights DEF Over2
  <2> QED
    BY <2>1, ZeroNumber, SignOfNumber, LessIsStrict DEF Numbers
<1>6. G \in Int /\ L \in Int /\ K \in Nat
  BY <1>4 DEF Over2
<1>7. PICK p \in Nat, q \in Nat : p = Move(X, G, K, H) /\ q = Move(Y, L, K, J)
  <2>1. Move(X, G, K, H) \in Int /\ Move(X, G, K, H) >= 0
    BY <1>5, <1>6, NoMoveFalls
  <2>2. Move(Y, L, K, J) \in Int /\ Move(Y, L, K, J) >= 0
    BY <1>5, <1>6, NoMoveFalls
  <2> QED
    BY <2>1, <2>2
<1>8. PICK r \in Nat : r = pr.a * (H * H + J * J) + 2 * (pr.m * (H * J))
  <2>1. PICK a \in Nat, m \in Int : a = pr.a /\ m = pr.m /\ m * m < a * a
    BY ProblemIs
  <2>2. H * H + J * J \in Int /\ H * J \in Int
    OBVIOUS
  <2>3. a * (H * H + J * J) + 2 * (m * (H * J)) \in Int
    BY <2>1, <2>2
  <2>4. a * (H * H + J * J) + 2 * (m * (H * J)) >= 0
    BY <2>1, QuadraticNotNegative
  <2> QED
    BY <2>1, <2>3, <2>4
<1>9. Value(pr, X + H, Y + J, D) - Value(pr, X, Y, D) = r + 2 * p + 2 * q
  BY <1>4, <1>7, <1>8, ValueMoves DEF Over2
<1>10. /\ Objective(pr, v) \in Numbers /\ Value(pr, X, Y, D) \in Int /\ 2 * (D * D) \in Nat \ {0}
       /\ Equals(Objective(pr, v), Value(pr, X, Y, D), 2 * (D * D))
  BY <1>2, ObjectiveParts
<1>11. /\ Objective(pr, w) \in Numbers /\ Value(pr, X + H, Y + J, D) \in Int
       /\ Equals(Objective(pr, w), Value(pr, X + H, Y + J, D), 2 * (D * D))
  BY <1>2, <1>3, ObjectiveParts
<1>12. Less(Objective(pr, w), Objective(pr, v)) <=> Value(pr, X + H, Y + J, D) < Value(pr, X, Y, D)
  BY <1>10, <1>11, OrderOfParts
<1> QED
  BY <1>7, <1>8, <1>9, <1>10, <1>11, <1>12

Displaced(v, i, j) == [v EXCEPT ![1] = Plus2(@, i), ![2] = Plus2(@, j)]

LEMMA DisplacedIs ==
  ASSUME NEW v \in Points, NEW X \in Int, NEW Y \in Int, NEW D \in Nat \ {0}, Equals(v[1], X, D), Equals(v[2], Y, D),
         NEW i, NEW j, NEW H \in Int, NEW J \in Int, Equals(i, H, D), Equals(j, J, D)
  PROVE  /\ Displaced(v, i, j) \in Points
         /\ Equals(Displaced(v, i, j)[1], X + H, D) /\ Equals(Displaced(v, i, j)[2], Y + J, D)
<1>1. /\ Plus2(v[1], i) \in Numbers /\ Equals(Plus2(v[1], i), X + H, D)
      /\ Plus2(v[2], j) \in Numbers /\ Equals(Plus2(v[2], j), Y + J, D)
  BY SumParts
<1>2. Displaced(v, i, j) = [e \in Weights |-> IF e = 1 THEN Plus2(v[1], i) ELSE Plus2(v[2], j)]
  <2>1. v = [e \in Weights |-> v[e]] /\ Weights = {1, 2}
    BY DEF Points, Weights
  <2> QED
    BY <2>1 DEF Displaced
<1> QED
  BY <1>1, <1>2, TwoWeights DEF Points

(* Where there is a pseudo-gradient, a point right beside is lower.        *)
LEMMA DisplacedIsLower ==
  ASSUME NEW pr \in Problems, NEW v \in Points, NEW X \in Int, NEW Y \in Int, NEW D \in Nat \ {0},
         NEW G, NEW L, NEW K, Over2(pr, v, X, Y, D, G, L, K),
         NEW i, NEW j, NEW H \in Int, NEW J \in Int, Equals(i, H, D), Equals(j, J, D),
         (pr.a * (H * H + J * J) + 2 * (pr.m * (H * J))) + 2 * Move(X, G, K, H) + 2 * Move(Y, L, K, J) < 0
  PROVE  Less(Objective(pr, Displaced(v, i, j)), Objective(pr, v))
<1>1. PICK w \in Points : w = Displaced(v, i, j) /\ Equals(w[1], X + H, D) /\ Equals(w[2], Y + J, D)
  BY DisplacedIs DEF Over2
<1>2. Value(pr, X + H, Y + J, D) - Value(pr, X, Y, D)
        = (pr.a * (H * H + J * J) + 2 * (pr.m * (H * J))) + 2 * Move(X, G, K, H) + 2 * Move(Y, L, K, J)
  BY ValueMoves DEF Over2
<1>3. /\ Objective(pr, v) \in Numbers /\ Value(pr, X, Y, D) \in Int /\ 2 * (D * D) \in Nat \ {0}
      /\ Equals(Objective(pr, v), Value(pr, X, Y, D), 2 * (D * D))
  BY ObjectiveParts DEF Over2
<1>4. /\ Objective(pr, w) \in Numbers /\ Value(pr, X + H, Y + J, D) \in Int
      /\ Equals(Objective(pr, w), Value(pr, X + H, Y + J, D), 2 * (D * D))
  <2>1. X + H \in Int /\ Y + J \in Int
    OBVIOUS
  <2> QED
    BY <1>1, <2>1, ObjectiveParts
<1>5. Less(Objective(pr, w), Objective(pr, v)) <=> Value(pr, X + H, Y + J, D) < Value(pr, X, Y, D)
  BY <1>3, <1>4, OrderOfParts
<1> QED
  BY <1>1, <1>2, <1>3, <1>4, <1>5

(* Over a denominator with a factor a the pseudo-gradient is a multiple.   *)
LEMMA LargeEnough ==
  ASSUME NEW p \in Numbers, NEW n \in Int, NEW E \in Nat \ {0}, Equals(p, n, E), p # Zero,
         NEW a \in Nat \ {0}, NEW P \in Int, Equals(p, P, a * E)
  PROVE  a < 2 * Size(P)
<1>1. Equals(p, n * a, E * a) /\ E * a = a * E /\ n * a \in Int /\ a * E \in Nat \ {0}
  <2>1. Equals(p, n * a, E * a)
    BY Rescaled
  <2>2. E * a = a * E /\ n * a \in Int /\ a * E \in Nat \ {0}
    OBVIOUS
  <2> QED
    BY <2>1, <2>2
<1>2. P = n * a
  BY <1>1, OrderOfParts
<1>3. n # 0
  BY SignOfNumber
<1>4. n >= 1 => n * a >= a
  OBVIOUS
<1>5. n <= -1 => n * a <= -a
  OBVIOUS
<1>6. n >= 1 \/ n <= -1
  BY <1>3
<1> QED
  BY <1>1, <1>2, <1>4, <1>5, <1>6 DEF Size

Around(pr, v) == { << 0, 4 >>, << -1, pr.a * v[1][2] * v[2][2] >>, << 1, pr.a * v[1][2] * v[2][2] >> }

LEMMA NothingMoves ==
  ASSUME NEW X \in Int, NEW G \in Int, NEW K \in Int
  PROVE  Move(X, G, K, 0) = 0
<1>1. X + 0 = X /\ G * 0 = 0 /\ Size(X) - Size(X) = 0 /\ K * 0 = 0
  BY SizeIs
<1> QED
  BY <1>1 DEF Move

LEMMA LowerBeside ==
  ASSUME NEW pr \in Problems, NEW v \in Points, PseudoGradient(pr, v) # Origin
  PROVE  \E i, j \in Around(pr, v) : Less(Objective(pr, Displaced(v, i, j)), Objective(pr, v))
<1>1. PICK s \in Int, t \in Nat \ {0}, y \in Int, z \in Nat \ {0} :
        s = v[1][1] /\ t = v[1][2] /\ y = v[2][1] /\ z = v[2][2] /\ Equals(v[1], s, t) /\ Equals(v[2], y, z)
  BY PointNumbers, FractionEquals DEF Numbers
<1>2. PICK a \in Nat \ {0} : a = pr.a
  BY ProblemIs
<1>3. PICK E \in Nat \ {0}, V \in Int, W \in Int : E = t * z /\ Equals(v[1], V, E) /\ Equals(v[2], W, E)
  <2>1. Equals(v[1], s * z, t * z) /\ Equals(v[2], y * t, z * t) /\ z * t = t * z
    <3>1. PICK f, g : f = v[1] /\ g = v[2] /\ Equals(f, s, t) /\ Equals(g, y, z)
      BY <1>1
    <3>2. Equals(f, s * z, t * z)
      BY <1>1, <3>1, Rescaled
    <3>3. Equals(g, y * t, z * t)
      BY <1>1, <3>1, Rescaled
    <3>4. z * t = t * z
      BY <1>1
    <3> QED
      BY <3>1, <3>2, <3>3, <3>4
  <2>2. t * z \in Nat \ {0} /\ s * z \in Int /\ y * t \in Int
    BY <1>1
  <2> QED
    BY <2>1, <2>2
<1>4. PICK D \in Nat \ {0}, X \in Int, Y \in Int : D = a * E /\ Equals(v[1], X, D) /\ Equals(v[2], Y, D)
  <2>1. Equals(v[1], V * a, E * a) /\ Equals(v[2], W * a, E * a) /\ E * a = a * E
    BY <1>2, <1>3, Rescaled, SMTT(30)
  <2>2. a * E \in Nat \ {0} /\ V * a \in Int /\ W * a \in Int
    BY <1>2, <1>3
  <2> QED
    BY <2>1, <2>2
<1>5. PICK G, L, K : Over2(pr, v, X, Y, D, G, L, K)
  BY <1>4, OverDenominator
<1>6. PICK A, B, C : Over2(pr, v, V, W, E, A, B, C)
  BY <1>3, OverDenominator
<1>7. pr.a * v[1][2] * v[2][2] = D
  BY <1>1, <1>2, <1>3, <1>4
<1>8. Equals(<< 0, 4 >>, 0, D) /\ Equals(<< -1, D >>, -1, D) /\ Equals(<< 1, D >>, 1, D)
  <2>1. ASSUME NEW n \in Int PROVE Equals(<< n, D >>, n, D)
    BY <2>1 DEF Equals, Fraction
  <2>2. << 0, 4 >> \in Fraction /\ << 0, 4 >>[1] * D = 0 * << 0, 4 >>[2]
    BY DEF Fraction
  <2> QED
    BY <2>1, <2>2 DEF Equals
<1>9. G \in Int /\ L \in Int /\ K \in Nat /\ A \in Int /\ B \in Int /\ C \in Nat
  BY <1>5, <1>6 DEF Over2
<1>10. Kinked(X, G, K) \in Int /\ Kinked(Y, L, K) \in Int /\ Kinked(V, A, C) \in Int /\ Kinked(W, B, C) \in Int
  BY <1>3, <1>4, <1>9 DEF Kinked
<1>11. PICK p \in Numbers, q \in Numbers : p = PseudoGradient(pr, v)[1] /\ q = PseudoGradient(pr, v)[2]
  BY PseudoGradientNumber, PointNumbers
<1>12. p # Zero \/ q # Zero
  BY <1>11, PseudoGradientNumber, TwoWeights DEF Points, Origin
<1>13. ASSUME p # Zero
       PROVE  \E i, j \in Around(pr, v) : Less(Objective(pr, Displaced(v, i, j)), Objective(pr, v))
  <2>1. PICK P \in Int : P = Kinked(X, G, K)
    BY <1>10
  <2>2. a < 2 * Size(P)
    <3>1. Equals(p, Kinked(V, A, C), E) /\ Equals(p, P, a * E)
      BY <1>4, <1>5, <1>6, <1>11, <2>1 DEF Over2
    <3> QED
      BY <1>3, <1>10, <1>13, <2>1, <3>1, LargeEnough
  <2>3. PICK H \in {-1, 1} : H = IF P > 0 THEN -1 ELSE 1
    BY <2>1
  <2>4. PICK e \in Int : e = Move(X, G, K, H) /\ a * (H * H) + 2 * e < 0
    <3>1. H \in Int /\ a \in Nat
      BY <2>3
    <3>2. Move(X, G, K, H) \in Int /\ a * (H * H) + 2 * Move(X, G, K, H) < 0
      BY <1>9, <2>1, <2>2, <2>3, <3>1, OneMoveFalls
    <3> QED
      BY <3>2
  <2>5. Move(Y, L, K, 0) = 0
    BY <1>9, NothingMoves
  <2>6. (pr.a * (H * H + 0 * 0) + 2 * (pr.m * (H * 0))) + 2 * Move(X, G, K, H) + 2 * Move(Y, L, K, 0) < 0
    <3>1. H * H = 1 /\ H * 0 = 0 /\ pr.m * 0 = 0
      BY <2>3, ProblemIs
    <3> QED
      BY <1>2, <2>4, <2>5, <3>1
  <2>7. PICK i \in Around(pr, v) : Equals(i, H, D)
    BY <1>7, <1>8, <2>3 DEF Around
  <2>8. PICK j \in Around(pr, v) : Equals(j, 0, D)
    BY <1>8 DEF Around
  <2>9. Less(Objective(pr, Displaced(v, i, j)), Objective(pr, v))
    BY <1>4, <1>5, <2>3, <2>6, <2>7, <2>8, DisplacedIsLower
  <2> QED
    BY <2>9
<1>14. ASSUME q # Zero
       PROVE  \E i, j \in Around(pr, v) : Less(Objective(pr, Displaced(v, i, j)), Objective(pr, v))
  <2>1. PICK P \in Int : P = Kinked(Y, L, K)
    BY <1>10
  <2>2. a < 2 * Size(P)
    <3>1. Equals(q, Kinked(W, B, C), E) /\ Equals(q, P, a * E)
      BY <1>4, <1>5, <1>6, <1>11, <2>1 DEF Over2
    <3> QED
      BY <1>3, <1>10, <1>14, <2>1, <3>1, LargeEnough
  <2>3. PICK H \in {-1, 1} : H = IF P > 0 THEN -1 ELSE 1
    BY <2>1
  <2>4. PICK e \in Int : e = Move(Y, L, K, H) /\ a * (H * H) + 2 * e < 0
    <3>1. H \in Int /\ a \in Nat
      BY <2>3
    <3>2. Move(Y, L, K, H) \in Int /\ a * (H * H) + 2 * Move(Y, L, K, H) < 0
      BY <1>9, <2>1, <2>2, <2>3, <3>1, OneMoveFalls
    <3> QED
      BY <3>2
  <2>5. Move(X, G, K, 0) = 0
    BY <1>9, NothingMoves
  <2>6. (pr.a * (0 * 0 + H * H) + 2 * (pr.m * (0 * H))) + 2 * Move(X, G, K, 0) + 2 * Move(Y, L, K, H) < 0
    <3>1. H * H = 1 /\ 0 * H = 0 /\ pr.m * 0 = 0
      BY <2>3, ProblemIs
    <3> QED
      BY <1>2, <2>4, <2>5, <3>1
  <2>7. PICK j \in Around(pr, v) : Equals(j, H, D)
    BY <1>7, <1>8, <2>3 DEF Around
  <2>8. PICK i \in Around(pr, v) : Equals(i, 0, D)
    BY <1>8 DEF Around
  <2>9. Less(Objective(pr, Displaced(v, i, j)), Objective(pr, v))
    BY <1>4, <1>5, <2>3, <2>6, <2>7, <2>8, DisplacedIsLower
  <2> QED
    BY <2>9
<1> QED
  BY <1>12, <1>13, <1>14

(* One weight of a trial: where it ends, it has not crossed 0, it went     *)
(* against the pseudo-gradient from 0, and not along it from anywhere.     *)
Landed(from, dir, s, o) ==
  IF Less(Zero, Times(Plus2(from, Times(s, dir)), o)) THEN Plus2(from, Times(s, dir)) ELSE Zero

LandedWell(to, from, g) ==
  /\ to \in Numbers
  /\ ~Less(Times(to, from), Zero)
  /\ from = Zero /\ to # Zero => Less(Times(to, g), Zero)
  /\ Times(Plus2(to, Minus(from)), g) \in Numbers /\ ~Less(Zero, Times(Plus2(to, Minus(from)), g))

LEMMA LandsWell ==
  ASSUME NEW from \in Numbers, NEW dir \in Numbers, NEW g \in Numbers, NEW s \in Numbers, Less(Zero, s),
         ~Less(Zero, Times(dir, g)), NEW o, o = IF from = Zero THEN Minus(g) ELSE from,
         NEW to, to = Landed(from, dir, s, o)
  PROVE  LandedWell(to, from, g)
<1>1. PICK r \in Numbers : r = Times(s, dir)
  BY PlusNumber
<1>2. PICK D \in Nat \ {0}, A \in Int, B \in Int : Equals(from, A, D) /\ Equals(r, B, D)
  BY OverTwo
<1>3. PICK t \in Numbers : t = Plus2(from, r) /\ Equals(t, A + B, D)
  BY <1>2, SumParts
<1>4. PICK l \in Numbers : l = Minus(from) /\ Equals(l, -A, D)
  BY <1>2, MinusEquals, PlusNumber DEF Numbers
<1>5. /\ (Less(from, Zero) <=> A < 0) /\ (Less(Zero, from) <=> A > 0) /\ (from = Zero <=> A = 0)
      /\ (Less(t, Zero) <=> A + B < 0) /\ (Less(Zero, t) <=> A + B > 0) /\ (t = Zero <=> A + B = 0)
      /\ (Less(l, Zero) <=> -A < 0) /\ (Less(Zero, l) <=> -A > 0)
  BY <1>2, <1>3, <1>4, SignOfNumber
<1>6. (Less(r, Zero) <=> B < 0) /\ (Less(Zero, r) <=> B > 0)
  BY <1>2, SignOfNumber
<1>7. ~Less(s, Zero)
  BY OrderOf, ZeroNumber
<1>8. (Less(dir, Zero) <=> B < 0) /\ (Less(Zero, dir) <=> B > 0)
  BY <1>1, <1>6, <1>7, SignOfProduct
<1>9. ~(B < 0 /\ Less(g, Zero)) /\ ~(B > 0 /\ Less(Zero, g))
  BY <1>8, SignOfProduct
<1>10. o \in Numbers
  BY PlusNumber
<1>11. Less(Zero, Times(t, o)) <=> (A + B < 0 /\ Less(o, Zero)) \/ (A + B > 0 /\ Less(Zero, o))
  BY <1>5, <1>10, SignOfProduct
<1>12. Zero \in Numbers /\ ~Less(Zero, Zero)
  BY ZeroNumber, OrderOf
<1>13. ~(Less(g, Zero) /\ Less(Zero, g))
  BY <1>12, OrderOf
<1>14. CASE Less(Zero, Times(t, o))
  <2>1. to = t
    BY <1>1, <1>3, <1>14 DEF Landed
  <2>2. ~Less(Times(to, from), Zero)
    <3>1. from # Zero => o = from
      OBVIOUS
    <3>2. Less(Times(to, from), Zero) <=> (A + B < 0 /\ A > 0) \/ (A + B > 0 /\ A < 0)
      BY <1>5, <2>1, SignOfProduct
    <3> QED
      BY <1>5, <1>11, <1>14, <3>1, <3>2
  <2>3. ASSUME from = Zero PROVE Less(Times(to, g), Zero)
    <3>1. o = Minus(g)
      BY <2>3
    <3>2. PICK n \in Int, q \in Nat \ {0} : Equals(g, n, q)
      BY FractionEquals DEF Numbers
    <3>3. Equals(o, -n, q)
      BY <3>1, <3>2, MinusEquals
    <3>4. (Less(o, Zero) <=> -n < 0) /\ (Less(Zero, o) <=> -n > 0) /\ (Less(g, Zero) <=> n < 0) /\ (Less(Zero, g) <=> n > 0)
      BY <1>10, <3>2, <3>3, SignOfNumber
    <3>5. Less(Times(to, g), Zero) <=> (A + B < 0 /\ Less(Zero, g)) \/ (A + B > 0 /\ Less(g, Zero))
      BY <1>5, <2>1, SignOfProduct
    <3> QED
      BY <1>11, <1>14, <3>2, <3>4, <3>5
  <2>4. PICK e \in Numbers : e = Plus2(to, l) /\ Equals(e, B, D)
    <3>1. Plus2(t, l) \in Numbers /\ Equals(Plus2(t, l), (A + B) + (-A), D)
      <4>1. A + B \in Int /\ -A \in Int
        OBVIOUS
      <4> QED
        BY <1>3, <1>4, <4>1, SumParts
    <3>2. (A + B) + (-A) = B
      OBVIOUS
    <3> QED
      BY <2>1, <3>1, <3>2
  <2>5. (Less(e, Zero) <=> B < 0) /\ (Less(Zero, e) <=> B > 0)
    BY <2>4, SignOfNumber
  <2>6. Times(e, g) \in Numbers /\ ~Less(Zero, Times(e, g))
    BY <1>9, <2>5, SignOfProduct
  <2> QED
    BY <1>4, <2>1, <2>2, <2>3, <2>4, <2>6 DEF LandedWell
<1>15. CASE ~Less(Zero, Times(t, o))
  <2>1. to = Zero
    BY <1>1, <1>3, <1>15 DEF Landed
  <2>2. ~Less(Times(to, from), Zero)
    BY <1>12, <2>1, SignOfProduct
  <2>3. Plus2(to, l) = l
    BY <1>4, <2>1, Neutral DEF Plus2, Add
  <2>4. Times(l, g) \in Numbers /\ (Less(Zero, Times(l, g)) <=> (-A < 0 /\ Less(g, Zero)) \/ (-A > 0 /\ Less(Zero, g)))
    BY <1>4, <1>5, SignOfProduct
  <2>5. ~Less(Zero, Times(l, g))
    <3>1. CASE from = Zero
      BY <1>5, <2>4, <3>1
    <3>2. CASE from # Zero
      <4>1. (A + B < 0 => ~(A < 0)) /\ (A + B > 0 => ~(A > 0)) /\ A # 0
        BY <1>5, <1>11, <1>15, <3>2
      <4>2. (A > 0 => B < 0) /\ (A < 0 => B > 0)
        BY <4>1
      <4> QED
        BY <1>9, <2>4, <4>2
    <3> QED
      BY <3>1, <3>2
  <2> QED
    BY <1>4, <1>12, <2>1, <2>2, <2>3, <2>4, <2>5 DEF LandedWell
<1> QED
  BY <1>14, <1>15

LEMMA NotAboveSum ==
  ASSUME NEW u \in Numbers, NEW v \in Numbers, ~Less(Zero, v)
  PROVE  Plus2(u, v) \in Numbers /\ ~Less(u, Plus2(u, v)) /\ (~Less(Zero, u) => ~Less(Zero, Plus2(u, v)))
<1>1. PICK D \in Nat \ {0}, n \in Int, m \in Int : Equals(u, n, D) /\ Equals(v, m, D)
  BY OverTwo
<1>2. Plus2(u, v) \in Numbers /\ Equals(Plus2(u, v), n + m, D) /\ n + m \in Int
  BY <1>1, SumParts
<1>3. (Less(Zero, v) <=> m > 0) /\ (Less(Zero, u) <=> n > 0) /\ (Less(Zero, Plus2(u, v)) <=> n + m > 0)
  BY <1>1, <1>2, SignOfNumber
<1>4. Less(u, Plus2(u, v)) <=> n < n + m
  BY <1>1, <1>2, OrderOfParts
<1> QED
  BY <1>1, <1>2, <1>3, <1>4

LEMMA ObjectiveNumber ==
  ASSUME NEW pr \in Problems, NEW v \in Points
  PROVE  Objective(pr, v) \in Numbers
<1>1. v[1] \in Numbers /\ v[2] \in Numbers
  BY PointNumbers
<1>2. PICK D \in Nat \ {0}, X \in Int, Y \in Int : Equals(v[1], X, D) /\ Equals(v[2], Y, D)
  BY <1>1, OverTwo
<1> QED
  BY <1>2, ObjectiveParts

LEMMA HalfNumber == << 1, 2 >> \in Numbers /\ Less(Zero, << 1, 2 >>)
<1>1. 1 * 1 + 0 * 2 = 1 /\ 0 \in Int /\ 1 \in Int
  OBVIOUS
<1>2. Bezout(1, 2)
  BY <1>1 DEF Bezout
<1>3. << 1, 2 >> \in Fraction /\ << 1, 2 >>[1] = 1 /\ << 1, 2 >>[2] = 2
  BY DEF Fraction
<1>4. << 1, 2 >> \in Numbers
  BY <1>2, <1>3, LowestMeans DEF Numbers
<1>5. Equals(<< 1, 2 >>, 1, 2)
  BY <1>3 DEF Equals
<1> QED
  BY <1>4, <1>5, SignOfNumber

LEMMA OptionsAre ==
  /\ FTol \in Numbers /\ ~Less(FTol, Zero)
  /\ Steps \subseteq Numbers /\ \A s \in Steps : Less(Zero, s)
  /\ RawDirections \subseteq Points
BY OrthantwiseAssumption DEF Lowest, Numbers, Points

LEMMA SquareNotNegative ==
  ASSUME NEW u \in Numbers
  PROVE  ~Less(Times(u, u), Zero) /\ Minus(u) \in Numbers /\ ~Less(Zero, Times(Minus(u), u))
<1>1. ~(Less(u, Zero) /\ Less(Zero, u))
  BY OrderOf, ZeroNumber
<1>2. PICK n \in Int, D \in Nat \ {0} : Equals(u, n, D)
  BY FractionEquals DEF Numbers
<1>3. Minus(u) \in Numbers /\ Equals(Minus(u), -n, D)
  BY <1>2, MinusEquals, PlusNumber DEF Numbers
<1>4. /\ (Less(u, Zero) <=> n < 0) /\ (Less(Zero, u) <=> n > 0)
      /\ (Less(Minus(u), Zero) <=> -n < 0) /\ (Less(Zero, Minus(u)) <=> -n > 0)
  BY <1>2, <1>3, SignOfNumber
<1>5. PICK w \in Numbers : w = Minus(u)
  BY <1>3
<1>6. Less(Zero, Times(w, u)) <=> (Less(w, Zero) /\ Less(u, Zero)) \/ (Less(Zero, w) /\ Less(Zero, u))
  BY SignOfProduct
<1> QED
  BY <1>1, <1>2, <1>3, <1>4, <1>5, <1>6, SignOfProduct

LEMMA OwlBegins == OwlInit => OwlInv
<1> SUFFICES ASSUME OwlInit PROVE OwlInv
  OBVIOUS
<1>1. problem \in Problems /\ x = Origin /\ xp = Origin /\ gp = Origin /\ wp = Origin /\ Origin \in Points
  BY OriginIsPoint DEF OwlInit
<1>2. pg = PseudoGradient(problem, x) /\ pg \in Points
  BY <1>1, PseudoGradientNumber DEF OwlInit
<1>3. d = [i \in Weights |-> Minus(pg[i])] /\ d \in Points /\ Descends(d, pg)
  <2>1. d = [i \in Weights |-> Minus(pg[i])]
    BY DEF OwlInit
  <2>2. \A i \in Weights : Minus(pg[i]) \in Numbers /\ ~Less(Zero, Times(Minus(pg[i]), pg[i]))
    BY <1>2, PointNumbers, SquareNotNegative
  <2> QED
    BY <2>1, <2>2 DEF Descends, Points
<1>4. fx = Objective(problem, x) /\ fx \in Numbers /\ finit = fx /\ step \in Numbers /\ Less(Zero, step)
  BY <1>1, ObjectiveNumber, OptionsAre DEF OwlInit
<1>5. owl = IF pg = Origin THEN "converged" ELSE "loop"
  BY DEF OwlInit
<1>6. OwlTyped
  BY <1>1, <1>2, <1>3, <1>4, <1>5 DEF OwlTyped
<1>7. \A i \in Weights : x[i] = Zero /\ xp[i] = Zero /\ ~Less(Times(x[i], xp[i]), Zero)
  BY <1>1, OriginIsPoint, SquareNotNegative, ZeroNumber
<1>8. OrthantwiseDescent
  BY <1>4, <1>5, <1>7, LessIsStrict DEF OrthantwiseDescent, Numbers
<1> QED
  BY <1>2, <1>3, <1>5, <1>6, <1>8 DEF OwlInv

LEMMA StartSearchKeeps ==
  ASSUME OwlInv, StartSearch
  PROVE  OwlInv'
<1>1. /\ owl = "loop" /\ xp' = x /\ gp' = pg /\ finit' = fx /\ owl' = "search"
      /\ wp' = Orthant(x, pg)
      /\ UNCHANGED <<problem, x, fx, pg, d, step>>
  BY DEF StartSearch, Orthant
<1>2. OwlTyped /\ Descends(d, pg) /\ fx = Objective(problem, x)
  BY <1>1 DEF OwlInv, OrthantwiseDescent
<1>3. x \in Points /\ pg \in Points /\ d \in Points
  BY <1>2 DEF OwlTyped
<1>4. Orthant(x, pg) \in Points
  BY <1>3, PointNumbers, PlusNumber DEF Orthant, Points
<1>5. OwlTyped'
  BY <1>1, <1>2, <1>4 DEF OwlTyped
<1>6. \A i \in Weights : ~Less(Times(x[i], x[i]), Zero)
  BY <1>3, PointNumbers, SquareNotNegative
<1>7. OrthantwiseDescent'
  BY <1>1, <1>2, <1>6 DEF OrthantwiseDescent
<1>8. Descends(d', gp') /\ wp' = Orthant(xp', gp')
  BY <1>1, <1>2
<1> QED
  BY <1>1, <1>5, <1>7, <1>8 DEF OwlInv

LEMMA NewDirectionKeeps ==
  ASSUME OwlInv, NewDirection
  PROVE  OwlInv'
<1>1. PICK raw \in RawDirections : d' = Constrained(raw, pg)
  BY DEF NewDirection
<1>2. /\ owl = "direction" /\ step' = One /\ owl' = "loop"
      /\ UNCHANGED <<problem, x, xp, fx, finit, pg, gp, wp>>
  BY DEF NewDirection
<1>3. OwlTyped /\ pg \in Points /\ raw \in Points /\ fx = Objective(problem, x)
  BY <1>2, OptionsAre DEF OwlInv, OrthantwiseDescent, OwlTyped
<1>4. \A i \in Weights : d'[i] \in Numbers /\ ~Less(Zero, Times(d'[i], pg[i]))
  <2> SUFFICES ASSUME NEW i \in Weights PROVE d'[i] \in Numbers /\ ~Less(Zero, Times(d'[i], pg[i]))
    OBVIOUS
  <2>1. d'[i] = IF Less(Times(raw[i], pg[i]), Zero) THEN raw[i] ELSE Zero
    BY <1>1 DEF Constrained
  <2>2. raw[i] \in Numbers /\ pg[i] \in Numbers /\ Zero \in Numbers /\ ~Less(Zero, Zero)
    BY <1>3, PointNumbers, ZeroNumber, OrderOf
  <2>3. Less(Times(raw[i], pg[i]), Zero) => ~Less(Zero, Times(raw[i], pg[i]))
    BY <2>2, SignOfProduct, OrderOf
  <2>4. ~Less(Zero, Times(Zero, pg[i]))
    BY <2>2, SignOfProduct
  <2> QED
    BY <2>1, <2>2, <2>3, <2>4
<1>5. d' \in Points
  BY <1>1, <1>4 DEF Constrained, Points
<1>6. One \in Numbers /\ Less(Zero, One)
  <2>1. One \in Numbers /\ Equals(One, 1, 1)
    BY ZeroNumber, ConstantsLowest
  <2> QED
    BY <2>1, SignOfNumber
<1>7. OwlTyped'
  BY <1>2, <1>3, <1>5, <1>6 DEF OwlTyped
<1>8. OrthantwiseDescent'
  BY <1>2, <1>3 DEF OrthantwiseDescent
<1>9. Descends(d', pg')
  BY <1>2, <1>4 DEF Descends
<1> QED
  BY <1>2, <1>7, <1>8, <1>9 DEF OwlInv

LEMMA ResumeKeeps ==
  ASSUME OwlInv, Resume
  PROVE  OwlInv'
<1>1. /\ owl = "loop" /\ owl' = "loop"
      /\ pg' = Origin /\ xp' = Origin /\ gp' = Origin /\ finit' = Zero
      /\ UNCHANGED <<problem, x, fx, d, step, wp>>
  BY DEF Resume
<1>2. OwlTyped /\ fx = Objective(problem, x) /\ d \in Points
  BY <1>1 DEF OwlInv, OrthantwiseDescent, OwlTyped
<1>3. OwlTyped'
  BY <1>1, <1>2, OriginIsPoint, ZeroNumber DEF OwlTyped
<1>4. \A i \in Weights : ~Less(Zero, Times(d[i], Zero))
  <2>1. Zero \in Numbers /\ ~Less(Zero, Zero)
    BY ZeroNumber, OrderOf
  <2> QED
    BY <1>2, <2>1, PointNumbers, SignOfProduct
<1>5. Descends(d', pg')
  BY <1>1, <1>4, OriginIsPoint DEF Descends
<1>6. OrthantwiseDescent'
  BY <1>1, <1>2 DEF OrthantwiseDescent
<1> QED
  BY <1>1, <1>3, <1>5, <1>6 DEF OwlInv

(* What a trial from xp leaves.                                            *)
Trial == Projected([i \in Weights |-> Plus2(xp[i], Times(step, d[i]))])
Gained(to) == Inner([i \in Weights |-> Plus2(to[i], Minus(xp[i]))], gp)

LEMMA TrialDescends ==
  ASSUME OwlInv, owl = "search"
  PROVE  /\ Trial \in Points /\ Gained(Trial) \in Numbers /\ ~Less(Zero, Gained(Trial))
         /\ \A i \in Weights : LandedWell(Trial[i], xp[i], gp[i])
<1>1. /\ xp \in Points /\ d \in Points /\ gp \in Points /\ step \in Numbers /\ Less(Zero, step)
      /\ Descends(d, gp) /\ wp = Orthant(xp, gp)
  BY DEF OwlInv, OwlTyped
<1>2. \A i \in Weights : LandedWell(Trial[i], xp[i], gp[i])
  <2> SUFFICES ASSUME NEW i \in Weights PROVE LandedWell(Trial[i], xp[i], gp[i])
    OBVIOUS
  <2>1. PICK from \in Numbers, dir \in Numbers, g \in Numbers : from = xp[i] /\ dir = d[i] /\ g = gp[i]
    BY <1>1, PointNumbers
  <2>2. ~Less(Zero, Times(dir, g))
    BY <1>1, <2>1 DEF Descends
  <2>3. PICK o : o = wp[i] /\ o = IF from = Zero THEN Minus(g) ELSE from
    BY <1>1, <2>1 DEF Orthant
  <2>4. PICK to : to = Trial[i] /\ to = Landed(from, dir, step, o)
    BY <2>1, <2>3 DEF Trial, Projected, Landed
  <2>5. LandedWell(to, from, g)
    BY <1>1, <2>1, <2>2, <2>3, <2>4, LandsWell
  <2> QED
    BY <2>1, <2>4, <2>5
<1>3. Trial \in Points
  BY <1>2 DEF Trial, Projected, Points, LandedWell
<1>4. Gained(Trial) = Plus2(Times(Plus2(Trial[1], Minus(xp[1])), gp[1]), Times(Plus2(Trial[2], Minus(xp[2])), gp[2]))
  BY TwoWeights DEF Gained, Inner
<1>5. PICK u \in Numbers, v \in Numbers :
        /\ u = Times(Plus2(Trial[1], Minus(xp[1])), gp[1]) /\ v = Times(Plus2(Trial[2], Minus(xp[2])), gp[2])
        /\ ~Less(Zero, u) /\ ~Less(Zero, v)
  BY <1>2, TwoWeights DEF LandedWell
<1>6. Gained(Trial) \in Numbers /\ ~Less(Zero, Gained(Trial))
  BY <1>4, <1>5, NotAboveSum
<1> QED
  BY <1>2, <1>3, <1>6

LEMMA TryStepKeeps ==
  ASSUME OwlInv, TryStep
  PROVE  OwlInv'
<1>1. owl = "search" /\ UNCHANGED <<problem, xp, finit, gp, d, wp>>
  BY DEF TryStep
<1>2. PICK to \in Points :
        /\ to = Trial /\ Gained(to) \in Numbers /\ ~Less(Zero, Gained(to))
        /\ \A i \in Weights : LandedWell(to[i], xp[i], gp[i])
  BY <1>1, TrialDescends
<1>3. PICK accepted \in BOOLEAN, fails \in BOOLEAN :
        /\ accepted = ~Less(Plus2(finit, Times(FTol, Gained(to))), fx')
        /\ fails = (~accepted /\ (Less(step, MinStep) \/ MaxTrials <= tried + 1))
        /\ fx' = Objective(problem, to)
        /\ x' = IF fails THEN xp ELSE to
        /\ pg' = IF accepted \/ fails THEN PseudoGradient(problem, to) ELSE pg
        /\ step' = IF accepted \/ fails THEN step ELSE Times(step, << 1, 2 >>)
        /\ owl' = CASE fails -> "failed"
                    [] accepted /\ pg' = Origin -> "converged"
                    [] accepted /\ pg' # Origin -> IF k = LastIteration THEN "maximum" ELSE "direction"
                    [] OTHER -> "search"
  BY <1>2 DEF TryStep, Trial, Gained
<1>4. OwlTyped /\ Descends(d, gp) /\ wp = Orthant(xp, gp)
  BY <1>1 DEF OwlInv
<1>5. /\ problem \in Problems /\ xp \in Points /\ gp \in Points /\ finit \in Numbers /\ step \in Numbers /\ Less(Zero, step)
      /\ pg \in Points
  BY <1>4 DEF OwlTyped
<1>6. fx' \in Numbers /\ pg' \in Points /\ x' \in Points
  BY <1>2, <1>3, <1>5, ObjectiveNumber, PseudoGradientNumber
<1>7. step' \in Numbers /\ Less(Zero, step')
  <2>1. << 1, 2 >> \in Numbers /\ Less(Zero, << 1, 2 >>)
    BY HalfNumber
  <2> QED
    BY <1>3, <1>5, <2>1, SignOfProduct
<1>8. /\ owl' \in {"failed", "converged", "maximum", "direction", "search"}
      /\ owl' = "failed" => fails
      /\ owl' # "failed" => ~fails
      /\ owl' \in {"converged", "maximum", "direction"} => accepted
      /\ owl' = "converged" => pg' = Origin
      /\ owl' = "direction" => pg' # Origin
      /\ fails => ~accepted
  BY <1>3
<1>9. OwlTyped'
  BY <1>1, <1>4, <1>6, <1>7, <1>8 DEF OwlTyped
<1>10. owl' \in {"converged", "direction", "maximum"} => ~Less(finit, fx')
  <2>1. PICK w \in Numbers : w = Times(FTol, Gained(to)) /\ ~Less(Zero, w)
    BY <1>2, OptionsAre, SignOfProduct
  <2>2. PICK v \in Numbers : v = Plus2(finit, w) /\ ~Less(finit, v)
    BY <1>5, <2>1, NotAboveSum
  <2>3. accepted => ~Less(v, fx')
    BY <1>3, <2>1, <2>2
  <2>4. accepted => ~Less(finit, fx')
    BY <1>5, <1>6, <2>2, <2>3, NotLessTransitive DEF Numbers
  <2> QED
    BY <1>8, <2>4
<1>11. \A i \in Weights : ~Less(Times(x'[i], xp[i]), Zero)
  <2>1. \A i \in Weights : ~Less(Times(to[i], xp[i]), Zero)
    BY <1>2 DEF LandedWell
  <2>2. \A i \in Weights : ~Less(Times(xp[i], xp[i]), Zero)
    BY <1>5, PointNumbers, SquareNotNegative
  <2> QED
    BY <1>3, <2>1, <2>2
<1>12. owl' = "search" => \A i \in Weights : xp[i] = Zero /\ x'[i] # Zero => Less(Times(x'[i], gp[i]), Zero)
  BY <1>2, <1>3, <1>8 DEF LandedWell
<1>13. OrthantwiseDescent'
  BY <1>1, <1>3, <1>8, <1>10, <1>11, <1>12 DEF OrthantwiseDescent
<1>14. owl' \in {"converged", "direction"} =>
         pg' = PseudoGradient(problem', x') /\ (owl' = "converged" <=> pg' = Origin)
  BY <1>1, <1>3, <1>8
<1> QED
  BY <1>1, <1>4, <1>8, <1>9, <1>13, <1>14 DEF OwlInv

LEMMA OwlStays == OwlInv /\ [OwlNext]_owlVars => OwlInv'
<1> SUFFICES ASSUME OwlInv, [OwlNext]_owlVars PROVE OwlInv'
  OBVIOUS
<1>1. CASE StartSearch
  BY <1>1, StartSearchKeeps
<1>2. CASE TryStep
  BY <1>2, TryStepKeeps
<1>3. CASE NewDirection
  BY <1>3, NewDirectionKeeps
<1>4. CASE Resume
  BY <1>4, ResumeKeeps
<1>5. CASE UNCHANGED owlVars
  BY <1>5 DEF owlVars, OwlInv, OwlTyped, OrthantwiseDescent, Descends, Orthant
<1> QED
  BY <1>1, <1>2, <1>3, <1>4, <1>5 DEF OwlNext

LEMMA ConvergedMeans == OwlInv => ConvergedIsMinimum
<1> SUFFICES ASSUME OwlInv, owl \in {"converged", "direction"}
             PROVE owl = "converged" <=>
               \A i, j \in Near : ~Less(Objective(problem, Displaced(x, i, j)), Objective(problem, x))
  BY DEF ConvergedIsMinimum, Displaced
<1>1. problem \in Problems /\ x \in Points /\ pg = PseudoGradient(problem, x) /\ (owl = "converged" <=> pg = Origin)
  BY DEF OwlInv, OwlTyped
<1>2. ASSUME owl = "converged", NEW i \in Near, NEW j \in Near
      PROVE  ~Less(Objective(problem, Displaced(x, i, j)), Objective(problem, x))
  <2>1. Near \subseteq Fraction
    <3>1. problem.a * x[1][2] * x[2][2] \in Nat \ {0}
      <4>1. PICK a \in Nat \ {0}, m \in Nat \ {0}, n \in Nat \ {0} : a = problem.a /\ m = x[1][2] /\ n = x[2][2]
        BY <1>1, ProblemIs, PointNumbers, FractionEquals DEF Numbers
      <4> QED
        BY <4>1
    <3> QED
      BY <3>1 DEF Near, Fraction
  <2>2. Displaced(x, i, j) \in Points
    <3>1. Plus2(x[1], i) \in Numbers /\ Plus2(x[2], j) \in Numbers
      BY <1>1, <2>1, PointNumbers, InFraction DEF Numbers, Plus2
    <3>2. x = [e \in Weights |-> x[e]] /\ Weights = {1, 2}
      BY <1>1 DEF Points, Weights
    <3>3. Displaced(x, i, j) = [e \in Weights |-> IF e = 1 THEN Plus2(x[1], i) ELSE Plus2(x[2], j)]
      BY <3>2 DEF Displaced
    <3> QED
      BY <3>1, <3>3 DEF Points
  <2> QED
    BY <1>1, <1>2, <2>2, NowhereLower
<1>3. ASSUME owl # "converged"
      PROVE  \E i, j \in Near : Less(Objective(problem, Displaced(x, i, j)), Objective(problem, x))
  <2>1. \E i, j \in Around(problem, x) : Less(Objective(problem, Displaced(x, i, j)), Objective(problem, x))
    BY <1>1, <1>3, LowerBeside
  <2>2. Around(problem, x) \subseteq Near
    BY DEF Around, Near
  <2> QED
    BY <2>1, <2>2
<1> QED
  BY <1>2, <1>3

(* No iteration of OWL-QN makes the objective greater, the value that is    *)
(* kept is that of the point with its penalty, and no trial takes a weight *)
(* across 0, nor off 0 but against the pseudo-gradient; whatever the       *)
(* directions are, and after any number of resumptions.                    *)
THEOREM NothingAscends == OwlSpec => []OrthantwiseDescent
<1>1. OwlInv => OrthantwiseDescent
  BY DEF OwlInv
<1> QED
  BY <1>1, OwlBegins, OwlStays, PTL DEF OwlSpec

(* Training with L1 regularization ends as converged exactly at a point    *)
(* beside which none is lower: where the pseudo-gradient is not zero, the  *)
(* displacement of one weight that is tried last has the objective fall,   *)
(* and where it is zero no point at all is lower (NowhereLower).           *)
THEOREM EndsAtTheMinimum == OwlSpec => []ConvergedIsMinimum
BY OwlBegins, OwlStays, ConvergedMeans, PTL DEF OwlSpec
==============================================================================
