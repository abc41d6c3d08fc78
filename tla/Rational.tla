------------------------------- MODULE Rational -------------------------------
(***************************************************************************)
(* Exact fractions, vectors and matrices of them.  A fraction is           *)
(* <<numerator, denominator>> in lowest terms with a positive denominator, *)
(* so that equal values are equal.                                         *)
(***************************************************************************)
EXTENDS Integers, Sequences, SequencesExt

\* Euclid's.
Euclid[ab \in Nat \X Nat] ==
  IF ab[2] = 0 THEN ab[1] ELSE Euclid[<<ab[2], ab[1] % ab[2]>>]
Divisor(a, b) == Euclid[<<a, b>>]

Magnitude(a) == IF a < 0 THEN -a ELSE a

Fraction == {p \in Int \X (Nat \ {0}) : Divisor(Magnitude(p[1]), p[2]) = 1}

\* The fraction a / b, of which d can be taken out.
Lowest(a, b, d) == IF b > 0 THEN <<a \div d, b \div d>> ELSE <<(-a) \div d, (-b) \div d>>
Frac(a, b) == Lowest(a, b, Divisor(Magnitude(a), Magnitude(b)))

Zero == <<0, 1>>
One  == <<1, 1>>

\* The sums and products are reduced before they are formed: TLC's numbers end at 2^31.
PlusOver(p, q, d) == Frac(p[1] * (q[2] \div d) + q[1] * (p[2] \div d), p[2] * (q[2] \div d))
Plus(p, q)  == PlusOver(p, q, Divisor(p[2], q[2]))
Minus(p, q) == Plus(p, <<-q[1], q[2]>>)
Crossed(a, b) == <<a[1] * b[1], a[2] * b[2]>>
Times(p, q) == IF p[1] = 0 \/ q[1] = 0 THEN Zero
               ELSE Crossed(Frac(p[1], q[2]), Frac(q[1], p[2]))
Over(p, q)  == Times(p, Frac(q[2], q[1]))
Less(p, q)  == p[1] * q[2] < q[1] * p[2]
Negative(p) == p[1] < 0
Positive(p) == p[1] > 0

-----------------------------------------------------------------------------

\* The vector v, its elements computed once.
Vector(v)     == v \o <<>>

Total(v)      == LET upTo[i \in 0..Len(v)] == IF i = 0 THEN Zero ELSE Plus(upTo[i - 1], v[i])
                 IN  upTo[Len(v)]
Dot(v, w)     == Total(Vector([i \in DOMAIN v |-> Times(v[i], w[i])]))
Scaled(c, v)  == Vector([i \in DOMAIN v |-> Times(c, v[i])])
VPlus(v, w)   == Vector([i \in DOMAIN v |-> Plus(v[i], w[i])])
VMinus(v, w)  == Vector([i \in DOMAIN v |-> Minus(v[i], w[i])])
Apply(M, v)   == Vector([i \in DOMAIN M |-> Dot(M[i], v)])
Null(v)       == \A i \in DOMAIN v : v[i] = Zero

\* The combination of the vectors rows with the coefficients c.
Combination(c, rows, zero) ==
  FoldLeft(VPlus, zero, [k \in DOMAIN rows |-> Scaled(c[k], rows[k])])

-----------------------------------------------------------------------------
(* Three by three matrices, as rows. *)

Square(a)   == Times(a, a)
Opposite(a) == Minus(Zero, a)

Transpose(M) == Vector([i \in 1..3 |-> Vector([j \in 1..3 |-> M[j][i]])])

Product(M, N) == LET C == Transpose(N) IN
                 Vector([i \in 1..3 |-> Vector([j \in 1..3 |-> Dot(M[i], C[j])])])

After(i) == (i % 3) + 1
cross(a, b) ==
  Vector([i \in 1..3 |-> Minus(Times(a[After(i)], b[After(After(i))]),
                              Times(a[After(After(i))], b[After(i)]))])
det(M) == Dot(M[1], cross(M[2], M[3]))

\* The inverse of M, applied to v: Cramer's rule.
Ratios(N, v, d) == Vector([i \in 1..3 |-> Over(det([N EXCEPT ![i] = v]), d)])
Solved(M, v) == Ratios(Transpose(M), v, det(M))
===============================================================================
