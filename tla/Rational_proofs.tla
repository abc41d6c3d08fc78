--------------------------- MODULE Rational_proofs ---------------------------
(***************************************************************************)
(* Fractions in lowest terms, as the models compute with them, are the     *)
(* rational numbers: Euclid's algorithm ends in the greatest common        *)
(* divisor, sums and products keep lowest terms and have the values they   *)
(* should, equal values are equal fractions, and the laws of a field's     *)
(* sums and products hold.  Vectors and three by three matrices of them    *)
(* obey the laws of linear algebra: products, transposes, determinants,    *)
(* Cramer's rule, definite matrices, which is what covariances are, and    *)
(* turns, which is what attitudes are.                                     *)
(*                                                                         *)
(* A fact about values is a fact about integers over a common denominator: *)
(* Val(p, a, D) says that p is a / D, ValSum and ValTimes carry an         *)
(* expression over to its numerator, and ValSame takes an equation of      *)
(* numerators back.  Induction over the numbers is complete induction for  *)
(* a set, from the well-foundedness of less-than.                          *)
(***************************************************************************)
EXTENDS Rational, WellFoundedInduction, SequenceTheorems, TLAPS

\* Less-than is well-founded on the naturals: the library's fact as a set of pairs.
LEMMA LessRel == IsWellFoundedOn({ss \in Nat \X Nat : ss[1] < ss[2]}, Nat)
<1>1. IsWellFoundedOn(OpToRel(<, Nat), Nat)
  BY NatLessThanWellFounded
<1>. QED  BY <1>1, Zenon DEF OpToRel

\* Complete induction, for a set.
LEMMA SetInduction ==
  ASSUME NEW S, \A k \in Nat : (\A j \in Nat : j < k => j \in S) => k \in S
  PROVE  \A k \in Nat : k \in S
<1>. DEFINE T == {k \in Nat : k \notin S}
            R == {ss \in Nat \X Nat : ss[1] < ss[2]}
<1>1. SUFFICES ASSUME T # {} PROVE FALSE
  OBVIOUS
<1>2. PICK m \in T : \A y \in T : ~(<<y, m>> \in R)
  <2>1. T \subseteq Nat
    OBVIOUS
  <2>2. IsWellFoundedOn(R, Nat)
    BY LessRel
  <2>. HIDE DEF T, R
  <2>. QED  BY <1>1, <2>1, <2>2, WFMin
<1>3. \A j \in Nat : j < m => j \in S
  BY <1>2
<1>. QED  BY <1>2, <1>3

\* A division leaves less than its divisor.
LEMMA Remainder ==
  ASSUME NEW a \in Nat, NEW b \in Nat, b # 0
  PROVE  /\ a % b \in 0..(b - 1) /\ a \div b \in Nat
         /\ a = (b * (a \div b)) + (a % b)
  OBVIOUS

EuclidTo(g, n) ==
  /\ g \in [Nat \X (0..n) -> Nat]
  /\ \A a \in Nat, b \in 0..n :
       g[<<a, b>>] = IF b = 0 THEN a ELSE g[<<b, a % b>>]

\* For every bound there is a function that computes what Euclid's algorithm does up to it.
LEMMA EuclidExists == \A n \in Nat : \E g : EuclidTo(g, n)
<1>. DEFINE S == {n \in Nat : \E g : EuclidTo(g, n)}
<1>1. ASSUME NEW n \in Nat, \A j \in Nat : j < n => j \in S
      PROVE  n \in S
  <2>1. CASE n = 0
    <3>1. EuclidTo([ab \in Nat \X (0..0) |-> ab[1]], 0)
      BY DEF EuclidTo
    <3>. QED  BY <2>1, <3>1
  <2>2. CASE n # 0
    <3>1. n - 1 \in Nat /\ n - 1 < n
      BY <2>2
    <3>2. PICK g : EuclidTo(g, n - 1)
      BY <1>1, <3>1
    <3>. DEFINE value(a, b) == IF b < n THEN g[<<a, b>>] ELSE g[<<b, a % b>>]
                h == [ab \in Nat \X (0..n) |-> value(ab[1], ab[2])]
    <3>3. \A a \in Nat : a % n \in 0..(n - 1)
      BY <2>2
    <3>4. ASSUME NEW a \in Nat, NEW b \in 0..n
          PROVE  value(a, b) \in Nat
      <4>1. CASE b < n
        <5>1. b \in 0..(n - 1)
          BY <4>1
        <5>. QED  BY <4>1, <5>1, <3>2 DEF EuclidTo
      <4>2. CASE b = n
        <5>1. a % b \in 0..(n - 1) /\ b \in Nat
          BY <4>2, <3>3
        <5>. QED  BY <4>2, <5>1, <3>2 DEF EuclidTo
      <4>. QED  BY <4>1, <4>2
    <3>5. h \in [Nat \X (0..n) -> Nat]
      BY <3>4
    <3>6. ASSUME NEW a \in Nat, NEW b \in 0..n
          PROVE  h[<<a, b>>] = IF b = 0 THEN a ELSE h[<<b, a % b>>]
      <4>0. h[<<a, b>>] = value(a, b)
        OBVIOUS
      <4>1. CASE b = 0
        <5>1. value(a, b) = g[<<a, b>>]
          BY <4>1, <2>2
        <5>. QED  BY <4>0, <4>1, <5>1, <3>2, <3>1 DEF EuclidTo
      <4>2. CASE b # 0
        <5>1. a % b \in 0..(b - 1) /\ b \in Nat
          BY <4>2
        <5>2. h[<<b, a % b>>] = g[<<b, a % b>>]
          BY <5>1
        <5>3. value(a, b) = g[<<b, a % b>>]
          <6>1. CASE b = n
            BY <6>1
          <6>2. CASE b < n
            <7>1. b \in 0..(n - 1)
              BY <6>2
            <7>. QED  BY <7>1, <6>2, <4>2, <3>2 DEF EuclidTo
          <6>. QED  BY <6>1, <6>2
        <5>. QED  BY <4>0, <4>2, <5>2, <5>3
      <4>. QED  BY <4>1, <4>2
    <3>. HIDE DEF h
    <3>7. EuclidTo(h, n)
      BY <3>5, <3>6 DEF EuclidTo
    <3>. QED  BY <3>7
  <2>. QED  BY <2>1, <2>2
<1>. HIDE DEF S
<1>2. \A n \in Nat : n \in S
  BY <1>1, SetInduction
<1>. QED  BY <1>2 DEF S

\* Two such functions agree where both are defined.
LEMMA EuclidUnique ==
  ASSUME NEW n \in Nat, NEW m \in Nat, NEW g, NEW h, EuclidTo(g, n), EuclidTo(h, m), n <= m
  PROVE  \A b \in 0..n : \A a \in Nat : g[<<a, b>>] = h[<<a, b>>]
<1>. DEFINE S == {b \in Nat : b <= n => \A a \in Nat : g[<<a, b>>] = h[<<a, b>>]}
<1>1. ASSUME NEW b \in Nat, \A j \in Nat : j < b => j \in S
      PROVE  b \in S
  <2>1. SUFFICES ASSUME b <= n, NEW a \in Nat
                 PROVE  g[<<a, b>>] = h[<<a, b>>]
    OBVIOUS
  <2>2. b \in 0..n /\ b \in 0..m
    BY <2>1
  <2>3. CASE b = 0
    BY <2>2, <2>3 DEF EuclidTo
  <2>4. CASE b # 0
    <3>1. a % b \in Nat /\ a % b < b
      BY <2>4
    <3>2. g[<<b, a % b>>] = h[<<b, a % b>>]
      BY <3>1, <1>1, <2>1
    <3>. QED  BY <2>2, <2>4, <3>2 DEF EuclidTo
  <2>. QED  BY <2>3, <2>4
<1>. HIDE DEF S
<1>2. \A b \in Nat : b \in S
  BY <1>1, SetInduction
<1>3. \A b \in 0..n : b \in Nat /\ b <= n
  OBVIOUS
<1>. QED  BY <1>2, <1>3 DEF S

\* Euclid is what its definition says: the function the definition chooses exists.
LEMMA EuclidSteps ==
  Euclid = [ab \in Nat \X Nat |->
     IF ab[2] = 0 THEN ab[1] ELSE Euclid[<<ab[2], ab[1] % ab[2]>>]]
<1>. DEFINE E(n) == CHOOSE g : EuclidTo(g, n)
            F == [ab \in Nat \X Nat |-> E(ab[2])[ab]]
            Step(g) == [ab \in Nat \X Nat |->
                          IF ab[2] = 0 THEN ab[1] ELSE g[<<ab[2], ab[1] % ab[2]>>]]
<1>1. \A n \in Nat : EuclidTo(E(n), n)
  BY EuclidExists
<1>2. ASSUME NEW a \in Nat, NEW b \in Nat
      PROVE  F[<<a, b>>] = IF b = 0 THEN a ELSE F[<<b, a % b>>]
  <2>1. F[<<a, b>>] = E(b)[<<a, b>>]
    OBVIOUS
  <2>2. b \in 0..b
    OBVIOUS
  <2>3. CASE b = 0
    <3>. HIDE DEF E
    <3>1. E(b)[<<a, b>>] = a
      BY <1>1, <2>2, <2>3 DEF EuclidTo
    <3>. QED  BY <2>1, <2>3, <3>1
  <2>4. CASE b # 0
    <3>1. a % b \in Nat /\ a % b <= b /\ a % b \in 0..(a % b)
      BY <2>4
    <3>. HIDE DEF E
    <3>2. F[<<b, a % b>>] = E(a % b)[<<b, a % b>>]
      BY <3>1
    <3>3. E(a % b)[<<b, a % b>>] = E(b)[<<b, a % b>>]
      BY <3>1, <1>1, EuclidUnique
    <3>. QED  BY <1>1, <2>1, <2>2, <2>4, <3>2, <3>3 DEF EuclidTo
  <2>. QED  BY <2>3, <2>4
<1>. HIDE DEF E
<1>3. F = Step(F)
  <2>1. ASSUME NEW ab \in Nat \X Nat
        PROVE  F[ab] = IF ab[2] = 0 THEN ab[1] ELSE F[<<ab[2], ab[1] % ab[2]>>]
    <3>1. ab[1] \in Nat /\ ab[2] \in Nat /\ ab = <<ab[1], ab[2]>>
      OBVIOUS
    <3>. HIDE DEF F
    <3>. QED  BY <3>1, <1>2
  <2>2. F = [ab \in Nat \X Nat |-> F[ab]]
    OBVIOUS
  <2>. HIDE DEF F
  <2>. QED  BY <2>1, <2>2
<1>4. \E g : g = Step(g)
  BY <1>3
<1>5. Euclid = CHOOSE g : g = Step(g)
  BY DEF Euclid
<1>. QED  BY <1>4, <1>5

\* One step of Euclid's.
LEMMA DivisorStep ==
  ASSUME NEW a \in Nat, NEW b \in Nat
  PROVE  Divisor(a, b) = IF b = 0 THEN a ELSE Divisor(b, a % b)
<1>1. <<a, b>> \in Nat \X Nat
  OBVIOUS
<1>. QED  BY <1>1, EuclidSteps DEF Divisor

\* d goes into a and b, and is a combination of them.
Common(d, a, b) ==
  /\ d \in Nat
  /\ \E i, j \in Nat : a = d * i /\ b = d * j
  /\ \E i, j \in Int : d = (a * i) + (b * j)

\* What Euclid's algorithm returns is a common divisor, and the greatest, as it is a
\* combination of the two.
LEMMA DivisorIsCommon == \A b \in Nat : \A a \in Nat : Common(Divisor(a, b), a, b)
<1>. DEFINE S == {b \in Nat : \A a \in Nat : Common(Divisor(a, b), a, b)}
<1>1. ASSUME NEW b \in Nat, \A k \in Nat : k < b => k \in S
      PROVE  b \in S
  <2>1. SUFFICES ASSUME NEW a \in Nat PROVE Common(Divisor(a, b), a, b)
    OBVIOUS
  <2>2. CASE b = 0
    <3>1. Divisor(a, b) = a
      BY <2>2, DivisorStep
    <3>2. a = a * 1 /\ b = a * 0 /\ a = (a * 1) + (b * 0)
      BY <2>2
    <3>3. 0 \in Nat /\ 1 \in Nat /\ 0 \in Int /\ 1 \in Int
      OBVIOUS
    <3>. QED  BY <3>1, <3>2, <3>3 DEF Common
  <2>3. CASE b # 0
    <3>. DEFINE r == a % b
                q == a \div b
                d == Divisor(b, r)
    <3>1. r \in Nat /\ r < b /\ q \in Nat /\ a = (b * q) + r
      BY <2>3, Remainder
    <3>2. Divisor(a, b) = d
      BY <2>3, DivisorStep
    <3>3. Common(d, b, r)
      BY <3>1, <1>1
    <3>. HIDE DEF r, q, d
    <3>4. d \in Nat
      BY <3>3 DEF Common
    <3>5. PICK i \in Nat, j \in Nat : b = d * i /\ r = d * j
      BY <3>3 DEF Common
    <3>6. PICK k \in Int, l \in Int : d = (b * k) + (r * l)
      BY <3>3 DEF Common
    <3>7. a = d * ((i * q) + j) /\ (i * q) + j \in Nat
      BY <3>1, <3>4, <3>5
    <3>8. d = (a * l) + (b * (k - (q * l))) /\ k - (q * l) \in Int
      <4>1. r = a - (b * q)
        BY <3>1
      <4>. QED  BY <3>1, <3>6, <4>1
    <3>. QED  BY <3>2, <3>4, <3>5, <3>7, <3>8 DEF Common
  <2>. QED  BY <2>2, <2>3
<1>. HIDE DEF S
<1>2. \A b \in Nat : b \in S
  BY <1>1, SetInduction
<1>. QED  BY <1>2 DEF S

\* A product divided by one factor is the other.
LEMMA Exactly ==
  ASSUME NEW d \in Nat, d # 0, NEW i \in Int
  PROVE  (d * i) \div d = i
<1>. DEFINE q == (d * i) \div d
            r == (d * i) % d
<1>1. q \in Int /\ r \in 0..(d - 1) /\ d * i = (d * q) + r
  OBVIOUS
<1>. HIDE DEF q, r
<1>2. d * (i - q) = r
  BY <1>1
<1>3. ~(i - q >= 1)
  <2>1. i - q >= 1 => d * (i - q) >= d
    BY <1>1
  <2>. QED  BY <1>1, <1>2, <2>1
<1>4. ~(i - q <= -1)
  <2>1. i - q <= -1 => d * (i - q) <= -d
    BY <1>1
  <2>. QED  BY <1>1, <1>2, <2>1
<1>5. q = i
  BY <1>1, <1>3, <1>4
<1>. QED  BY <1>5 DEF q

-----------------------------------------------------------------------------
Coprime(a, b) == \E i, j \in Int : (a * i) + (b * j) = 1

\* A fraction's parts are coprime in the sense that a combination of them is 1.
LEMMA Fractions == Fraction = {p \in Int \X (Nat \ {0}) : Coprime(p[1], p[2])}
<1>1. ASSUME NEW a \in Int, NEW b \in Nat, b # 0
      PROVE  Divisor(Magnitude(a), b) = 1 <=> Coprime(a, b)
  <2>. DEFINE d == Divisor(Magnitude(a), b)
  <2>1. Magnitude(a) \in Nat /\ (Magnitude(a) = a \/ Magnitude(a) = -a)
    BY DEF Magnitude
  <2>2. Common(d, Magnitude(a), b)
    BY <2>1, DivisorIsCommon
  <2>. HIDE DEF d
  <2>3. ASSUME d = 1
        PROVE  Coprime(a, b)
    <3>1. PICK i \in Int, j \in Int : 1 = (Magnitude(a) * i) + (b * j)
      BY <2>2, <2>3 DEF Common
    <3>2. (a * i) + (b * j) = 1 \/ (a * (-i)) + (b * j) = 1
      BY <2>1, <3>1
    <3>3. -i \in Int
      OBVIOUS
    <3>. QED  BY <3>2, <3>3 DEF Coprime
  <2>4. ASSUME Coprime(a, b)
        PROVE  d = 1
    <3>1. PICK i \in Int, j \in Int : (a * i) + (b * j) = 1
      BY <2>4 DEF Coprime
    <3>2. PICK m \in Nat, n \in Nat : Magnitude(a) = d * m /\ b = d * n
      BY <2>2 DEF Common
    <3>3. d \in Nat
      BY <2>2 DEF Common
    <3>4. a = d * m \/ a = d * (-m)
      BY <2>1, <3>2, <3>3
    <3>5. PICK t \in Int : d * t = 1
      <4>1. d * ((m * i) + (n * j)) = 1 \/ d * (((-m) * i) + (n * j)) = 1
        BY <3>1, <3>2, <3>3, <3>4
      <4>2. (m * i) + (n * j) \in Int /\ ((-m) * i) + (n * j) \in Int
        OBVIOUS
      <4>. QED  BY <4>1, <4>2
    <3>6. t >= 1
      BY <3>3, <3>5
    <3>7. ~(d >= 2)
      <4>1. d >= 2 => d * t >= 2
        BY <3>3, <3>5, <3>6
      <4>. QED  BY <3>5, <4>1
    <3>. QED  BY <3>3, <3>5, <3>7
  <2>. QED  BY <2>3, <2>4 DEF d
<1>. QED  BY <1>1 DEF Fraction

\* p is a / b.
Is(p, a, b) == p[1] * b = a * p[2]

\* Frac makes a fraction of any two integers, of their value, by taking out a factor.
LEMMA FracFits ==
  ASSUME NEW a \in Int, NEW b \in Int, b # 0
  PROVE  /\ Frac(a, b) \in Fraction /\ Is(Frac(a, b), a, b)
         /\ \E k \in Int : a = k * Frac(a, b)[1] /\ b = k * Frac(a, b)[2]
<1>. DEFINE d == Divisor(Magnitude(a), Magnitude(b))
            e == IF b > 0 THEN a ELSE -a
            f == IF b > 0 THEN b ELSE -b
<1>1. Magnitude(a) \in Nat /\ Magnitude(b) \in Nat /\ Magnitude(b) # 0
  BY DEF Magnitude
<1>2. Common(d, Magnitude(a), Magnitude(b))
  BY <1>1, DivisorIsCommon
<1>. HIDE DEF d
<1>3. PICK i \in Nat, j \in Nat : Magnitude(a) = d * i /\ Magnitude(b) = d * j
  BY <1>2 DEF Common
<1>4. PICK k \in Int, l \in Int : d = (Magnitude(a) * k) + (Magnitude(b) * l)
  BY <1>2 DEF Common
<1>5. d \in Nat /\ d # 0
  BY <1>1, <1>2, <1>3 DEF Common
<1>6. f = d * j /\ j # 0
  BY <1>1, <1>3, <1>5 DEF Magnitude
<1>7. PICK m \in Int : e = d * m /\ (m = i \/ m = -i)
  <2>1. (e = Magnitude(a) \/ e = -Magnitude(a)) /\ -i \in Int /\ d * (-i) = -(d * i)
    BY <1>5 DEF Magnitude
  <2>. QED  BY <1>3, <2>1
<1>8. Frac(a, b) = <<m, j>>
  <2>1. Frac(a, b) = <<e \div d, f \div d>>
    BY DEF Frac, Lowest, d
  <2>. QED  BY <1>5, <1>6, <1>7, <2>1, Exactly
<1>9. Coprime(m, j)
  <2>1. d * 1 = d * ((i * k) + (j * l))
    BY <1>3, <1>4, <1>5
  <2>2. (i * k) + (j * l) = 1
    <3>. DEFINE t == (i * k) + (j * l)
    <3>1. t \in Int /\ d * t = d
      BY <1>5, <2>1
    <3>. HIDE DEF t
    <3>2. d * (t - 1) = 0
      BY <1>5, <3>1
    <3>3. t = 1
      BY <1>5, <3>1, <3>2
    <3>. QED  BY <3>3 DEF t
  <2>3. CASE m = i
    BY <2>2, <2>3 DEF Coprime
  <2>4. CASE m = -i
    <3>1. (m * (-k)) + (j * l) = 1 /\ -k \in Int
      BY <2>2, <2>4
    <3>. QED  BY <3>1 DEF Coprime
  <2>. QED  BY <1>7, <2>3, <2>4
<1>10. m * b = a * j
  <2>1. m * f = e * j
    <3>1. m * (d * j) = (d * m) * j
      BY <1>5
    <3>. QED  BY <1>6, <1>7, <3>1
  <2>2. CASE b > 0
    BY <2>1, <2>2
  <2>3. CASE b < 0
    <3>1. m * (-b) = (-a) * j
      BY <2>1, <2>3
    <3>. QED  BY <3>1
  <2>. QED  BY <2>2, <2>3
<1>11. <<m, j>> \in Fraction
  BY <1>6, <1>9, Fractions
<1>12. \E t \in Int : a = t * m /\ b = t * j
  <2>1. CASE b > 0
    <3>1. a = d * m /\ b = d * j /\ d \in Int
      BY <2>1, <1>5, <1>6, <1>7
    <3>. QED  BY <3>1
  <2>2. CASE b < 0
    <3>1. a = (-d) * m /\ b = (-d) * j /\ -d \in Int
      <4>1. -a = d * m /\ -b = d * j
        BY <2>2, <1>6, <1>7
      <4>. QED  BY <4>1, <1>5
    <3>. QED  BY <3>1
  <2>. QED  BY <2>1, <2>2
<1>. QED  BY <1>8, <1>10, <1>11, <1>12 DEF Is

\* A fraction is an integer above a positive one, and is its own value.
LEMMA FractionParts ==
  ASSUME NEW p \in Fraction
  PROVE  p[1] \in Int /\ p[2] \in Nat /\ p[2] > 0 /\ p = <<p[1], p[2]>> /\ Is(p, p[1], p[2])
  BY Fractions DEF Is

\* What is equal after a multiplication was equal before.
LEMMA Cancel ==
  ASSUME NEW a \in Int, NEW b \in Int, NEW c \in Int, c # 0, a * c = b * c
  PROVE  a = b
<1>1. (a - b) * c = 0
  OBVIOUS
<1>2. a - b = 0
  <2>. DEFINE t == a - b
  <2>1. t \in Int /\ t * c = 0
    BY <1>1
  <2>. HIDE DEF t
  <2>2. t = 0
    BY <2>1
  <2>. QED  BY <2>2 DEF t
<1>. QED  BY <1>2

\* A product of what is not zero is not zero.
LEMMA Factors ==
  ASSUME NEW a \in Int, NEW b \in Int, a # 0, b # 0
  PROVE  a * b \in Int /\ a * b # 0
  OBVIOUS

\* A fraction is known by its value.
LEMMA Unique ==
  ASSUME NEW p \in Fraction, NEW q \in Fraction, p[1] * q[2] = q[1] * p[2]
  PROVE  p = q
<1>. DEFINE a == p[1] b == p[2] c == q[1] d == q[2]
<1>1. a \in Int /\ b \in Nat /\ b > 0 /\ c \in Int /\ d \in Nat /\ d > 0
  BY FractionParts
<1>2. PICK i \in Int, j \in Int : (a * i) + (b * j) = 1
  BY Fractions DEF Coprime
<1>3. PICK k \in Int, l \in Int : (c * k) + (d * l) = 1
  BY Fractions DEF Coprime
<1>4. a * d = c * b
  OBVIOUS
<1>. HIDE DEF a, b, c, d
<1>5. d = b * ((c * i) + (d * j))
  <2>1. d * ((a * i) + (b * j)) = d
    BY <1>1, <1>2
  <2>2. d * ((a * i) + (b * j)) = ((a * d) * i) + (b * (d * j))
    BY <1>1
  <2>3. ((c * b) * i) + (b * (d * j)) = b * ((c * i) + (d * j))
    BY <1>1
  <2>. QED  BY <2>1, <2>2, <2>3, <1>4
<1>6. b = d * ((a * k) + (b * l))
  <2>1. b * ((c * k) + (d * l)) = b
    BY <1>1, <1>3
  <2>2. b * ((c * k) + (d * l)) = ((c * b) * k) + (d * (b * l))
    BY <1>1
  <2>3. ((a * d) * k) + (d * (b * l)) = d * ((a * k) + (b * l))
    BY <1>1
  <2>. QED  BY <2>1, <2>2, <2>3, <1>4
<1>7. b <= d
  <2>. DEFINE t == (c * i) + (d * j)
  <2>1. t \in Int /\ d = b * t
    BY <1>1, <1>5
  <2>. HIDE DEF t
  <2>2. t >= 1
    BY <1>1, <2>1
  <2>3. b * t >= b
    BY <1>1, <2>1, <2>2
  <2>. QED  BY <2>1, <2>3
<1>8. d <= b
  <2>. DEFINE t == (a * k) + (b * l)
  <2>1. t \in Int /\ b = d * t
    BY <1>1, <1>6
  <2>. HIDE DEF t
  <2>2. t >= 1
    BY <1>1, <2>1
  <2>3. d * t >= d
    BY <1>1, <2>1, <2>2
  <2>. QED  BY <2>1, <2>3
<1>9. b = d
  BY <1>1, <1>7, <1>8
<1>10. a = c
  BY <1>1, <1>4, <1>9, Cancel
<1>. QED  BY <1>9, <1>10, FractionParts DEF a, b, c, d

\* The same of a fraction whose value is known.
LEMMA Same ==
  ASSUME NEW p \in Fraction, NEW q \in Fraction,
         NEW a \in Int, NEW b \in Int, b # 0, Is(p, a, b), Is(q, a, b)
  PROVE  p = q
<1>. DEFINE m == p[1] n == p[2] k == q[1] l == q[2]
<1>1. m \in Int /\ n \in Int /\ k \in Int /\ l \in Int
  BY FractionParts
<1>2. m * b = a * n /\ k * b = a * l
  BY DEF Is
<1>. HIDE DEF m, n, k, l
<1>3. (m * l) * b = (k * n) * b
  <2>1. (m * l) * b = (m * b) * l /\ (k * n) * b = (k * b) * n
    BY <1>1
  <2>2. (a * n) * l = (a * l) * n
    BY <1>1
  <2>. QED  BY <1>2, <2>1, <2>2
<1>4. m * l = k * n
  BY <1>1, <1>3, Cancel
<1>. QED  BY <1>4, Unique DEF m, n, k, l

-----------------------------------------------------------------------------
\* Plus returns a fraction, of the value the schoolbook sum has.
LEMMA PlusParts ==
  ASSUME NEW p \in Fraction, NEW q \in Fraction
  PROVE  /\ Plus(p, q) \in Fraction
         /\ Is(Plus(p, q), (p[1] * q[2]) + (q[1] * p[2]), p[2] * q[2])
<1>. DEFINE a == p[1] b == p[2] c == q[1] e == q[2] d == Divisor(b, e)
<1>1. a \in Int /\ b \in Nat /\ b > 0 /\ c \in Int /\ e \in Nat /\ e > 0
  BY FractionParts
<1>2. Common(d, b, e)
  BY <1>1, DivisorIsCommon
<1>3. Plus(p, q) = Frac((a * (e \div d)) + (c * (b \div d)), b * (e \div d))
  BY DEF Plus, PlusOver
<1>. HIDE DEF a, b, c, e, d
<1>4. PICK i \in Nat, j \in Nat : b = d * i /\ e = d * j
  BY <1>2 DEF Common
<1>5. d \in Nat /\ d # 0 /\ j # 0
  BY <1>1, <1>2, <1>4 DEF Common
<1>6. e \div d = j /\ b \div d = i
  BY <1>4, <1>5, Exactly
<1>. DEFINE s == Frac((a * j) + (c * i), b * j)
<1>7. Plus(p, q) = s
  BY <1>3, <1>6
<1>8. (a * j) + (c * i) \in Int /\ b * j \in Int /\ b * j # 0
  BY <1>1, <1>5, Factors
<1>9. s \in Fraction /\ Is(s, (a * j) + (c * i), b * j)
  BY <1>8, FracFits
<1>. DEFINE m == s[1] n == s[2]
<1>10. m \in Int /\ n \in Int /\ m * (b * j) = ((a * j) + (c * i)) * n
  BY <1>9, FractionParts DEF Is
<1>. HIDE DEF s, m, n
<1>11. m * (b * e) = ((a * e) + (c * b)) * n
  <2>1. m * (b * (d * j)) = d * (m * (b * j))
    BY <1>1, <1>5, <1>10
  <2>2. d * (((a * j) + (c * i)) * n) = ((a * (d * j)) + (c * (d * i))) * n
    BY <1>1, <1>5, <1>10
  <2>. QED  BY <1>4, <1>10, <2>1, <2>2
<1>12. Is(s, (a * e) + (c * b), b * e)
  BY <1>11 DEF Is, m, n
<1>. QED  BY <1>7, <1>9, <1>12 DEF a, b, c, e

\* The same for any numbers the two fractions are the quotients of.
LEMMA PlusIs ==
  ASSUME NEW p \in Fraction, NEW q \in Fraction,
         NEW a \in Int, NEW b \in Int, NEW c \in Int, NEW e \in Int,
         Is(p, a, b), Is(q, c, e)
  PROVE  Is(Plus(p, q), (a * e) + (c * b), b * e)
<1>. DEFINE m == p[1] n == p[2] k == q[1] l == q[2]
            s == Plus(p, q) x == s[1] y == s[2]
<1>1. m \in Int /\ n \in Nat /\ n > 0 /\ k \in Int /\ l \in Nat /\ l > 0
  BY FractionParts
<1>2. x \in Int /\ y \in Int
  BY PlusParts, FractionParts
<1>3. m * b = a * n /\ k * e = c * l
  BY DEF Is
<1>4. x * (n * l) = ((m * l) + (k * n)) * y
  BY PlusParts DEF Is
<1>. HIDE DEF m, n, k, l, s, x, y
<1>5. (x * (b * e)) * (n * l) = (((a * e) + (c * b)) * y) * (n * l)
  <2>1. (x * (b * e)) * (n * l) = (x * (n * l)) * (b * e)
    BY <1>1, <1>2
  <2>2. (((m * l) + (k * n)) * y) * (b * e) = ((((m * b) * e) * l) + (((k * e) * b) * n)) * y
    BY <1>1, <1>2
  <2>3. ((((a * n) * e) * l) + (((c * l) * b) * n)) * y = (((a * e) + (c * b)) * y) * (n * l)
    BY <1>1, <1>2
  <2>. QED  BY <2>1, <2>2, <2>3, <1>3, <1>4
<1>6. n * l \in Int /\ n * l # 0
  BY <1>1, Factors
<1>7. x * (b * e) = ((a * e) + (c * b)) * y
  BY <1>1, <1>2, <1>5, <1>6, Cancel
<1>. QED  BY <1>7 DEF Is, x, y, s

\* Minus returns a fraction, of the value the schoolbook difference has.
LEMMA MinusIs ==
  ASSUME NEW p \in Fraction, NEW q \in Fraction,
         NEW a \in Int, NEW b \in Int, NEW c \in Int, NEW e \in Int,
         Is(p, a, b), Is(q, c, e)
  PROVE  /\ Minus(p, q) \in Fraction
         /\ Is(Minus(p, q), (a * e) - (c * b), b * e)
<1>. DEFINE r == <<-q[1], q[2]>>
<1>1. q[1] \in Int /\ q[2] \in Nat /\ q[2] > 0
  BY FractionParts
<1>2. r \in Fraction
  <2>1. PICK i \in Int, j \in Int : (q[1] * i) + (q[2] * j) = 1
    BY Fractions DEF Coprime
  <2>2. ((-q[1]) * (-i)) + (q[2] * j) = 1 /\ -i \in Int
    BY <1>1, <2>1
  <2>. QED  BY <1>1, <2>2, Fractions DEF Coprime
<1>3. Is(r, -c, e) /\ -c \in Int
  <2>1. q[1] * e = c * q[2]
    BY DEF Is
  <2>2. (-q[1]) * e = (-c) * q[2]
    BY <1>1, <2>1
  <2>. QED  BY <2>2 DEF Is
<1>4. Minus(p, q) = Plus(p, r)
  BY DEF Minus
<1>. HIDE DEF r
<1>5. Is(Plus(p, r), (a * e) + ((-c) * b), b * e)
  BY <1>2, <1>3, PlusIs
<1>6. (a * e) + ((-c) * b) = (a * e) - (c * b)
  OBVIOUS
<1>. QED  BY <1>2, <1>4, <1>5, <1>6, PlusParts

\* Factors of coprime numbers are coprime.
LEMMA CoprimeParts ==
  ASSUME NEW a \in Int, NEW b \in Int, NEW k \in Int, NEW l \in Int, Coprime(k * a, l * b)
  PROVE  Coprime(a, b)
<1>1. PICK i \in Int, j \in Int : ((k * a) * i) + ((l * b) * j) = 1
  BY DEF Coprime
<1>2. (a * (k * i)) + (b * (l * j)) = 1 /\ k * i \in Int /\ l * j \in Int
  BY <1>1
<1>. QED  BY <1>2 DEF Coprime

\* To be coprime is mutual.
LEMMA CoprimeSymmetric ==
  ASSUME NEW a \in Int, NEW b \in Int, Coprime(a, b)
  PROVE  Coprime(b, a)
<1>1. PICK i \in Int, j \in Int : (a * i) + (b * j) = 1
  BY DEF Coprime
<1>2. (b * j) + (a * i) = 1
  BY <1>1
<1>. QED  BY <1>2 DEF Coprime

\* A product of numbers coprime to a third is coprime to it.
LEMMA CoprimeProduct ==
  ASSUME NEW a \in Int, NEW b \in Int, NEW c \in Int, Coprime(a, c), Coprime(b, c)
  PROVE  Coprime(a * b, c)
<1>1. PICK i \in Int, j \in Int : (a * i) + (c * j) = 1
  BY DEF Coprime
<1>2. PICK k \in Int, l \in Int : (b * k) + (c * l) = 1
  BY DEF Coprime
<1>3. ((a * i) + (c * j)) * ((b * k) + (c * l)) = 1
  BY <1>1, <1>2
<1>4. ((a * i) + (c * j)) * ((b * k) + (c * l))
        = ((a * b) * (i * k)) + (c * (((a * i) * l) + ((b * k) * j) + ((c * j) * l)))
  OBVIOUS
<1>5. i * k \in Int /\ ((a * i) * l) + ((b * k) * j) + ((c * j) * l) \in Int
  OBVIOUS
<1>. QED  BY <1>3, <1>4, <1>5 DEF Coprime

\* Zero and one are fractions of the values they are named for.
LEMMA ZeroIs ==
  /\ Zero \in Fraction /\ One \in Fraction
  /\ \A b \in Int : Is(Zero, 0, b)
  /\ Is(One, 1, 1)
<1>1. (0 * 0) + (1 * 1) = 1 /\ (1 * 1) + (1 * 0) = 1
  OBVIOUS
<1>. QED  BY <1>1, Fractions DEF Zero, One, Coprime, Is

\* Times returns a fraction, of the value the schoolbook product has, though it reduces
\* crosswise before it multiplies.
LEMMA TimesParts ==
  ASSUME NEW p \in Fraction, NEW q \in Fraction
  PROVE  Times(p, q) \in Fraction /\ Is(Times(p, q), p[1] * q[1], p[2] * q[2])
<1>. DEFINE a == p[1] b == p[2] c == q[1] d == q[2]
<1>1. a \in Int /\ b \in Nat /\ b > 0 /\ c \in Int /\ d \in Nat /\ d > 0
  BY FractionParts
<1>2. CASE a = 0 \/ c = 0
  <2>1. Times(p, q) = Zero
    BY <1>2 DEF Times
  <2>2. a * c = 0 /\ b * d \in Int
    BY <1>1, <1>2
  <2>. QED  BY <2>1, <2>2, ZeroIs
<1>3. CASE a # 0 /\ c # 0
  <2>. DEFINE u == Frac(a, d) v == Frac(c, b)
  <2>1. Times(p, q) = <<u[1] * v[1], u[2] * v[2]>>
    BY <1>3 DEF Times, Crossed
  <2>2. u \in Fraction /\ Is(u, a, d) /\ \E k \in Int : a = k * u[1] /\ d = k * u[2]
    <3>1. a \in Int /\ d \in Int /\ d # 0
      BY <1>1
    <3>. HIDE DEF a, d
    <3>. QED  BY <3>1, FracFits
  <2>3. v \in Fraction /\ Is(v, c, b) /\ \E k \in Int : c = k * v[1] /\ b = k * v[2]
    <3>1. c \in Int /\ b \in Int /\ b # 0
      BY <1>1
    <3>. HIDE DEF b, c
    <3>. QED  BY <3>1, FracFits
  <2>4. Coprime(a, b) /\ Coprime(c, d)
    BY Fractions
  <2>. HIDE DEF a, b, c, d, u, v
  <2>5. PICK k \in Int : a = k * u[1] /\ d = k * u[2]
    BY <2>2
  <2>6. PICK l \in Int : c = l * v[1] /\ b = l * v[2]
    BY <2>3
  <2>. DEFINE m == u[1] n == u[2] x == v[1] y == v[2]
  <2>7. m \in Int /\ n \in Nat /\ n > 0 /\ x \in Int /\ y \in Nat /\ y > 0
    BY <2>2, <2>3, FractionParts
  <2>8. Coprime(m, n) /\ Coprime(x, y)
    BY <2>2, <2>3, Fractions
  <2>9. Coprime(m, y) /\ Coprime(x, n)
    BY <2>4, <2>5, <2>6, <2>7, CoprimeParts
  <2>10. m * d = a * n /\ x * b = c * y
    BY <2>2, <2>3 DEF Is
  <2>. HIDE DEF m, n, x, y
  <2>11. m * x \in Int /\ n * y \in Nat /\ n * y > 0
    BY <2>7
  <2>12. Coprime(m * x, n) /\ Coprime(m * x, y)
    BY <2>7, <2>8, <2>9, CoprimeProduct
  <2>13. Coprime(m * x, n * y)
    <3>1. Coprime(n, m * x) /\ Coprime(y, m * x)
      BY <2>7, <2>11, <2>12, CoprimeSymmetric
    <3>2. Coprime(n * y, m * x)
      BY <2>7, <2>11, <3>1, CoprimeProduct
    <3>. QED  BY <2>7, <2>11, <3>2, CoprimeSymmetric
  <2>14. <<m * x, n * y>> \in Fraction
    BY <2>11, <2>13, Fractions
  <2>15. (m * x) * (b * d) = (a * c) * (n * y)
    <3>1. (m * x) * (b * d) = (m * d) * (x * b)
      BY <1>1, <2>7
    <3>2. (a * n) * (c * y) = (a * c) * (n * y)
      BY <1>1, <2>7
    <3>. QED  BY <2>10, <3>1, <3>2
  <2>. QED  BY <2>1, <2>14, <2>15 DEF Is, m, n, x, y, a, b, c, d
<1>. QED  BY <1>2, <1>3

\* The same for any numbers the two fractions are the quotients of.
LEMMA TimesIs ==
  ASSUME NEW p \in Fraction, NEW q \in Fraction,
         NEW a \in Int, NEW b \in Int, NEW c \in Int, NEW e \in Int,
         Is(p, a, b), Is(q, c, e)
  PROVE  Is(Times(p, q), a * c, b * e)
<1>. DEFINE m == p[1] n == p[2] k == q[1] l == q[2]
            s == Times(p, q) x == s[1] y == s[2]
<1>1. m \in Int /\ n \in Nat /\ n > 0 /\ k \in Int /\ l \in Nat /\ l > 0
  BY FractionParts
<1>2. x \in Int /\ y \in Int
  BY TimesParts, FractionParts
<1>3. m * b = a * n /\ k * e = c * l
  BY DEF Is
<1>4. x * (n * l) = (m * k) * y
  BY TimesParts DEF Is
<1>. HIDE DEF m, n, k, l, s, x, y
<1>5. (x * (b * e)) * (n * l) = ((a * c) * y) * (n * l)
  <2>1. (x * (b * e)) * (n * l) = (x * (n * l)) * (b * e)
    BY <1>1, <1>2
  <2>2. ((m * k) * y) * (b * e) = ((m * b) * (k * e)) * y
    BY <1>1, <1>2
  <2>3. ((a * n) * (c * l)) * y = ((a * c) * y) * (n * l)
    BY <1>1, <1>2
  <2>. QED  BY <2>1, <2>2, <2>3, <1>3, <1>4
<1>6. n * l \in Int /\ n * l # 0
  BY <1>1, Factors
<1>7. x * (b * e) = (a * c) * y
  BY <1>1, <1>2, <1>5, <1>6, Cancel
<1>. QED  BY <1>7 DEF Is, x, y, s

\* Less compares the values.
LEMMA LessIs ==
  ASSUME NEW p \in Fraction, NEW q \in Fraction,
         NEW a \in Int, NEW b \in Int, NEW c \in Int, NEW e \in Int,
         b > 0, e > 0, Is(p, a, b), Is(q, c, e)
  PROVE  Less(p, q) <=> a * e < c * b
<1>. DEFINE m == p[1] n == p[2] k == q[1] l == q[2]
<1>1. m \in Int /\ n \in Nat /\ n > 0 /\ k \in Int /\ l \in Nat /\ l > 0
  BY FractionParts
<1>2. m * b = a * n /\ k * e = c * l
  BY DEF Is
<1>3. Less(p, q) <=> m * l < k * n
  BY DEF Less
<1>. HIDE DEF m, n, k, l
<1>4. ((k * n) - (m * l)) * (b * e) = ((c * b) - (a * e)) * (n * l)
  <2>1. ((k * n) - (m * l)) * (b * e) = ((k * e) * (b * n)) - ((m * b) * (l * e))
    BY <1>1
  <2>2. ((c * l) * (b * n)) - ((a * n) * (l * e)) = ((c * b) - (a * e)) * (n * l)
    BY <1>1
  <2>. QED  BY <1>2, <2>1, <2>2
<1>5. b * e > 0 /\ n * l > 0 /\ b * e \in Int /\ n * l \in Int
  BY <1>1
<1>6. ASSUME NEW s \in Int, NEW t \in Int, NEW x \in Int, NEW y \in Int,
             x > 0, y > 0, s * x = t * y
      PROVE  s > 0 <=> t > 0
  <2>1. s > 0 => s * x > 0
    BY <1>6
  <2>2. t > 0 => t * y > 0
    BY <1>6
  <2>3. s <= 0 => s * x <= 0
    BY <1>6
  <2>4. t <= 0 => t * y <= 0
    BY <1>6
  <2>. QED  BY <1>6, <2>1, <2>2, <2>3, <2>4
<1>7. (k * n) - (m * l) > 0 <=> (c * b) - (a * e) > 0
  BY <1>1, <1>4, <1>5, <1>6
<1>. QED  BY <1>1, <1>3, <1>7

-----------------------------------------------------------------------------
(* The laws of a field. *)
\* Fractions are a group under Plus.
LEMMA PlusLaws ==
  ASSUME NEW p \in Fraction, NEW q \in Fraction, NEW r \in Fraction
  PROVE  /\ Plus(p, q) = Plus(q, p)
         /\ Plus(Plus(p, q), r) = Plus(p, Plus(q, r))
         /\ Plus(p, Zero) = p
         /\ Plus(Minus(p, q), q) = p
         /\ Minus(Plus(p, q), q) = p
         /\ Minus(p, q) = Plus(p, Minus(Zero, q))
<1>. DEFINE a == p[1] b == p[2] c == q[1] d == q[2] e == r[1] f == r[2]
<1>1. /\ a \in Int /\ b \in Int /\ b > 0 /\ c \in Int /\ d \in Int /\ d > 0
      /\ e \in Int /\ f \in Int /\ f > 0
      /\ Is(p, a, b) /\ Is(q, c, d) /\ Is(r, e, f)
  BY FractionParts
<1>. HIDE DEF a, b, c, d, e, f
<1>2. Zero \in Fraction /\ Is(Zero, 0, 1)
  BY ZeroIs
<1>3. /\ b * d \in Int /\ b * d # 0 /\ d * f \in Int /\ d * f # 0
      /\ (a * d) + (c * b) \in Int /\ (c * f) + (e * d) \in Int
      /\ (a * d) - (c * b) \in Int
  BY <1>1
<1>4. Plus(p, q) \in Fraction /\ Is(Plus(p, q), (a * d) + (c * b), b * d)
  BY <1>1, PlusIs, PlusParts
<1>5. Minus(p, q) \in Fraction /\ Is(Minus(p, q), (a * d) - (c * b), b * d)
  BY <1>1, MinusIs
<1>6. Plus(p, q) = Plus(q, p)
  <2>1. Plus(q, p) \in Fraction /\ Is(Plus(q, p), (c * b) + (a * d), d * b)
    BY <1>1, PlusIs, PlusParts
  <2>2. (c * b) + (a * d) = (a * d) + (c * b) /\ d * b = b * d
    BY <1>1
  <2>. QED  BY <1>3, <1>4, <2>1, <2>2, Same
<1>7. Plus(Plus(p, q), r) = Plus(p, Plus(q, r))
  <2>1. Plus(q, r) \in Fraction /\ Is(Plus(q, r), (c * f) + (e * d), d * f)
    BY <1>1, PlusIs, PlusParts
  <2>2. /\ Plus(Plus(p, q), r) \in Fraction
        /\ Is(Plus(Plus(p, q), r), (((a * d) + (c * b)) * f) + (e * (b * d)), (b * d) * f)
    BY <1>1, <1>3, <1>4, PlusIs, PlusParts
  <2>3. /\ Plus(p, Plus(q, r)) \in Fraction
        /\ Is(Plus(p, Plus(q, r)), (a * (d * f)) + (((c * f) + (e * d)) * b), b * (d * f))
    BY <1>1, <1>3, <2>1, PlusIs, PlusParts
  <2>4. /\ (((a * d) + (c * b)) * f) + (e * (b * d)) = (a * (d * f)) + (((c * f) + (e * d)) * b)
        /\ (b * d) * f = b * (d * f)
        /\ (((a * d) + (c * b)) * f) + (e * (b * d)) \in Int
        /\ (b * d) * f \in Int /\ (b * d) * f # 0
    BY <1>1
  <2>. QED  BY <2>2, <2>3, <2>4, Same
<1>8. Plus(p, Zero) = p
  <2>1. Plus(p, Zero) \in Fraction /\ Is(Plus(p, Zero), (a * 1) + (0 * b), b * 1)
    BY <1>1, <1>2, PlusIs, PlusParts
  <2>2. (a * 1) + (0 * b) = a /\ b * 1 = b
    BY <1>1
  <2>. QED  BY <1>1, <2>1, <2>2, Same
<1>9. Plus(Minus(p, q), q) = p
  <2>1. /\ Plus(Minus(p, q), q) \in Fraction
        /\ Is(Plus(Minus(p, q), q), (((a * d) - (c * b)) * d) + (c * (b * d)), (b * d) * d)
    BY <1>1, <1>3, <1>5, PlusIs, PlusParts
  <2>2. (((a * d) - (c * b)) * d) + (c * (b * d)) = a * (d * d) /\ (b * d) * d = b * (d * d)
    BY <1>1
  <2>3. Is(p, a * (d * d), b * (d * d))
    <3>1. p[1] * (b * (d * d)) = (p[1] * b) * (d * d) /\ (a * (d * d)) * p[2] = (a * p[2]) * (d * d)
      BY <1>1, FractionParts
    <3>. QED  BY <1>1, <3>1 DEF Is
  <2>4. a * (d * d) \in Int /\ b * (d * d) \in Int /\ b * (d * d) # 0
    BY <1>1
  <2>. QED  BY <2>1, <2>2, <2>3, <2>4, Same
<1>10. Minus(Plus(p, q), q) = p
  <2>1. /\ Minus(Plus(p, q), q) \in Fraction
        /\ Is(Minus(Plus(p, q), q), (((a * d) + (c * b)) * d) - (c * (b * d)), (b * d) * d)
    BY <1>1, <1>3, <1>4, MinusIs
  <2>2. (((a * d) + (c * b)) * d) - (c * (b * d)) = a * (d * d) /\ (b * d) * d = b * (d * d)
    BY <1>1
  <2>3. Is(p, a * (d * d), b * (d * d))
    <3>1. p[1] * (b * (d * d)) = (p[1] * b) * (d * d) /\ (a * (d * d)) * p[2] = (a * p[2]) * (d * d)
      BY <1>1, FractionParts
    <3>. QED  BY <1>1, <3>1 DEF Is
  <2>4. a * (d * d) \in Int /\ b * (d * d) \in Int /\ b * (d * d) # 0
    BY <1>1
  <2>. QED  BY <2>1, <2>2, <2>3, <2>4, Same
<1>11. Minus(p, q) = Plus(p, Minus(Zero, q))
  <2>1. Minus(Zero, q) \in Fraction /\ Is(Minus(Zero, q), (0 * d) - (c * 1), 1 * d)
    BY <1>1, <1>2, MinusIs
  <2>2. (0 * d) - (c * 1) = -c /\ 1 * d = d /\ -c \in Int
    BY <1>1
  <2>3. /\ Plus(p, Minus(Zero, q)) \in Fraction
        /\ Is(Plus(p, Minus(Zero, q)), (a * d) + ((-c) * b), b * d)
    BY <1>1, <2>1, <2>2, PlusIs, PlusParts
  <2>4. (a * d) + ((-c) * b) = (a * d) - (c * b)
    BY <1>1
  <2>. QED  BY <1>3, <1>5, <2>3, <2>4, Same
<1>. QED  BY <1>6, <1>7, <1>8, <1>9, <1>10, <1>11

\* Times is commutative and associative, and distributes over Plus and Minus.
LEMMA TimesLaws ==
  ASSUME NEW p \in Fraction, NEW q \in Fraction, NEW r \in Fraction
  PROVE  /\ Times(p, q) = Times(q, p)
         /\ Times(Times(p, q), r) = Times(p, Times(q, r))
         /\ Times(p, One) = p
         /\ Times(p, Zero) = Zero
         /\ Times(p, Plus(q, r)) = Plus(Times(p, q), Times(p, r))
         /\ Times(p, Minus(q, r)) = Minus(Times(p, q), Times(p, r))
<1>. DEFINE a == p[1] b == p[2] c == q[1] d == q[2] e == r[1] f == r[2]
<1>1. /\ a \in Int /\ b \in Int /\ b > 0 /\ c \in Int /\ d \in Int /\ d > 0
      /\ e \in Int /\ f \in Int /\ f > 0
      /\ Is(p, a, b) /\ Is(q, c, d) /\ Is(r, e, f)
  BY FractionParts
<1>. HIDE DEF a, b, c, d, e, f
<1>2. One \in Fraction /\ Is(One, 1, 1)
  BY ZeroIs
<1>3. /\ b * d \in Int /\ b * d # 0 /\ d * f \in Int /\ d * f # 0 /\ b * f \in Int
      /\ a * c \in Int /\ c * e \in Int /\ a * e \in Int
      /\ (c * f) + (e * d) \in Int /\ (c * f) - (e * d) \in Int
  BY <1>1
<1>4. Times(p, q) \in Fraction /\ Is(Times(p, q), a * c, b * d)
  BY <1>1, TimesIs, TimesParts
<1>5. Times(p, r) \in Fraction /\ Is(Times(p, r), a * e, b * f)
  BY <1>1, TimesIs, TimesParts
<1>6. Times(p, q) = Times(q, p)
  <2>1. Times(q, p) \in Fraction /\ Is(Times(q, p), c * a, d * b)
    BY <1>1, TimesIs, TimesParts
  <2>2. c * a = a * c /\ d * b = b * d
    BY <1>1
  <2>. QED  BY <1>3, <1>4, <2>1, <2>2, Same
<1>7. Times(Times(p, q), r) = Times(p, Times(q, r))
  <2>1. Times(q, r) \in Fraction /\ Is(Times(q, r), c * e, d * f)
    BY <1>1, TimesIs, TimesParts
  <2>2. /\ Times(Times(p, q), r) \in Fraction
        /\ Is(Times(Times(p, q), r), (a * c) * e, (b * d) * f)
    BY <1>1, <1>3, <1>4, TimesIs, TimesParts
  <2>3. /\ Times(p, Times(q, r)) \in Fraction
        /\ Is(Times(p, Times(q, r)), a * (c * e), b * (d * f))
    BY <1>1, <1>3, <2>1, TimesIs, TimesParts
  <2>4. /\ (a * c) * e = a * (c * e) /\ (b * d) * f = b * (d * f)
        /\ (a * c) * e \in Int /\ (b * d) * f \in Int /\ (b * d) * f # 0
    BY <1>1
  <2>. QED  BY <2>2, <2>3, <2>4, Same
<1>8. Times(p, One) = p
  <2>1. Times(p, One) \in Fraction /\ Is(Times(p, One), a * 1, b * 1)
    BY <1>1, <1>2, TimesIs, TimesParts
  <2>2. a * 1 = a /\ b * 1 = b
    BY <1>1
  <2>. QED  BY <1>1, <2>1, <2>2, Same
<1>9. Times(p, Zero) = Zero
  BY DEF Times, Zero
<1>10. ASSUME NEW s \in Int, NEW t \in Int, NEW x \in Fraction, t # 0, Is(x, s, t)
       PROVE  Is(x, s * b, t * b)
  <2>1. x[1] * t = s * x[2] /\ x[1] \in Int /\ x[2] \in Int
    BY <1>10, FractionParts DEF Is
  <2>2. x[1] * (t * b) = (x[1] * t) * b /\ (s * b) * x[2] = (s * x[2]) * b
    BY <1>1, <2>1
  <2>. QED  BY <2>1, <2>2 DEF Is
<1>11. Times(p, Plus(q, r)) = Plus(Times(p, q), Times(p, r))
  <2>1. Plus(q, r) \in Fraction /\ Is(Plus(q, r), (c * f) + (e * d), d * f)
    BY <1>1, PlusIs, PlusParts
  <2>. DEFINE x == Times(p, Plus(q, r)) y == Plus(Times(p, q), Times(p, r))
              s == a * ((c * f) + (e * d)) t == b * (d * f)
  <2>2. x \in Fraction /\ Is(x, s, t)
    BY <1>1, <1>3, <2>1, TimesIs, TimesParts
  <2>3. y \in Fraction /\ Is(y, ((a * c) * (b * f)) + ((a * e) * (b * d)), (b * d) * (b * f))
    BY <1>3, <1>4, <1>5, PlusIs, PlusParts
  <2>4. /\ ((a * c) * (b * f)) + ((a * e) * (b * d)) = s * b
        /\ (b * d) * (b * f) = t * b
    BY <1>1
  <2>5. s \in Int /\ t \in Int /\ t # 0 /\ s * b \in Int /\ t * b \in Int /\ t * b # 0
    BY <1>1
  <2>. HIDE DEF x, y, s, t
  <2>6. Is(x, s * b, t * b)
    BY <1>10, <2>2, <2>5
  <2>7. x = y
    BY <2>2, <2>3, <2>4, <2>5, <2>6, Same
  <2>. QED  BY <2>7 DEF x, y
<1>12. Times(p, Minus(q, r)) = Minus(Times(p, q), Times(p, r))
  <2>1. Minus(q, r) \in Fraction /\ Is(Minus(q, r), (c * f) - (e * d), d * f)
    BY <1>1, MinusIs
  <2>. DEFINE x == Times(p, Minus(q, r)) y == Minus(Times(p, q), Times(p, r))
              s == a * ((c * f) - (e * d)) t == b * (d * f)
  <2>2. x \in Fraction /\ Is(x, s, t)
    BY <1>1, <1>3, <2>1, TimesIs, TimesParts
  <2>3. y \in Fraction /\ Is(y, ((a * c) * (b * f)) - ((a * e) * (b * d)), (b * d) * (b * f))
    BY <1>3, <1>4, <1>5, MinusIs
  <2>4. /\ ((a * c) * (b * f)) - ((a * e) * (b * d)) = s * b
        /\ (b * d) * (b * f) = t * b
    BY <1>1
  <2>5. s \in Int /\ t \in Int /\ t # 0 /\ s * b \in Int /\ t * b \in Int /\ t * b # 0
    BY <1>1
  <2>. HIDE DEF x, y, s, t
  <2>6. Is(x, s * b, t * b)
    BY <1>10, <2>2, <2>5
  <2>7. x = y
    BY <2>2, <2>3, <2>4, <2>5, <2>6, Same
  <2>. QED  BY <2>7 DEF x, y
<1>. QED  BY <1>6, <1>7, <1>8, <1>9, <1>11, <1>12

\* Sums, differences and products of fractions are fractions.
LEMMA Closed ==
  /\ Zero \in Fraction /\ One \in Fraction
  /\ \A p, q \in Fraction :
       Plus(p, q) \in Fraction /\ Minus(p, q) \in Fraction /\ Times(p, q) \in Fraction
<1>1. ASSUME NEW p \in Fraction, NEW q \in Fraction
      PROVE  Minus(p, q) \in Fraction
  BY FractionParts, MinusIs
<1>. QED  BY <1>1, ZeroIs, PlusParts, TimesParts

\* The whole numbers among the fractions.
LEMMA WholeIs ==
  ASSUME NEW k \in Int
  PROVE  <<k, 1>> \in Fraction /\ Is(<<k, 1>>, k, 1)
<1>1. (k * 0) + (1 * 1) = 1
  OBVIOUS
<1>. QED  BY <1>1, Fractions DEF Coprime, Is

\* Two fractions are equal if their values are.
LEMMA SameValue ==
  ASSUME NEW p \in Fraction, NEW q \in Fraction,
         NEW a \in Int, NEW b \in Int, NEW c \in Int, NEW d \in Int, b # 0, d # 0,
         Is(p, a, b), Is(q, c, d), a * d = c * b
  PROVE  p = q
<1>. DEFINE m == p[1] n == p[2]
<1>1. m \in Int /\ n \in Int /\ m * b = a * n
  BY FractionParts DEF Is
<1>. HIDE DEF m, n
<1>2. (m * d) * b = (c * n) * b
  <2>1. (m * d) * b = (m * b) * d /\ (a * n) * d = (a * d) * n /\ (c * b) * n = (c * n) * b
    BY <1>1
  <2>. QED  BY <1>1, <2>1
<1>3. m * d = c * n
  BY <1>1, <1>2, Cancel
<1>4. Is(p, c, d)
  BY <1>3 DEF Is, m, n
<1>. QED  BY <1>4, Same

\* A sum is below b if and only if what is added to is below the difference.
LEMMA LessShifts ==
  ASSUME NEW p \in Fraction, NEW q \in Fraction, NEW r \in Fraction
  PROVE  Less(Plus(p, q), r) <=> Less(p, Minus(r, q))
<1>. DEFINE a == p[1] b == p[2] c == q[1] d == q[2] e == r[1] f == r[2]
<1>1. /\ a \in Int /\ b \in Int /\ b > 0 /\ c \in Int /\ d \in Int /\ d > 0
      /\ e \in Int /\ f \in Int /\ f > 0
      /\ Is(p, a, b) /\ Is(q, c, d) /\ Is(r, e, f)
  BY FractionParts
<1>. HIDE DEF a, b, c, d, e, f
<1>2. /\ b * d \in Int /\ b * d > 0 /\ f * d \in Int /\ f * d > 0
      /\ (a * d) + (c * b) \in Int /\ (e * d) - (c * f) \in Int
  BY <1>1
<1>3. Plus(p, q) \in Fraction /\ Is(Plus(p, q), (a * d) + (c * b), b * d)
  BY <1>1, PlusIs, PlusParts
<1>4. Minus(r, q) \in Fraction /\ Is(Minus(r, q), (e * d) - (c * f), f * d)
  BY <1>1, MinusIs
<1>5. Less(Plus(p, q), r) <=> ((a * d) + (c * b)) * f < e * (b * d)
  BY <1>1, <1>2, <1>3, LessIs
<1>6. Less(p, Minus(r, q)) <=> a * (f * d) < ((e * d) - (c * f)) * b
  BY <1>1, <1>2, <1>4, LessIs
<1>7. /\ ((a * d) + (c * b)) * f = (a * (f * d)) + ((c * f) * b)
      /\ ((e * d) - (c * f)) * b = (e * (b * d)) - ((c * f) * b)
      /\ a * (f * d) \in Int /\ (c * f) * b \in Int /\ e * (b * d) \in Int
  BY <1>1
<1>. QED  BY <1>5, <1>6, <1>7

\* No fraction is less than itself.
LEMMA LessIrreflexive == \A p \in Fraction : ~Less(p, p)
<1>1. ASSUME NEW p \in Fraction
      PROVE  ~Less(p, p)
  <2>1. p[1] \in Int /\ p[2] \in Nat
    BY FractionParts
  <2>2. p[1] * p[2] \in Int
    BY <2>1
  <2>. QED  BY <2>2 DEF Less
<1>. QED  BY <1>1

\* Over a common denominator the numerators compute.
LEMMA SumOver ==
  ASSUME NEW p \in Fraction, NEW q \in Fraction, NEW a \in Int, NEW b \in Int, NEW D \in Nat \ {0},
         Is(p, a, D), Is(q, b, D)
  PROVE  /\ Is(Plus(p, q), a + b, D) /\ Is(Minus(p, q), a - b, D)
         /\ p = q <=> a = b
         /\ Less(p, q) <=> a < b
<1>1. D \in Int /\ D # 0 /\ D > 0 /\ D * D # 0
  OBVIOUS
<1>2. Plus(p, q) \in Fraction /\ Is(Plus(p, q), (a * D) + (b * D), D * D)
  BY <1>1, PlusIs, PlusParts
<1>3. Minus(p, q) \in Fraction /\ Is(Minus(p, q), (a * D) - (b * D), D * D)
  BY <1>1, MinusIs
<1>4. ASSUME NEW r \in Fraction, NEW c \in Int, Is(r, c * D, D * D)
      PROVE  Is(r, c, D)
  <2>. DEFINE m == r[1] n == r[2]
  <2>1. m \in Int /\ n \in Int
    BY FractionParts
  <2>2. m * (D * D) = (c * D) * n
    BY <1>4 DEF Is
  <2>. HIDE DEF m, n
  <2>3. m * D \in Int /\ c * n \in Int /\ (m * D) * D = (c * n) * D
    BY <2>1, <2>2
  <2>4. m * D = c * n
    BY <1>1, <2>3, Cancel
  <2>. QED  BY <2>4 DEF Is, m, n
<1>5. (a + b) * D = (a * D) + (b * D) /\ (a - b) * D = (a * D) - (b * D)
  BY <1>1
<1>6. Is(Plus(p, q), a + b, D) /\ Is(Minus(p, q), a - b, D)
  BY <1>2, <1>3, <1>4, <1>5
<1>7. a = b => p = q
  BY <1>1, Same
<1>8. p = q => a = b
  <2>1. SUFFICES ASSUME p = q PROVE a = b
    OBVIOUS
  <2>. DEFINE m == p[1] n == p[2]
  <2>2. m \in Int /\ n \in Int /\ n # 0 /\ m * D = a * n /\ m * D = b * n
    BY <2>1, FractionParts DEF Is
  <2>. HIDE DEF m, n
  <2>. QED  BY <2>2, Cancel
<1>9. Less(p, q) <=> a < b
  <2>1. Less(p, q) <=> a * D < b * D
    BY <1>1, LessIs
  <2>2. a * D < b * D <=> a < b
    <3>1. a < b => a * D < b * D
      BY <1>1
    <3>2. b <= a => b * D <= a * D
      BY <1>1
    <3>. QED  BY <3>1, <3>2
  <2>. QED  BY <2>1, <2>2
<1>. QED  BY <1>6, <1>7, <1>8, <1>9

\* A value over a multiple of the denominator.
LEMMA Widened ==
  ASSUME NEW p \in Fraction, NEW a \in Int, NEW D \in Int, NEW k \in Int, Is(p, a, D)
  PROVE  Is(p, a * k, D * k)
<1>. DEFINE m == p[1] n == p[2]
<1>1. m \in Int /\ n \in Int /\ m * D = a * n
  BY FractionParts DEF Is
<1>. HIDE DEF m, n
<1>2. m * (D * k) = (a * k) * n
  BY <1>1
<1>. QED  BY <1>2 DEF Is, m, n

\* Numerators of several fractions over one denominator.
LEMMA Common3 ==
  ASSUME NEW p \in Fraction, NEW q \in Fraction, NEW r \in Fraction
  PROVE  \E D \in Nat \ {0}, a \in Int, b \in Int, c \in Int : Is(p, a, D) /\ Is(q, b, D) /\ Is(r, c, D)
<1>. DEFINE d == p[2] e == q[2] f == r[2]
<1>1. /\ p[1] \in Int /\ q[1] \in Int /\ r[1] \in Int
      /\ d \in Nat \ {0} /\ e \in Nat \ {0} /\ f \in Nat \ {0}
      /\ Is(p, p[1], d) /\ Is(q, q[1], e) /\ Is(r, r[1], f)
  BY FractionParts
<1>. HIDE DEF d, e, f
<1>2. /\ e * f \in Int /\ d * f \in Int /\ d * e \in Int /\ d * (e * f) \in Nat \ {0}
      /\ e * (d * f) = d * (e * f) /\ f * (d * e) = d * (e * f)
  <2>1. e * f \in Nat \ {0}
    BY <1>1
  <2>2. d * (e * f) \in Nat \ {0}
    BY <1>1, <2>1
  <2>. QED  BY <1>1, <2>2
<1>3. /\ Is(p, p[1] * (e * f), d * (e * f))
      /\ Is(q, q[1] * (d * f), e * (d * f))
      /\ Is(r, r[1] * (d * e), f * (d * e))
  <2>1. /\ d \in Int /\ e \in Int /\ f \in Int
        /\ e * f \in Int /\ d * f \in Int /\ d * e \in Int
    BY <1>1, <1>2
  <2>2. Is(p, p[1] * (e * f), d * (e * f))
    BY <1>1, <2>1, Widened
  <2>3. Is(q, q[1] * (d * f), e * (d * f))
    BY <1>1, <2>1, Widened
  <2>4. Is(r, r[1] * (d * e), f * (d * e))
    BY <1>1, <2>1, Widened
  <2>. QED  BY <2>2, <2>3, <2>4
<1>4. /\ p[1] * (e * f) \in Int /\ q[1] * (d * f) \in Int /\ r[1] * (d * e) \in Int
  BY <1>1, <1>2
<1>. QED  BY <1>2, <1>3, <1>4

(* Order. *)
\* Less-than is a strict total order that sums respect.
LEMMA LessLaws ==
  ASSUME NEW p \in Fraction, NEW q \in Fraction, NEW r \in Fraction
  PROVE  /\ Less(p, q) <=> Positive(Minus(q, p))
         /\ Less(q, p) <=> Negative(Minus(q, p))
         /\ Less(p, q) \/ p = q \/ Less(q, p)
         /\ ~(Less(p, q) /\ Less(q, p)) /\ ~Less(p, p)
         /\ Less(p, q) /\ Less(q, r) => Less(p, r)
         /\ Less(p, q) <=> Less(Plus(p, r), Plus(q, r))
         /\ Positive(p) <=> Less(Zero, p)
         /\ Negative(p) <=> Less(p, Zero)
<1>1. PICK D \in Nat \ {0}, a \in Int, b \in Int, c \in Int : Is(p, a, D) /\ Is(q, b, D) /\ Is(r, c, D)
  BY Common3
<1>2. /\ Minus(q, p) \in Fraction /\ Plus(p, r) \in Fraction /\ Plus(q, r) \in Fraction /\ Zero \in Fraction
  BY Closed
<1>3. D \in Int /\ Is(Zero, 0, D) /\ a + c \in Int /\ b + c \in Int /\ b - a \in Int
  BY ZeroIs
<1>4. Is(Minus(q, p), b - a, D) /\ Is(Plus(p, r), a + c, D) /\ Is(Plus(q, r), b + c, D)
  BY <1>1, SumOver
<1>5. ASSUME NEW t \in Fraction
      PROVE  (Positive(t) <=> Less(Zero, t)) /\ (Negative(t) <=> Less(t, Zero))
  <2>1. t[1] \in Int /\ t[2] \in Int
    BY FractionParts
  <2>. QED  BY <2>1 DEF Positive, Negative, Less, Zero
<1>6. (Less(Zero, Minus(q, p)) <=> 0 < b - a) /\ (Less(Minus(q, p), Zero) <=> b - a < 0)
  BY <1>2, <1>3, <1>4, SumOver
<1>7. /\ (Less(p, q) <=> a < b) /\ (Less(q, p) <=> b < a) /\ (p = q <=> a = b)
      /\ (Less(q, r) <=> b < c) /\ (Less(p, r) <=> a < c) /\ (Less(p, p) <=> a < a)
  BY <1>1, SumOver
<1>8. Less(Plus(p, r), Plus(q, r)) <=> a + c < b + c
  BY <1>2, <1>3, <1>4, SumOver
<1>. QED  BY <1>2, <1>5, <1>6, <1>7, <1>8

\* A sum, and a product.
LEMMA SignLaws ==
  ASSUME NEW p \in Fraction, NEW q \in Fraction
  PROVE  /\ Positive(p) /\ ~Negative(q) => Positive(Plus(p, q)) /\ Positive(Plus(q, p))
         /\ ~Negative(p) /\ ~Negative(q) => ~Negative(Plus(p, q))
         /\ Positive(p) /\ Positive(q) => Positive(Times(p, q))
         /\ Positive(p) /\ Positive(Times(p, q)) => Positive(q)
         /\ ~Negative(p) /\ ~Negative(q) => ~Negative(Times(p, q))
         /\ ~Negative(Times(p, p))
         /\ p # Zero => Positive(Times(p, p))
         /\ Positive(p) => ~Negative(p) /\ p # Zero
         /\ ~Negative(p) /\ p # Zero => Positive(p)
<1>. DEFINE a == p[1] b == p[2] c == q[1] d == q[2]
            s == Plus(p, q) t == Times(p, q) w == Times(p, p)
<1>1. a \in Int /\ b \in Nat /\ b > 0 /\ c \in Int /\ d \in Nat /\ d > 0
  BY FractionParts
<1>2. /\ s \in Fraction /\ Is(s, (a * d) + (c * b), b * d) /\ Plus(q, p) = s
      /\ t \in Fraction /\ Is(t, a * c, b * d)
      /\ w \in Fraction /\ Is(w, a * a, b * b)
  BY PlusParts, TimesParts, PlusLaws
<1>3. b * d \in Int /\ b * d > 0 /\ b * b \in Int /\ b * b > 0
  BY <1>1
<1>4. ASSUME NEW r \in Fraction, NEW m \in Int, NEW n \in Int, n > 0, Is(r, m, n)
      PROVE  (Positive(r) <=> m > 0) /\ (Negative(r) <=> m < 0)
  <2>. DEFINE k == r[1] l == r[2]
  <2>1. k \in Int /\ l \in Int /\ l > 0 /\ k * n = m * l
    BY <1>4, FractionParts DEF Is
  <2>. HIDE DEF k, l
  <2>2. (k > 0 <=> k * n > 0) /\ (k < 0 <=> k * n < 0)
    BY <1>4, <2>1
  <2>3. (m > 0 <=> m * l > 0) /\ (m < 0 <=> m * l < 0)
    BY <2>1
  <2>. QED  BY <2>1, <2>2, <2>3 DEF Positive, Negative, k
<1>5. p = Zero <=> a = 0
  <2>1. p = Zero => a = 0
    BY DEF Zero
  <2>2. a = 0 => p[1] * Zero[2] = Zero[1] * p[2]
    BY <1>1 DEF Zero
  <2>. QED  BY <2>1, <2>2, ZeroIs, Unique
<1>6. (Positive(p) <=> a > 0) /\ (Negative(p) <=> a < 0) /\ (Positive(q) <=> c > 0) /\ (Negative(q) <=> c < 0)
  BY DEF Positive, Negative
<1>. HIDE DEF a, b, c, d, s, t, w
<1>7. /\ a * d \in Int /\ c * b \in Int /\ a * c \in Int /\ a * a \in Int
      /\ (a * d) + (c * b) \in Int
  BY <1>1
<1>8. /\ (Positive(s) <=> (a * d) + (c * b) > 0) /\ (Negative(s) <=> (a * d) + (c * b) < 0)
      /\ (Positive(t) <=> a * c > 0) /\ (Negative(t) <=> a * c < 0)
      /\ (Positive(w) <=> a * a > 0) /\ (Negative(w) <=> a * a < 0)
  BY <1>2, <1>3, <1>4, <1>7
<1>9. /\ a > 0 => a * d > 0
      /\ a >= 0 => a * d >= 0
      /\ c >= 0 => c * b >= 0
  BY <1>1
<1>10. /\ a > 0 /\ c > 0 => a * c > 0
       /\ a >= 0 /\ c >= 0 => a * c >= 0
       /\ a > 0 /\ a * c > 0 => c > 0
       /\ a * a >= 0 /\ (a # 0 => a * a > 0)
  BY <1>1
<1>. QED  BY <1>1, <1>2, <1>5, <1>6, <1>7, <1>8, <1>9, <1>10 DEF s, t, w

-----------------------------------------------------------------------------
(* Values over one denominator. *)

\* p is the fraction a / D.
Val(p, a, D) == p \in Fraction /\ a \in Int /\ D \in Nat \ {0} /\ Is(p, a, D)

\* The numerators of a sum and a difference over one denominator.
LEMMA ValSum ==
  ASSUME NEW p, NEW q, NEW a, NEW b, NEW D, Val(p, a, D), Val(q, b, D)
  PROVE  Val(Plus(p, q), a + b, D) /\ Val(Minus(p, q), a - b, D)
<1>1. Is(Plus(p, q), a + b, D) /\ Is(Minus(p, q), a - b, D)
  BY SumOver DEF Val
<1>. QED  BY <1>1, Closed DEF Val

\* The numerator and the denominator of a product.
LEMMA ValTimes ==
  ASSUME NEW p, NEW q, NEW a, NEW b, NEW D, NEW E, Val(p, a, D), Val(q, b, E)
  PROVE  Val(Times(p, q), a * b, D * E)
<1>1. Is(Times(p, q), a * b, D * E)
  BY TimesIs DEF Val
<1>2. a * b \in Int /\ D * E \in Nat \ {0} /\ Times(p, q) \in Fraction
  BY Closed, Factors DEF Val
<1>. QED  BY <1>1, <1>2 DEF Val

\* A value over a multiple of the denominator.
LEMMA ValWide ==
  ASSUME NEW p, NEW a, NEW D, NEW E, Val(p, a, D), E \in Nat \ {0}
  PROVE  Val(p, a * E, D * E)
<1>1. p \in Fraction /\ a \in Int /\ D \in Int /\ E \in Int /\ Is(p, a, D)
  BY DEF Val
<1>2. Is(p, a * E, D * E)
  BY <1>1, Widened
<1>3. a * E \in Int /\ D * E \in Nat \ {0}
  BY Factors DEF Val
<1>. QED  BY <1>2, <1>3 DEF Val

\* Zero and one over any denominator.
LEMMA ValNumbers == \A D \in Nat \ {0} : Val(Zero, 0, D) /\ Val(One, D, D)
<1>1. \A D \in Nat \ {0} : Is(Zero, 0, D) /\ Is(One, D, D)
  BY ZeroIs DEF Is, One
<1>. QED  BY <1>1, ZeroIs DEF Val

\* Over one denominator fractions are equal if and only if their numerators are.
LEMMA ValSame ==
  ASSUME NEW p, NEW q, NEW a, NEW b, NEW D, Val(p, a, D), Val(q, b, D)
  PROVE  p = q <=> a = b
  BY SumOver DEF Val

\* The elements of a tuple are fractions.
Numbers(t) == \A i \in DOMAIN t : t[i] \in Fraction

\* Fractions have numerators over a common denominator.
LEMMA Values ==
  \A n \in Nat : \A f \in [1..n -> Fraction] :
    \E D \in Nat \ {0}, a \in [1..n -> Int] : \A i \in 1..n : Val(f[i], a[i], D)
<1>. DEFINE S == {n \in Nat : \A f \in [1..n -> Fraction] :
                    \E D \in Nat \ {0}, a \in [1..n -> Int] : \A i \in 1..n : Val(f[i], a[i], D)}
<1>1. ASSUME NEW n \in Nat, \A j \in Nat : j < n => j \in S
      PROVE  n \in S
  <2>1. CASE n = 0
    <3>1. \A f \in [1..0 -> Fraction] : [i \in 1..0 |-> 0] \in [1..0 -> Int]
      OBVIOUS
    <3>2. \A f : \A i \in 1..0 : Val(f[i], [j \in 1..0 |-> 0][i], 1)
      OBVIOUS
    <3>3. 1 \in Nat \ {0} /\ [i \in 1..0 |-> 0] \in [1..0 -> Int]
      OBVIOUS
    <3>. QED  BY <2>1, <3>2, <3>3
  <2>2. CASE n # 0
    <3>1. SUFFICES ASSUME NEW f \in [1..n -> Fraction]
                   PROVE  \E D \in Nat \ {0}, a \in [1..n -> Int] : \A i \in 1..n :
                            Val(f[i], a[i], D)
      OBVIOUS
    <3>. DEFINE g == [i \in 1..(n - 1) |-> f[i]]
    <3>2. n - 1 \in Nat /\ n - 1 < n /\ g \in [1..(n - 1) -> Fraction]
      BY <2>2
    <3>. HIDE DEF g
    <3>3. PICK E \in Nat \ {0}, b \in [1..(n - 1) -> Int] : \A i \in 1..(n - 1) :
                 Val(g[i], b[i], E)
      BY <3>2, <1>1
    <3>4. f[n] \in Fraction
      BY <2>2
    <3>5. PICK c \in Int, C \in Nat \ {0} : c = f[n][1] /\ C = f[n][2] /\ Is(f[n], c, C)
      BY <3>4, FractionParts
    <3>. DEFINE a == [i \in 1..n |-> IF i = n THEN c * E ELSE b[i] * C]
    <3>6. E * C \in Nat \ {0} /\ C * E = E * C
      BY Factors
    <3>7. ASSUME NEW i \in 1..n
          PROVE  a[i] \in Int /\ Val(f[i], a[i], E * C)
      <4>1. CASE i = n
        <5>1. Val(f[n], c, C)
          BY <3>4, <3>5 DEF Val
        <5>2. Val(f[n], c * E, C * E)
          BY <5>1, ValWide
        <5>. QED  BY <4>1, <5>2, <3>6
      <4>2. CASE i # n
        <5>1. i \in 1..(n - 1)
          BY <4>2
        <5>2. Val(f[i], b[i], E) /\ b[i] \in Int
          BY <5>1, <3>3 DEF g
        <5>3. Val(f[i], b[i] * C, E * C)
          BY <5>2, ValWide
        <5>. QED  BY <4>2, <5>2, <5>3
      <4>. QED  BY <4>1, <4>2
    <3>8. a \in [1..n -> Int]
      BY <3>7
    <3>. HIDE DEF a
    <3>. QED  BY <3>6, <3>7, <3>8
  <2>. QED  BY <2>1, <2>2
<1>. HIDE DEF S
<1>2. \A n \in Nat : n \in S
  BY <1>1, SetInduction
<1>. QED  BY <1>2 DEF S

\* The powers of a denominator.
LEMMA Powers ==
  ASSUME NEW D \in Nat \ {0}
  PROVE  /\ D * D \in Nat \ {0} /\ D * (D * D) \in Nat \ {0} /\ D * (D * (D * D)) \in Nat \ {0}
         /\ (D * D) * D = D * (D * D) /\ (D * D) * (D * D) = D * (D * (D * D))
         /\ (D * (D * D)) * D = D * (D * (D * D))
<1>1. D * D \in Nat \ {0}
  BY Factors
<1>2. D * (D * D) \in Nat \ {0}
  BY <1>1, Factors
<1>3. D * (D * (D * D)) \in Nat \ {0}
  BY <1>2, Factors
<1>. QED  BY <1>1, <1>2, <1>3

(* Vectors. *)
Vec  == [1..3 -> Fraction]

\* Three by three matrices, as rows.
Mat3 == [1..3 -> Vec]

NullV == <<Zero, Zero, Zero>>

\* A vector of three is its own sequence.
LEMMA VectorIs ==
  ASSUME NEW T, NEW v \in [1..3 -> T]
  PROVE  Vector(v) = v /\ Len(v) = 3
<1>1. v \in Seq(T)
  <2>1. [1..3 -> T] \in {[1..k -> T] : k \in Nat}
    OBVIOUS
  <2>. QED  BY <2>1, SeqDef
<1>2. Len(v) = 3
  <2>1. Len(v) \in Nat /\ DOMAIN v = 1..Len(v) /\ DOMAIN v = 1..3
    BY <1>1, LenProperties
  <2>2. \A k \in Nat : 1..k = 1..3 => k = 3
    <3>1. ASSUME NEW k \in Nat, 1..k = 1..3
          PROVE  k = 3
      <4>1. 3 \in 1..k /\ ~(4 \in 1..k)
        BY <3>1
      <4>. QED  BY <4>1
    <3>. QED  BY <3>1
  <2>. QED  BY <2>1, <2>2
<1>. QED  BY <1>1, <1>2, ConcatEmptySeq DEF Vector

\* Vectors are equal if their elements are.
LEMMA Equal3 ==
  ASSUME NEW T, NEW v \in [1..3 -> T], NEW w \in [1..3 -> T], v[1] = w[1], v[2] = w[2], v[3] = w[3]
  PROVE  v = w
<1>1. \A i \in 1..3 : v[i] = w[i]
  OBVIOUS
<1>. QED  BY <1>1

\* A vector is the tuple of its elements.
LEMMA VecParts ==
  /\ \A v \in Vec : v[1] \in Fraction /\ v[2] \in Fraction /\ v[3] \in Fraction
                    /\ v = <<v[1], v[2], v[3]>>
  /\ \A a, b, c \in Fraction : <<a, b, c>> \in Vec
  /\ NullV \in Vec
<1>1. \A v \in Vec : v[1] \in Fraction /\ v[2] \in Fraction /\ v[3] \in Fraction
  BY DEF Vec
<1>2. \A a, b, c \in Fraction : <<a, b, c>> \in Vec
  BY DEF Vec
<1>3. ASSUME NEW v \in Vec
      PROVE  v = <<v[1], v[2], v[3]>>
  <2>. DEFINE w == <<v[1], v[2], v[3]>>
  <2>1. w \in Vec /\ w[1] = v[1] /\ w[2] = v[2] /\ w[3] = v[3]
    BY <1>1, <1>2
  <2>. HIDE DEF w
  <2>2. v = w
    BY <2>1, Equal3 DEF Vec
  <2>. QED  BY <2>2 DEF w
<1>. QED  BY <1>1, <1>2, <1>3, Closed DEF NullV

\* The total of three is the sum of the three.
LEMMA TotalIs ==
  ASSUME NEW v \in Vec
  PROVE  Total(v) = Plus(Plus(v[1], v[2]), v[3])
<1>. DEFINE F(f) == [i \in 0..3 |-> IF i = 0 THEN Zero ELSE Plus(f[i - 1], v[i])]
            g == [i \in 0..3 |-> IF i = 0 THEN Zero ELSE IF i = 1 THEN v[1]
                                 ELSE IF i = 2 THEN Plus(v[1], v[2]) ELSE Plus(Plus(v[1], v[2]), v[3])]
<1>1. v[1] \in Fraction /\ v[2] \in Fraction /\ v[3] \in Fraction /\ Len(v) = 3
  BY VectorIs DEF Vec
<1>2. Plus(Zero, v[1]) = v[1]
  BY <1>1, PlusLaws, Closed
<1>3. g = F(g)
  <2>1. \A i \in 0..3 : i = 0 \/ i = 1 \/ i = 2 \/ i = 3
    OBVIOUS
  <2>2. g[0] = Zero /\ g[1] = v[1] /\ g[2] = Plus(v[1], v[2]) /\ g[3] = Plus(Plus(v[1], v[2]), v[3])
    OBVIOUS
  <2>3. \A i \in 0..3 : g[i] = IF i = 0 THEN Zero ELSE Plus(g[i - 1], v[i])
    <3>. HIDE DEF g
    <3>. QED  BY <1>2, <2>1, <2>2
  <2>4. g = [i \in 0..3 |-> g[i]]
    OBVIOUS
  <2>. HIDE DEF g
  <2>. QED  BY <2>3, <2>4
<1>4. ASSUME NEW f, f = F(f)
      PROVE  f[3] = Plus(Plus(v[1], v[2]), v[3])
  <2>1. f[0] = Zero
    BY <1>4
  <2>2. f[1] = Plus(f[0], v[1])
    BY <1>4
  <2>3. f[2] = Plus(f[1], v[2])
    BY <1>4
  <2>4. f[3] = Plus(f[2], v[3])
    BY <1>4
  <2>. QED  BY <1>2, <2>1, <2>2, <2>3, <2>4
<1>5. Total(v) = (CHOOSE f : f = F(f))[3]
  BY <1>1 DEF Total
<1>. HIDE DEF g
<1>6. \E f : f = F(f)
  BY <1>3
<1>. QED  BY <1>4, <1>5, <1>6

\* Sums, differences and multiples, element by element.
LEMMA VecOps ==
  ASSUME NEW v \in Vec, NEW w \in Vec, NEW c \in Fraction
  PROVE  /\ VPlus(v, w) \in Vec /\ \A i \in 1..3 : VPlus(v, w)[i] = Plus(v[i], w[i])
         /\ VMinus(v, w) \in Vec /\ \A i \in 1..3 : VMinus(v, w)[i] = Minus(v[i], w[i])
         /\ Scaled(c, v) \in Vec /\ \A i \in 1..3 : Scaled(c, v)[i] = Times(c, v[i])
<1>1. DOMAIN v = 1..3 /\ \A i \in 1..3 : v[i] \in Fraction /\ w[i] \in Fraction
  BY DEF Vec
<1>2. /\ [i \in 1..3 |-> Plus(v[i], w[i])] \in [1..3 -> Fraction]
      /\ [i \in 1..3 |-> Minus(v[i], w[i])] \in [1..3 -> Fraction]
      /\ [i \in 1..3 |-> Times(c, v[i])] \in [1..3 -> Fraction]
  BY <1>1, Closed
<1>3. /\ VPlus(v, w) = [i \in 1..3 |-> Plus(v[i], w[i])]
      /\ VMinus(v, w) = [i \in 1..3 |-> Minus(v[i], w[i])]
      /\ Scaled(c, v) = [i \in 1..3 |-> Times(c, v[i])]
  BY <1>1, <1>2, VectorIs DEF VPlus, VMinus, Scaled
<1>. QED  BY <1>2, <1>3 DEF Vec

\* A scalar product, written out.
LEMMA DotIs ==
  ASSUME NEW v \in Vec, NEW w \in Vec
  PROVE  /\ Dot(v, w) = Plus(Plus(Times(v[1], w[1]), Times(v[2], w[2])), Times(v[3], w[3]))
         /\ Dot(v, w) \in Fraction
<1>. DEFINE t == [i \in 1..3 |-> Times(v[i], w[i])]
<1>1. DOMAIN v = 1..3 /\ \A i \in 1..3 : v[i] \in Fraction /\ w[i] \in Fraction
  BY DEF Vec
<1>2. t \in Vec
  BY <1>1, Closed DEF Vec
<1>3. Dot(v, w) = Total(t)
  BY <1>1, <1>2, VectorIs DEF Dot, Vec
<1>4. t[1] = Times(v[1], w[1]) /\ t[2] = Times(v[2], w[2]) /\ t[3] = Times(v[3], w[3])
  OBVIOUS
<1>5. t[1] \in Fraction /\ t[2] \in Fraction /\ t[3] \in Fraction
  BY <1>2 DEF Vec
<1>. HIDE DEF t
<1>. QED  BY <1>2, <1>3, <1>4, <1>5, TotalIs, Closed

\* The rows and elements of a matrix.
LEMMA MatParts ==
  ASSUME NEW M \in Mat3
  PROVE  /\ DOMAIN M = 1..3 /\ \A i \in 1..3 : M[i] \in Vec
         /\ \A i, j \in 1..3 : M[i][j] \in Fraction
  BY DEF Mat3, Vec

\* Matrices are equal if their elements are.
LEMMA EqualMat ==
  ASSUME NEW M \in Mat3, NEW N \in Mat3, \A i, j \in 1..3 : M[i][j] = N[i][j]
  PROVE  M = N
<1>1. \A i \in 1..3 : M[i] = N[i]
  <2>1. ASSUME NEW i \in 1..3
        PROVE  M[i] = N[i]
    <3>1. M[i] \in [1..3 -> Fraction] /\ N[i] \in [1..3 -> Fraction]
      BY MatParts DEF Vec
    <3>. QED  BY <3>1
  <2>. QED  BY <2>1
<1>. QED  BY <1>1 DEF Mat3

\* Matrices applied, transposed and multiplied, element by element.
LEMMA ApplyIs ==
  ASSUME NEW M \in Mat3, NEW v \in Vec
  PROVE  Apply(M, v) \in Vec /\ \A i \in 1..3 : Apply(M, v)[i] = Dot(M[i], v)
<1>1. DOMAIN M = 1..3 /\ \A i \in 1..3 : Dot(M[i], v) \in Fraction
  BY MatParts, DotIs
<1>2. [i \in 1..3 |-> Dot(M[i], v)] \in [1..3 -> Fraction]
  BY <1>1
<1>3. Apply(M, v) = [i \in 1..3 |-> Dot(M[i], v)]
  BY <1>1, <1>2, VectorIs DEF Apply
<1>. QED  BY <1>2, <1>3 DEF Vec

\* The transpose swaps rows and columns, and is undone by another.
LEMMA TransposeIs ==
  ASSUME NEW M \in Mat3
  PROVE  /\ Transpose(M) \in Mat3 /\ \A i, j \in 1..3 : Transpose(M)[i][j] = M[j][i]
         /\ Transpose(Transpose(M)) = M
<1>1. ASSUME NEW T \in Mat3
      PROVE  Transpose(T) \in Mat3 /\ \A i, j \in 1..3 : Transpose(T)[i][j] = T[j][i]
  <2>1. ASSUME NEW i \in 1..3
        PROVE  /\ [j \in 1..3 |-> T[j][i]] \in [1..3 -> Fraction]
               /\ Vector([j \in 1..3 |-> T[j][i]]) = [j \in 1..3 |-> T[j][i]]
    <3>1. [j \in 1..3 |-> T[j][i]] \in [1..3 -> Fraction]
      BY MatParts
    <3>. QED  BY <3>1, VectorIs
  <2>2. [i \in 1..3 |-> Vector([j \in 1..3 |-> T[j][i]])] \in [1..3 -> Vec]
    BY <2>1 DEF Vec
  <2>3. Transpose(T) = [i \in 1..3 |-> Vector([j \in 1..3 |-> T[j][i]])]
    BY <2>2, VectorIs DEF Transpose
  <2>. QED  BY <2>1, <2>2, <2>3 DEF Mat3
<1>2. Transpose(Transpose(M)) = M
  <2>. DEFINE T == Transpose(M)
  <2>1. T \in Mat3 /\ \A i, j \in 1..3 : T[i][j] = M[j][i]
    BY <1>1
  <2>. HIDE DEF T
  <2>2. Transpose(T) \in Mat3 /\ \A i, j \in 1..3 : Transpose(T)[i][j] = M[i][j]
    BY <1>1, <2>1
  <2>3. Transpose(T) = M
    BY <2>2, EqualMat
  <2>. QED  BY <2>3 DEF T
<1>. QED  BY <1>1, <1>2

\* The elements of a product are the scalar products of rows and columns.
LEMMA ProductIs ==
  ASSUME NEW M \in Mat3, NEW N \in Mat3
  PROVE  /\ Product(M, N) \in Mat3
         /\ \A i, j \in 1..3 : Product(M, N)[i][j] = Dot(M[i], Transpose(N)[j])
<1>. DEFINE C == Transpose(N)
<1>1. C \in Mat3
  BY TransposeIs
<1>2. Product(M, N) = Vector([i \in 1..3 |-> Vector([j \in 1..3 |-> Dot(M[i], C[j])])])
  BY DEF Product
<1>. HIDE DEF C
<1>3. ASSUME NEW i \in 1..3
      PROVE  /\ [j \in 1..3 |-> Dot(M[i], C[j])] \in [1..3 -> Fraction]
             /\ Vector([j \in 1..3 |-> Dot(M[i], C[j])]) = [j \in 1..3 |-> Dot(M[i], C[j])]
  <2>1. M[i] \in Vec /\ \A j \in 1..3 : C[j] \in Vec
    BY <1>1, MatParts
  <2>2. [j \in 1..3 |-> Dot(M[i], C[j])] \in [1..3 -> Fraction]
    BY <2>1, DotIs
  <2>. QED  BY <2>2, VectorIs
<1>4. [i \in 1..3 |-> Vector([j \in 1..3 |-> Dot(M[i], C[j])])] \in [1..3 -> Vec]
  BY <1>3 DEF Vec
<1>5. Product(M, N) = [i \in 1..3 |-> Vector([j \in 1..3 |-> Dot(M[i], C[j])])]
  BY <1>2, <1>4, VectorIs
<1>. QED  BY <1>3, <1>4, <1>5 DEF Mat3, C

(* Scalar products. *)
\* Two sums added term by term.
LEMMA Exchange ==
  ASSUME NEW a \in Fraction, NEW b \in Fraction, NEW c \in Fraction, NEW d \in Fraction
  PROVE  Plus(Plus(a, b), Plus(c, d)) = Plus(Plus(a, c), Plus(b, d))
<1>1. Plus(c, d) \in Fraction /\ Plus(b, d) \in Fraction
  BY Closed
<1>2. Plus(Plus(a, b), Plus(c, d)) = Plus(a, Plus(b, Plus(c, d)))
  BY <1>1, PlusLaws
<1>3. Plus(b, Plus(c, d)) = Plus(Plus(b, c), d) /\ Plus(b, c) = Plus(c, b)
  BY PlusLaws
<1>4. Plus(Plus(c, b), d) = Plus(c, Plus(b, d))
  BY PlusLaws
<1>5. Plus(a, Plus(c, Plus(b, d))) = Plus(Plus(a, c), Plus(b, d))
  BY <1>1, PlusLaws
<1>. QED  BY <1>2, <1>3, <1>4, <1>5

\* What is left when one summand is known.
LEMMA Transposed ==
  ASSUME NEW p \in Fraction, NEW q \in Fraction, NEW r \in Fraction, p = Plus(q, r)
  PROVE  q = Minus(p, r) /\ r = Minus(p, q)
<1>1. Minus(Plus(q, r), r) = q /\ Minus(Plus(r, q), q) = r /\ Plus(q, r) = Plus(r, q)
  BY PlusLaws
<1>. QED  BY <1>1

\* A scalar product is symmetric, and linear on either side.
LEMMA DotLaws ==
  ASSUME NEW v \in Vec, NEW u \in Vec, NEW w \in Vec, NEW c \in Fraction
  PROVE  /\ Dot(v, w) = Dot(w, v) /\ Dot(v, w) \in Fraction
         /\ Dot(v, VPlus(u, w)) = Plus(Dot(v, u), Dot(v, w))
         /\ Dot(VPlus(u, w), v) = Plus(Dot(u, v), Dot(w, v))
         /\ Dot(v, VMinus(u, w)) = Minus(Dot(v, u), Dot(v, w))
         /\ Dot(VMinus(u, w), v) = Minus(Dot(u, v), Dot(w, v))
         /\ Dot(v, Scaled(c, w)) = Times(c, Dot(v, w))
         /\ Dot(Scaled(c, w), v) = Times(c, Dot(w, v))
<1>1. ASSUME NEW a \in Vec, NEW b \in Vec
      PROVE  Dot(a, b) = Dot(b, a)
  <2>1. \A i \in 1..3 : Times(a[i], b[i]) = Times(b[i], a[i])
    BY TimesLaws DEF Vec
  <2>. QED  BY <2>1, DotIs
<1>2. ASSUME NEW a \in Vec, NEW b \in Vec, NEW d \in Vec
      PROVE  Dot(a, VPlus(b, d)) = Plus(Dot(a, b), Dot(a, d))
  <2>. DEFINE b1 == Times(a[1], b[1]) b2 == Times(a[2], b[2]) b3 == Times(a[3], b[3])
              d1 == Times(a[1], d[1]) d2 == Times(a[2], d[2]) d3 == Times(a[3], d[3])
  <2>1. /\ a[1] \in Fraction /\ a[2] \in Fraction /\ a[3] \in Fraction
        /\ b[1] \in Fraction /\ b[2] \in Fraction /\ b[3] \in Fraction
        /\ d[1] \in Fraction /\ d[2] \in Fraction /\ d[3] \in Fraction
    BY VecParts
  <2>2. /\ b1 \in Fraction /\ b2 \in Fraction /\ b3 \in Fraction
        /\ d1 \in Fraction /\ d2 \in Fraction /\ d3 \in Fraction
    BY <2>1, Closed
  <2>3. /\ Times(a[1], Plus(b[1], d[1])) = Plus(b1, d1)
        /\ Times(a[2], Plus(b[2], d[2])) = Plus(b2, d2)
        /\ Times(a[3], Plus(b[3], d[3])) = Plus(b3, d3)
    <3>1. \A x, y, z \in Fraction : Times(x, Plus(y, z)) = Plus(Times(x, y), Times(x, z))
      BY TimesLaws
    <3>. QED  BY <2>1, <3>1
  <2>4. Dot(a, VPlus(b, d)) = Plus(Plus(Times(a[1], Plus(b[1], d[1])), Times(a[2], Plus(b[2], d[2]))),
                                   Times(a[3], Plus(b[3], d[3])))
    <3>1. VPlus(b, d) \in Vec /\ VPlus(b, d)[1] = Plus(b[1], d[1]) /\ VPlus(b, d)[2] = Plus(b[2], d[2])
          /\ VPlus(b, d)[3] = Plus(b[3], d[3])
      BY VecOps, Closed
    <3>. QED  BY <3>1, DotIs
  <2>5. Dot(a, b) = Plus(Plus(b1, b2), b3) /\ Dot(a, d) = Plus(Plus(d1, d2), d3)
    BY DotIs
  <2>. HIDE DEF b1, b2, b3, d1, d2, d3
  <2>6. Plus(Plus(b1, d1), Plus(b2, d2)) = Plus(Plus(b1, b2), Plus(d1, d2))
    BY <2>2, Exchange
  <2>7. Plus(b1, b2) \in Fraction /\ Plus(d1, d2) \in Fraction
    BY <2>2, Closed
  <2>8. Plus(Plus(Plus(b1, b2), Plus(d1, d2)), Plus(b3, d3))
          = Plus(Plus(Plus(b1, b2), b3), Plus(Plus(d1, d2), d3))
    BY <2>2, <2>7, Exchange
  <2>. QED  BY <2>3, <2>4, <2>5, <2>6, <2>8
<1>3. ASSUME NEW a \in Vec, NEW b \in Vec, NEW k \in Fraction
      PROVE  Dot(a, Scaled(k, b)) = Times(k, Dot(a, b))
  <2>. DEFINE b1 == Times(a[1], b[1]) b2 == Times(a[2], b[2]) b3 == Times(a[3], b[3])
  <2>1. /\ a[1] \in Fraction /\ a[2] \in Fraction /\ a[3] \in Fraction
        /\ b[1] \in Fraction /\ b[2] \in Fraction /\ b[3] \in Fraction
    BY VecParts
  <2>2. b1 \in Fraction /\ b2 \in Fraction /\ b3 \in Fraction
    BY <2>1, Closed
  <2>3. ASSUME NEW x \in Fraction, NEW y \in Fraction
        PROVE  Times(x, Times(k, y)) = Times(k, Times(x, y))
    <3>1. Times(Times(x, k), y) = Times(x, Times(k, y)) /\ Times(x, k) = Times(k, x)
          /\ Times(Times(k, x), y) = Times(k, Times(x, y))
      BY TimesLaws
    <3>. QED  BY <3>1
  <2>4. Dot(a, Scaled(k, b)) = Plus(Plus(Times(k, b1), Times(k, b2)), Times(k, b3))
    <3>1. Scaled(k, b) \in Vec /\ Scaled(k, b)[1] = Times(k, b[1]) /\ Scaled(k, b)[2] = Times(k, b[2])
          /\ Scaled(k, b)[3] = Times(k, b[3])
      BY VecOps
    <3>. QED  BY <2>1, <2>3, <3>1, DotIs
  <2>5. Dot(a, b) = Plus(Plus(b1, b2), b3)
    BY DotIs
  <2>. HIDE DEF b1, b2, b3
  <2>6. Plus(b1, b2) \in Fraction
    BY <2>2, Closed
  <2>7. Times(k, Plus(Plus(b1, b2), b3)) = Plus(Times(k, Plus(b1, b2)), Times(k, b3))
    BY <2>2, <2>6, TimesLaws
  <2>8. Times(k, Plus(b1, b2)) = Plus(Times(k, b1), Times(k, b2))
    BY <2>2, TimesLaws
  <2>. QED  BY <2>4, <2>5, <2>7, <2>8
<1>4. ASSUME NEW a \in Vec, NEW b \in Vec, NEW d \in Vec
      PROVE  Dot(a, VMinus(b, d)) = Minus(Dot(a, b), Dot(a, d))
  <2>. DEFINE e == VMinus(b, d)
  <2>1. e \in Vec /\ \A i \in 1..3 : e[i] = Minus(b[i], d[i])
    BY VecOps, Closed
  <2>. HIDE DEF e
  <2>2. VPlus(e, d) \in Vec /\ \A i \in 1..3 : VPlus(e, d)[i] = b[i]
    <3>1. \A i \in 1..3 : Plus(Minus(b[i], d[i]), d[i]) = b[i]
      BY PlusLaws DEF Vec
    <3>. QED  BY <2>1, <3>1, VecOps, Closed
  <2>3. VPlus(e, d) = b
    BY <2>2, Equal3 DEF Vec
  <2>4. Dot(a, b) = Plus(Dot(a, e), Dot(a, d))
    BY <1>2, <2>1, <2>3
  <2>5. Dot(a, b) \in Fraction /\ Dot(a, e) \in Fraction /\ Dot(a, d) \in Fraction
    BY <2>1, DotIs
  <2>6. Dot(a, e) = Minus(Dot(a, b), Dot(a, d))
    BY <2>4, <2>5, Transposed
  <2>. QED  BY <2>6 DEF e
<1>5. VPlus(u, w) \in Vec /\ VMinus(u, w) \in Vec /\ Scaled(c, w) \in Vec
  BY VecOps
<1>. QED  BY <1>1, <1>2, <1>3, <1>4, <1>5, DotIs

(* Linear maps. *)
\* A matrix is linear.
LEMMA ApplyLaws ==
  ASSUME NEW M \in Mat3, NEW v \in Vec, NEW w \in Vec, NEW c \in Fraction
  PROVE  /\ Apply(M, VPlus(v, w)) = VPlus(Apply(M, v), Apply(M, w))
         /\ Apply(M, VMinus(v, w)) = VMinus(Apply(M, v), Apply(M, w))
         /\ Apply(M, Scaled(c, v)) = Scaled(c, Apply(M, v))
<1>. DEFINE a == Apply(M, v) b == Apply(M, w)
<1>1. /\ a \in Vec /\ b \in Vec /\ VPlus(v, w) \in Vec /\ VMinus(v, w) \in Vec /\ Scaled(c, v) \in Vec
  BY ApplyIs, VecOps
<1>2. /\ \A i \in 1..3 : a[i] = Dot(M[i], v) /\ b[i] = Dot(M[i], w)
  BY ApplyIs
<1>. HIDE DEF a, b
<1>3. /\ VPlus(a, b) \in Vec /\ \A i \in 1..3 : VPlus(a, b)[i] = Plus(a[i], b[i])
      /\ VMinus(a, b) \in Vec /\ \A i \in 1..3 : VMinus(a, b)[i] = Minus(a[i], b[i])
      /\ Scaled(c, a) \in Vec /\ \A i \in 1..3 : Scaled(c, a)[i] = Times(c, a[i])
  BY <1>1, VecOps
<1>4. \A i \in 1..3 : /\ Dot(M[i], VPlus(v, w)) = Plus(Dot(M[i], v), Dot(M[i], w))
                      /\ Dot(M[i], VMinus(v, w)) = Minus(Dot(M[i], v), Dot(M[i], w))
                      /\ Dot(M[i], Scaled(c, v)) = Times(c, Dot(M[i], v))
  BY MatParts, DotLaws
<1>5. /\ Apply(M, VPlus(v, w)) \in Vec /\ \A i \in 1..3 : Apply(M, VPlus(v, w))[i] = VPlus(a, b)[i]
  BY <1>1, <1>2, <1>3, <1>4, ApplyIs
<1>6. /\ Apply(M, VMinus(v, w)) \in Vec /\ \A i \in 1..3 : Apply(M, VMinus(v, w))[i] = VMinus(a, b)[i]
  BY <1>1, <1>2, <1>3, <1>4, ApplyIs
<1>7. /\ Apply(M, Scaled(c, v)) \in Vec /\ \A i \in 1..3 : Apply(M, Scaled(c, v))[i] = Scaled(c, a)[i]
  BY <1>1, <1>2, <1>3, <1>4, ApplyIs
<1>. QED  BY <1>3, <1>5, <1>6, <1>7, Equal3 DEF Vec, a, b

\* A matrix goes to the other side of a scalar product as its transpose.
LEMMA Adjoint ==
  ASSUME NEW M \in Mat3, NEW v \in Vec, NEW w \in Vec
  PROVE  /\ Dot(v, Apply(M, w)) = Dot(Apply(Transpose(M), v), w)
         /\ Dot(v, Apply(Transpose(M), w)) = Dot(Apply(M, v), w)
<1>1. ASSUME NEW T \in Mat3
      PROVE  Dot(v, Apply(T, w)) = Dot(Apply(Transpose(T), v), w)
  <2>. DEFINE a == Scaled(v[1], T[1]) b == Scaled(v[2], T[2]) c == Scaled(v[3], T[3])
              s == VPlus(VPlus(a, b), c)
              N == Transpose(T)
  <2>1. /\ v[1] \in Fraction /\ v[2] \in Fraction /\ v[3] \in Fraction
        /\ T[1] \in Vec /\ T[2] \in Vec /\ T[3] \in Vec
    BY VecParts, MatParts
  <2>2. /\ a \in Vec /\ \A j \in 1..3 : a[j] = Times(v[1], T[1][j])
        /\ b \in Vec /\ \A j \in 1..3 : b[j] = Times(v[2], T[2][j])
        /\ c \in Vec /\ \A j \in 1..3 : c[j] = Times(v[3], T[3][j])
    <3>1. \A k \in Fraction, x \in Vec : Scaled(k, x) \in Vec /\ \A j \in 1..3 : Scaled(k, x)[j] = Times(k, x[j])
      BY VecOps
    <3>. QED  BY <2>1, <3>1
  <2>3. N \in Mat3 /\ \A i, j \in 1..3 : N[i][j] = T[j][i]
    BY TransposeIs
  <2>4. /\ Dot(a, w) = Times(v[1], Dot(T[1], w))
        /\ Dot(b, w) = Times(v[2], Dot(T[2], w))
        /\ Dot(c, w) = Times(v[3], Dot(T[3], w))
    BY <2>1, DotLaws
  <2>. HIDE DEF a, b, c, N
  <2>5. VPlus(a, b) \in Vec /\ s \in Vec
        /\ \A j \in 1..3 : s[j] = Plus(Plus(a[j], b[j]), c[j])
    <3>1. VPlus(a, b) \in Vec /\ \A j \in 1..3 : VPlus(a, b)[j] = Plus(a[j], b[j])
      BY <2>2, VecOps, Closed
    <3>2. s \in Vec /\ \A j \in 1..3 : s[j] = Plus(VPlus(a, b)[j], c[j])
      BY <2>2, <3>1, VecOps, Closed
    <3>. QED  BY <3>1, <3>2
  <2>6. Apply(N, v) \in Vec /\ \A j \in 1..3 : Apply(N, v)[j] = s[j]
    <3>1. ASSUME NEW j \in 1..3
          PROVE  Apply(N, v)[j] = s[j]
      <4>1. N[j] \in Vec /\ N[j][1] = T[1][j] /\ N[j][2] = T[2][j] /\ N[j][3] = T[3][j]
        BY <2>3, MatParts
      <4>2. Apply(N, v)[j] = Dot(N[j], v)
        BY <2>3, ApplyIs
      <4>3. Dot(N[j], v) = Dot(v, N[j])
        BY <4>1, DotLaws, Closed
      <4>4. Dot(v, N[j]) = Plus(Plus(Times(v[1], N[j][1]), Times(v[2], N[j][2])), Times(v[3], N[j][3]))
        BY <4>1, DotIs
      <4>. QED  BY <2>2, <2>5, <4>1, <4>2, <4>3, <4>4
    <3>. QED  BY <2>3, <3>1, ApplyIs
  <2>7. Apply(N, v) = s
    BY <2>5, <2>6, Equal3 DEF Vec
  <2>8. Dot(s, w) = Plus(Plus(Dot(a, w), Dot(b, w)), Dot(c, w))
    <3>1. Dot(s, w) = Plus(Dot(VPlus(a, b), w), Dot(c, w))
      BY <2>2, <2>5, DotLaws, Closed
    <3>2. Dot(VPlus(a, b), w) = Plus(Dot(a, w), Dot(b, w))
      BY <2>2, DotLaws, Closed
    <3>. QED  BY <3>1, <3>2
  <2>9. Dot(v, Apply(T, w)) = Plus(Plus(Times(v[1], Dot(T[1], w)), Times(v[2], Dot(T[2], w))),
                                   Times(v[3], Dot(T[3], w)))
    BY ApplyIs, DotIs
  <2>. QED  BY <2>4, <2>7, <2>8, <2>9 DEF N
<1>. QED  BY <1>1, TransposeIs

\* A product of matrices applies one after the other.
LEMMA ProductApply ==
  ASSUME NEW M \in Mat3, NEW N \in Mat3, NEW v \in Vec
  PROVE  Apply(Product(M, N), v) = Apply(M, Apply(N, v))
<1>. DEFINE C == Transpose(N) Q == Product(M, N) w == Apply(N, v)
<1>1. C \in Mat3 /\ Q \in Mat3 /\ w \in Vec /\ \A i, j \in 1..3 : Q[i][j] = Dot(M[i], C[j])
  BY TransposeIs, ProductIs, ApplyIs
<1>2. \A i \in 1..3 : Dot(M[i], w) = Dot(Apply(C, M[i]), v)
  BY MatParts, Adjoint
<1>. HIDE DEF C, Q, w
<1>3. ASSUME NEW i \in 1..3
      PROVE  Q[i] = Apply(C, M[i])
  <2>1. M[i] \in Vec /\ Q[i] \in Vec
    BY <1>1, MatParts
  <2>2. Apply(C, M[i]) \in Vec /\ \A j \in 1..3 : Apply(C, M[i])[j] = Dot(C[j], M[i])
    BY <1>1, <2>1, ApplyIs
  <2>3. \A j \in 1..3 : Dot(C[j], M[i]) = Dot(M[i], C[j])
    BY <1>1, <2>1, MatParts, DotLaws, Closed, ZenonT(60)
  <2>4. \A j \in 1..3 : Q[i][j] = Apply(C, M[i])[j]
    BY <1>1, <2>2, <2>3
  <2>. QED  BY <2>1, <2>2, <2>4, Equal3 DEF Vec
<1>4. Apply(Q, v) \in Vec /\ Apply(M, w) \in Vec
      /\ \A i \in 1..3 : Apply(Q, v)[i] = Apply(M, w)[i]
  BY <1>1, <1>2, <1>3, ApplyIs
<1>5. Apply(Q, v) = Apply(M, w)
  BY <1>4, Equal3 DEF Vec
<1>. QED  BY <1>5 DEF Q, w

-----------------------------------------------------------------------------
(* Quotients, cross products and determinants. *)

\* A quotient is what the divisor has to be multiplied with.
LEMMA OverIs ==
  ASSUME NEW p \in Fraction, NEW q \in Fraction, q # Zero
  PROVE  /\ Over(p, q) \in Fraction /\ Times(q, Over(p, q)) = p
         /\ \A x \in Fraction : Times(q, x) = p => x = Over(p, q)
<1>. DEFINE r == Frac(q[2], q[1])
<1>1. q[1] \in Int /\ q[2] \in Int /\ q[1] # 0 /\ q[2] # 0 /\ Is(q, q[1], q[2])
  <2>1. q[1] = 0 => q[1] * Zero[2] = Zero[1] * q[2]
    BY FractionParts DEF Zero
  <2>. QED  BY <2>1, FractionParts, ZeroIs, Unique
<1>2. r \in Fraction /\ Is(r, q[2], q[1])
  BY <1>1, FracFits
<1>3. Over(p, q) = Times(p, r)
  BY DEF Over
<1>. HIDE DEF r
<1>4. Times(q, r) = One
  <2>1. Is(Times(q, r), q[1] * q[2], q[2] * q[1])
    BY <1>1, <1>2, TimesIs
  <2>2. Times(q, r) \in Fraction /\ One \in Fraction /\ q[2] * q[1] \in Int /\ q[2] * q[1] # 0
        /\ q[1] * q[2] \in Int /\ (q[1] * q[2]) * 1 = 1 * (q[2] * q[1])
    BY <1>1, <1>2, Closed, Factors
  <2>. QED  BY <2>1, <2>2, ZeroIs, SameValue
<1>5. Times(q, Times(p, r)) = p
  <2>1. Times(p, r) = Times(r, p) /\ Times(Times(q, r), p) = Times(q, Times(r, p))
    BY <1>2, TimesLaws
  <2>2. Times(One, p) = Times(p, One) /\ Times(p, One) = p
    BY Closed, TimesLaws
  <2>. QED  BY <1>4, <2>1, <2>2
<1>6. ASSUME NEW x \in Fraction, Times(q, x) = p
      PROVE  x = Over(p, q)
  <2>1. Times(q, x) = Times(x, q) /\ Times(Times(x, q), r) = Times(x, Times(q, r)) /\ Times(x, One) = x
    BY <1>2, TimesLaws
  <2>. QED  BY <1>3, <1>4, <1>6, <2>1
<1>. QED  BY <1>2, <1>3, <1>5, <1>6, Closed

\* Numerators of the elements of vectors over one denominator.
NumVec == [1..3 -> Int]

Holds(v, n, D) == Is(v[1], n[1], D) /\ Is(v[2], n[2], D) /\ Is(v[3], n[3], D)

\* Every vector has numerators over some denominator.
LEMMA NumeratorsOne ==
  ASSUME NEW v \in Vec
  PROVE  \E D \in Nat \ {0}, n \in NumVec : Holds(v, n, D)
<1>1. v[1] \in Fraction /\ v[2] \in Fraction /\ v[3] \in Fraction
  BY VecParts
<1>2. PICK D \in Nat \ {0}, a \in Int, b \in Int, c \in Int : Is(v[1], a, D) /\ Is(v[2], b, D) /\ Is(v[3], c, D)
  BY <1>1, Common3
<1>3. <<a, b, c>> \in NumVec /\ Holds(v, <<a, b, c>>, D)
  BY <1>2 DEF NumVec, Holds
<1>. QED  BY <1>3

\* And over every multiple of it.
LEMMA WidenedVec ==
  ASSUME NEW v \in Vec, NEW n \in NumVec, NEW D \in Int, NEW k \in Int, Holds(v, n, D)
  PROVE  \E m \in NumVec : Holds(v, m, D * k)
<1>. DEFINE m == [i \in 1..3 |-> n[i] * k]
<1>1. n[1] \in Int /\ n[2] \in Int /\ n[3] \in Int /\ v[1] \in Fraction /\ v[2] \in Fraction /\ v[3] \in Fraction
  BY VecParts DEF NumVec
<1>2. Is(v[1], n[1] * k, D * k) /\ Is(v[2], n[2] * k, D * k) /\ Is(v[3], n[3] * k, D * k)
  BY <1>1, Widened DEF Holds
<1>3. m \in NumVec /\ m[1] = n[1] * k /\ m[2] = n[2] * k /\ m[3] = n[3] * k
  BY DEF NumVec
<1>. HIDE DEF m
<1>. QED  BY <1>2, <1>3 DEF Holds

\* Four vectors have numerators over one denominator.
LEMMA Numerators ==
  ASSUME NEW a \in Vec, NEW b \in Vec, NEW c \in Vec, NEW v \in Vec
  PROVE  \E D \in Nat \ {0}, k \in NumVec, l \in NumVec, m \in NumVec, n \in NumVec :
           Holds(a, k, D) /\ Holds(b, l, D) /\ Holds(c, m, D) /\ Holds(v, n, D)
<1>1. ASSUME NEW x \in Vec, NEW y \in Vec
      PROVE  \E D \in Nat \ {0}, k \in NumVec, l \in NumVec : Holds(x, k, D) /\ Holds(y, l, D)
  <2>1. PICK D \in Nat \ {0}, k \in NumVec : Holds(x, k, D)
    BY NumeratorsOne
  <2>2. PICK E \in Nat \ {0}, l \in NumVec : Holds(y, l, E)
    BY NumeratorsOne
  <2>3. D \in Int /\ E \in Int /\ D * E \in Nat \ {0} /\ E * D = D * E
    BY Factors
  <2>4. PICK k2 \in NumVec : Holds(x, k2, D * E)
    BY <2>1, <2>3, WidenedVec
  <2>5. PICK l2 \in NumVec : Holds(y, l2, E * D)
    BY <2>2, <2>3, WidenedVec
  <2>. QED  BY <2>3, <2>4, <2>5
<1>2. PICK D \in Nat \ {0}, k \in NumVec, l \in NumVec : Holds(a, k, D) /\ Holds(b, l, D)
  BY <1>1
<1>3. PICK E \in Nat \ {0}, m \in NumVec, n \in NumVec : Holds(c, m, E) /\ Holds(v, n, E)
  BY <1>1
<1>4. D \in Int /\ E \in Int /\ D * E \in Nat \ {0} /\ E * D = D * E
  BY Factors
<1>5. PICK k2 \in NumVec : Holds(a, k2, D * E)
  BY <1>2, <1>4, WidenedVec
<1>6. PICK l2 \in NumVec : Holds(b, l2, D * E)
  BY <1>2, <1>4, WidenedVec
<1>7. PICK m2 \in NumVec : Holds(c, m2, E * D)
  BY <1>3, <1>4, WidenedVec
<1>8. PICK n2 \in NumVec : Holds(v, n2, E * D)
  BY <1>3, <1>4, WidenedVec
<1>. QED  BY <1>4, <1>5, <1>6, <1>7, <1>8

\* The scalar and the cross product of numerators.
IntDot(m, n) == ((m[1] * n[1]) + (m[2] * n[2])) + (m[3] * n[3])

IntCross(m, n) == <<(m[2] * n[3]) - (m[3] * n[2]), (m[3] * n[1]) - (m[1] * n[3]), (m[1] * n[2]) - (m[2] * n[1])>>

\* A scalar product is that of the numerators.
LEMMA DotOver ==
  ASSUME NEW v \in Vec, NEW w \in Vec, NEW m \in NumVec, NEW n \in NumVec,
         NEW D \in Nat \ {0}, NEW E \in Nat \ {0}, Holds(v, m, D), Holds(w, n, E)
  PROVE  IntDot(m, n) \in Int /\ D * E \in Nat \ {0} /\ Is(Dot(v, w), IntDot(m, n), D * E)
<1>1. /\ v[1] \in Fraction /\ v[2] \in Fraction /\ v[3] \in Fraction
      /\ w[1] \in Fraction /\ w[2] \in Fraction /\ w[3] \in Fraction
  BY VecParts
<1>2. /\ m[1] \in Int /\ m[2] \in Int /\ m[3] \in Int /\ n[1] \in Int /\ n[2] \in Int /\ n[3] \in Int
      /\ D \in Int /\ E \in Int /\ D * E \in Nat \ {0}
  BY Factors DEF NumVec
<1>. DEFINE p == Times(v[1], w[1]) q == Times(v[2], w[2]) r == Times(v[3], w[3])
<1>3. /\ Is(p, m[1] * n[1], D * E) /\ Is(q, m[2] * n[2], D * E) /\ Is(r, m[3] * n[3], D * E)
  BY <1>1, <1>2, TimesIs DEF Holds
<1>4. p \in Fraction /\ q \in Fraction /\ r \in Fraction
  BY <1>1, Closed
<1>5. Dot(v, w) = Plus(Plus(p, q), r)
  BY DotIs
<1>. HIDE DEF p, q, r
<1>6. m[1] * n[1] \in Int /\ m[2] * n[2] \in Int /\ m[3] * n[3] \in Int /\ (m[1] * n[1]) + (m[2] * n[2]) \in Int
  BY <1>2
<1>7. Plus(p, q) \in Fraction /\ Is(Plus(p, q), (m[1] * n[1]) + (m[2] * n[2]), D * E)
  BY <1>2, <1>3, <1>4, <1>6, SumOver, Closed
<1>8. Is(Plus(Plus(p, q), r), ((m[1] * n[1]) + (m[2] * n[2])) + (m[3] * n[3]), D * E)
  BY <1>2, <1>3, <1>4, <1>6, <1>7, SumOver
<1>. QED  BY <1>2, <1>5, <1>6, <1>8 DEF IntDot

\* The cross product, written out.
LEMMA CrossIs ==
  ASSUME NEW v \in Vec, NEW w \in Vec
  PROVE  /\ cross(v, w) \in Vec
         /\ cross(v, w)[1] = Minus(Times(v[2], w[3]), Times(v[3], w[2]))
         /\ cross(v, w)[2] = Minus(Times(v[3], w[1]), Times(v[1], w[3]))
         /\ cross(v, w)[3] = Minus(Times(v[1], w[2]), Times(v[2], w[1]))
<1>. DEFINE t == [i \in 1..3 |-> Minus(Times(v[After(i)], w[After(After(i))]),
                                      Times(v[After(After(i))], w[After(i)]))]
<1>1. After(1) = 2 /\ After(2) = 3 /\ After(3) = 1
  BY DEF After
<1>2. /\ t[1] = Minus(Times(v[2], w[3]), Times(v[3], w[2]))
      /\ t[2] = Minus(Times(v[3], w[1]), Times(v[1], w[3]))
      /\ t[3] = Minus(Times(v[1], w[2]), Times(v[2], w[1]))
  BY <1>1
<1>3. /\ v[1] \in Fraction /\ v[2] \in Fraction /\ v[3] \in Fraction
      /\ w[1] \in Fraction /\ w[2] \in Fraction /\ w[3] \in Fraction
  BY VecParts
<1>4. t[1] \in Fraction /\ t[2] \in Fraction /\ t[3] \in Fraction
  BY <1>2, <1>3, Closed
<1>5. t \in [1..3 -> Fraction]
  <2>1. t = [i \in 1..3 |-> t[i]] /\ \A i \in 1..3 : i = 1 \/ i = 2 \/ i = 3
    OBVIOUS
  <2>. HIDE DEF t
  <2>. QED  BY <1>4, <2>1
<1>6. cross(v, w) = t
  BY <1>5, VectorIs DEF cross
<1>. HIDE DEF t
<1>. QED  BY <1>2, <1>5, <1>6 DEF Vec

\* A cross product is that of the numerators.
LEMMA CrossOver ==
  ASSUME NEW v \in Vec, NEW w \in Vec, NEW m \in NumVec, NEW n \in NumVec,
         NEW D \in Nat \ {0}, NEW E \in Nat \ {0}, Holds(v, m, D), Holds(w, n, E)
  PROVE  IntCross(m, n) \in NumVec /\ D * E \in Nat \ {0} /\ Holds(cross(v, w), IntCross(m, n), D * E)
<1>1. /\ v[1] \in Fraction /\ v[2] \in Fraction /\ v[3] \in Fraction
      /\ w[1] \in Fraction /\ w[2] \in Fraction /\ w[3] \in Fraction
  BY VecParts
<1>2. /\ m[1] \in Int /\ m[2] \in Int /\ m[3] \in Int /\ n[1] \in Int /\ n[2] \in Int /\ n[3] \in Int
      /\ D \in Int /\ E \in Int /\ D * E \in Nat \ {0}
  BY Factors DEF NumVec
<1>3. ASSUME NEW i \in 1..3, NEW j \in 1..3
      PROVE  Is(Minus(Times(v[i], w[j]), Times(v[j], w[i])), (m[i] * n[j]) - (m[j] * n[i]), D * E)
  <2>1. v[i] \in Fraction /\ v[j] \in Fraction /\ w[i] \in Fraction /\ w[j] \in Fraction
        /\ m[i] \in Int /\ m[j] \in Int /\ n[i] \in Int /\ n[j] \in Int
    BY DEF Vec, NumVec
  <2>2. Is(v[i], m[i], D) /\ Is(v[j], m[j], D) /\ Is(w[i], n[i], E) /\ Is(w[j], n[j], E)
    <3>1. \A k \in 1..3 : k = 1 \/ k = 2 \/ k = 3
      OBVIOUS
    <3>. QED  BY <3>1 DEF Holds
  <2>3. Is(Times(v[i], w[j]), m[i] * n[j], D * E) /\ Is(Times(v[j], w[i]), m[j] * n[i], D * E)
    BY <1>2, <2>1, <2>2, TimesIs
  <2>4. Times(v[i], w[j]) \in Fraction /\ Times(v[j], w[i]) \in Fraction
        /\ m[i] * n[j] \in Int /\ m[j] * n[i] \in Int
    BY <2>1, Closed
  <2>. QED  BY <1>2, <2>3, <2>4, SumOver
<1>4. IntCross(m, n) \in NumVec
  <2>1. \A x, y, z \in Int : <<x, y, z>> \in NumVec
    BY DEF NumVec
  <2>2. (m[2] * n[3]) - (m[3] * n[2]) \in Int /\ (m[3] * n[1]) - (m[1] * n[3]) \in Int /\ (m[1] * n[2]) - (m[2] * n[1]) \in Int
    BY <1>2
  <2>. QED  BY <2>1, <2>2 DEF IntCross
<1>5. /\ IntCross(m, n)[1] = (m[2] * n[3]) - (m[3] * n[2])
      /\ IntCross(m, n)[2] = (m[3] * n[1]) - (m[1] * n[3])
      /\ IntCross(m, n)[3] = (m[1] * n[2]) - (m[2] * n[1])
  BY DEF IntCross
<1>. QED  BY <1>2, <1>3, <1>4, <1>5, CrossIs DEF Holds

\* The triple product of numerators.
IntTriple(k, l, m) == IntDot(k, IntCross(l, m))

\* A triple product is that of the numerators.
LEMMA TripleOver ==
  ASSUME NEW a \in Vec, NEW b \in Vec, NEW c \in Vec, NEW k \in NumVec, NEW l \in NumVec, NEW m \in NumVec,
         NEW D \in Nat \ {0}, Holds(a, k, D), Holds(b, l, D), Holds(c, m, D)
  PROVE  /\ IntTriple(k, l, m) \in Int /\ D * (D * D) \in Nat \ {0}
         /\ Dot(a, cross(b, c)) \in Fraction /\ Is(Dot(a, cross(b, c)), IntTriple(k, l, m), D * (D * D))
<1>1. cross(b, c) \in Vec
  BY CrossIs
<1>2. IntCross(l, m) \in NumVec /\ D * D \in Nat \ {0} /\ Holds(cross(b, c), IntCross(l, m), D * D)
  BY CrossOver
<1>. DEFINE x == cross(b, c) y == IntCross(l, m) E == D * D
<1>. HIDE DEF x, y, E
<1>3. x \in Vec /\ y \in NumVec /\ E \in Nat \ {0} /\ Holds(x, y, E)
  BY <1>1, <1>2 DEF x, y, E
<1>4. IntDot(k, y) \in Int /\ D * E \in Nat \ {0} /\ Is(Dot(a, x), IntDot(k, y), D * E) /\ Dot(a, x) \in Fraction
  BY <1>3, DotOver, DotIs
<1>. QED  BY <1>4 DEF x, y, E, IntTriple

\* The cross product of numerators, written out.
LEMMA IntCrossIs ==
  ASSUME NEW l \in NumVec, NEW m \in NumVec
  PROVE  /\ IntCross(l, m)[1] = (l[2] * m[3]) - (l[3] * m[2])
         /\ IntCross(l, m)[2] = (l[3] * m[1]) - (l[1] * m[3])
         /\ IntCross(l, m)[3] = (l[1] * m[2]) - (l[2] * m[1])
  BY DEF IntCross

\* The triple product as a polynomial.
Triple(a1, a2, a3, b1, b2, b3, c1, c2, c3) ==
  ((a1 * ((b2 * c3) - (b3 * c2))) + (a2 * ((b3 * c1) - (b1 * c3)))) + (a3 * ((b1 * c2) - (b2 * c1)))

\* The triple product of numerators is that polynomial.
LEMMA TripleIs ==
  ASSUME NEW x \in NumVec, NEW y \in NumVec, NEW z \in NumVec
  PROVE  IntTriple(x, y, z) = Triple(x[1], x[2], x[3], y[1], y[2], y[3], z[1], z[2], z[3])
  BY IntCrossIs DEF IntTriple, IntDot, Triple

\* A triple product turns round, and vanishes when a factor comes twice.
LEMMA Triples ==
  ASSUME NEW a \in Vec, NEW b \in Vec, NEW c \in Vec
  PROVE  /\ Dot(a, cross(a, b)) = Zero /\ Dot(b, cross(a, b)) = Zero
         /\ Dot(c, cross(a, b)) = Dot(a, cross(b, c))
<1>1. PICK D \in Nat \ {0}, k \in NumVec, l \in NumVec, m \in NumVec :
        Holds(a, k, D) /\ Holds(b, l, D) /\ Holds(c, m, D)
  BY Numerators
<1>2. /\ k[1] \in Int /\ k[2] \in Int /\ k[3] \in Int /\ l[1] \in Int /\ l[2] \in Int /\ l[3] \in Int
      /\ m[1] \in Int /\ m[2] \in Int /\ m[3] \in Int
  BY DEF NumVec
<1>3. /\ IntTriple(k, k, l) = 0 /\ IntTriple(l, k, l) = 0
      /\ IntTriple(m, k, l) = IntTriple(k, l, m)
  <2>1. /\ IntTriple(k, k, l) = Triple(k[1], k[2], k[3], k[1], k[2], k[3], l[1], l[2], l[3])
        /\ IntTriple(l, k, l) = Triple(l[1], l[2], l[3], k[1], k[2], k[3], l[1], l[2], l[3])
        /\ IntTriple(m, k, l) = Triple(m[1], m[2], m[3], k[1], k[2], k[3], l[1], l[2], l[3])
        /\ IntTriple(k, l, m) = Triple(k[1], k[2], k[3], l[1], l[2], l[3], m[1], m[2], m[3])
    BY TripleIs
  <2>2. PICK k1 \in Int, k2 \in Int, k3 \in Int, l1 \in Int, l2 \in Int, l3 \in Int,
             m1 \in Int, m2 \in Int, m3 \in Int :
          /\ k1 = k[1] /\ k2 = k[2] /\ k3 = k[3] /\ l1 = l[1] /\ l2 = l[2] /\ l3 = l[3]
          /\ m1 = m[1] /\ m2 = m[2] /\ m3 = m[3]
    BY <1>2
  <2>3. /\ Triple(k1, k2, k3, k1, k2, k3, l1, l2, l3) = 0 /\ Triple(l1, l2, l3, k1, k2, k3, l1, l2, l3) = 0
        /\ Triple(m1, m2, m3, k1, k2, k3, l1, l2, l3) = Triple(k1, k2, k3, l1, l2, l3, m1, m2, m3)
    BY DEF Triple
  <2>. QED  BY <2>1, <2>2, <2>3
<1>. DEFINE E == D * (D * D)
<1>4. E \in Nat \ {0} /\ E \in Int
  BY <1>1, TripleOver
<1>5. Is(Zero, 0, E) /\ Zero \in Fraction
  BY <1>4, ZeroIs
<1>6. /\ Dot(a, cross(a, b)) \in Fraction /\ Is(Dot(a, cross(a, b)), 0, E)
      /\ Dot(b, cross(a, b)) \in Fraction /\ Is(Dot(b, cross(a, b)), 0, E)
  BY <1>1, <1>3, TripleOver
<1>7. /\ IntTriple(k, l, m) \in Int
      /\ Dot(c, cross(a, b)) \in Fraction /\ Is(Dot(c, cross(a, b)), IntTriple(k, l, m), E)
      /\ Dot(a, cross(b, c)) \in Fraction /\ Is(Dot(a, cross(b, c)), IntTriple(k, l, m), E)
  BY <1>1, <1>3, TripleOver
<1>. HIDE DEF E
<1>. QED  BY <1>4, <1>5, <1>6, <1>7, Same

\* Cramer's rule, without the division.
LEMMA Cramer ==
  ASSUME NEW M \in Mat3, NEW v \in Vec, NEW i \in 1..3, NEW u \in Vec, NEW w \in Vec,
         u[1] = M[1][i], u[2] = M[2][i], u[3] = M[3][i],
         w[1] = Dot(v, cross(M[2], M[3])), w[2] = Dot(M[1], cross(v, M[3])), w[3] = Dot(M[1], cross(M[2], v))
  PROVE  Dot(u, w) = Times(Dot(M[1], cross(M[2], M[3])), v[i])
<1>. DEFINE a == M[1] b == M[2] c == M[3]
<1>1. a \in Vec /\ b \in Vec /\ c \in Vec /\ u[1] = a[i] /\ u[2] = b[i] /\ u[3] = c[i]
       /\ w[1] = Dot(v, cross(b, c)) /\ w[2] = Dot(a, cross(v, c)) /\ w[3] = Dot(a, cross(b, v))
  BY MatParts
<1>. HIDE DEF a, b, c
<1>2. PICK D \in Nat \ {0}, k \in NumVec, l \in NumVec, m \in NumVec, n \in NumVec :
        Holds(a, k, D) /\ Holds(b, l, D) /\ Holds(c, m, D) /\ Holds(v, n, D)
  BY <1>1, Numerators
<1>. DEFINE p == Dot(v, cross(b, c)) q == Dot(a, cross(v, c)) r == Dot(a, cross(b, v)) s == Dot(a, cross(b, c))
            ip == IntTriple(n, l, m) iq == IntTriple(k, n, m) ir == IntTriple(k, l, n) is == IntTriple(k, l, m)
            E == D * (D * D)
            iu == <<k[i], l[i], m[i]>> iw == <<ip, iq, ir>>
<1>3. /\ k[1] \in Int /\ k[2] \in Int /\ k[3] \in Int /\ l[1] \in Int /\ l[2] \in Int /\ l[3] \in Int
      /\ m[1] \in Int /\ m[2] \in Int /\ m[3] \in Int /\ n[1] \in Int /\ n[2] \in Int /\ n[3] \in Int
  BY DEF NumVec
<1>4. /\ p \in Fraction /\ ip \in Int /\ Is(p, ip, E) /\ q \in Fraction /\ iq \in Int /\ Is(q, iq, E)
      /\ r \in Fraction /\ ir \in Int /\ Is(r, ir, E) /\ s \in Fraction /\ is \in Int /\ Is(s, is, E)
      /\ E \in Nat \ {0}
  BY <1>2, <1>1, TripleOver, SMTT(30)
<1>5. ((k[i] * ip) + (l[i] * iq)) + (m[i] * ir) = is * n[i]
  <2>1. i = 1 \/ i = 2 \/ i = 3
    OBVIOUS
  <2>3. /\ ip = Triple(n[1], n[2], n[3], l[1], l[2], l[3], m[1], m[2], m[3])
        /\ iq = Triple(k[1], k[2], k[3], n[1], n[2], n[3], m[1], m[2], m[3])
        /\ ir = Triple(k[1], k[2], k[3], l[1], l[2], l[3], n[1], n[2], n[3])
        /\ is = Triple(k[1], k[2], k[3], l[1], l[2], l[3], m[1], m[2], m[3])
    BY TripleIs
  <2>. HIDE DEF ip, iq, ir, is
  <2>4. /\ ((k[1] * ip) + (l[1] * iq)) + (m[1] * ir) = is * n[1]
        /\ ((k[2] * ip) + (l[2] * iq)) + (m[2] * ir) = is * n[2]
        /\ ((k[3] * ip) + (l[3] * iq)) + (m[3] * ir) = is * n[3]
    <3>1. PICK k1 \in Int, k2 \in Int, k3 \in Int, l1 \in Int, l2 \in Int, l3 \in Int,
               m1 \in Int, m2 \in Int, m3 \in Int, n1 \in Int, n2 \in Int, n3 \in Int :
            /\ k1 = k[1] /\ k2 = k[2] /\ k3 = k[3] /\ l1 = l[1] /\ l2 = l[2] /\ l3 = l[3]
            /\ m1 = m[1] /\ m2 = m[2] /\ m3 = m[3] /\ n1 = n[1] /\ n2 = n[2] /\ n3 = n[3]
      BY <1>3
    <3>2. /\ ip = Triple(n1, n2, n3, l1, l2, l3, m1, m2, m3)
          /\ iq = Triple(k1, k2, k3, n1, n2, n3, m1, m2, m3)
          /\ ir = Triple(k1, k2, k3, l1, l2, l3, n1, n2, n3)
          /\ is = Triple(k1, k2, k3, l1, l2, l3, m1, m2, m3)
      BY <2>3, <3>1
    <3>3. ((k1 * ip) + (l1 * iq)) + (m1 * ir) = is * n1
      BY <3>2 DEF Triple
    <3>4. ((k2 * ip) + (l2 * iq)) + (m2 * ir) = is * n2
      BY <3>2 DEF Triple
    <3>5. ((k3 * ip) + (l3 * iq)) + (m3 * ir) = is * n3
      BY <3>2 DEF Triple
    <3>. QED  BY <3>1, <3>3, <3>4, <3>5
  <2>. QED  BY <2>1, <2>4
<1>6. /\ a[i] \in Fraction /\ b[i] \in Fraction /\ c[i] \in Fraction /\ v[i] \in Fraction
      /\ k[i] \in Int /\ l[i] \in Int /\ m[i] \in Int /\ n[i] \in Int
      /\ Is(a[i], k[i], D) /\ Is(b[i], l[i], D) /\ Is(c[i], m[i], D) /\ Is(v[i], n[i], D)
  <2>1. i = 1 \/ i = 2 \/ i = 3
    OBVIOUS
  <2>. QED  BY <1>2, <1>1, <2>1 DEF Vec, NumVec, Holds
<1>7. w[1] = p /\ w[2] = q /\ w[3] = r
  BY <1>1
<1>. HIDE DEF p, q, r, s, ip, iq, ir, is, E
<1>8. /\ iu \in NumVec /\ iw \in NumVec /\ Holds(u, iu, D) /\ Holds(w, iw, E)
  <2>1. \A x, y, z \in Int : <<x, y, z>> \in NumVec
    BY DEF NumVec
  <2>2. iu \in NumVec /\ iw \in NumVec
    BY <1>4, <1>6, <2>1
  <2>. QED  BY <1>4, <1>6, <1>7, <1>1, <2>2 DEF Holds
<1>9. IntDot(iu, iw) = is * n[i]
  BY <1>5 DEF IntDot
<1>. HIDE DEF iu, iw
<1>10. Is(Dot(u, w), is * n[i], D * E) /\ D * E \in Nat \ {0} /\ Dot(u, w) \in Fraction
  <2>1. Is(Dot(u, w), IntDot(iu, iw), D * E) /\ D * E \in Nat \ {0}
    BY <1>4, <1>8, DotOver
  <2>2. Dot(u, w) \in Fraction
    BY <1>8, DotIs
  <2>. QED  BY <1>9, <2>1, <2>2
<1>11. Is(Times(s, v[i]), is * n[i], E * D) /\ Times(s, v[i]) \in Fraction /\ E * D = D * E /\ is * n[i] \in Int
  <2>1. E \in Int /\ D \in Int /\ E * D = D * E /\ is * n[i] \in Int
    BY <1>4, <1>6
  <2>2. Is(Times(s, v[i]), is * n[i], E * D)
    BY <1>4, <1>6, <2>1, TimesIs
  <2>. QED  BY <1>4, <1>6, <2>1, <2>2, Closed
<1>12. Dot(u, w) = Times(s, v[i])
  <2>1. D * E \in Int /\ D * E # 0
    BY <1>10
  <2>. QED  BY <1>10, <1>11, <2>1, Same
<1>. QED  BY <1>12 DEF s, a, b, c

\* The numbers from 1 to 3.
LEMMA Cases3 == \A i \in 1..3 : i = 1 \/ i = 2 \/ i = 3
  OBVIOUS

\* Zero and one in sums and products.
LEMMA Neutral ==
  ASSUME NEW p \in Fraction
  PROVE  /\ Plus(p, Zero) = p /\ Plus(Zero, p) = p /\ Minus(p, Zero) = p /\ Minus(p, p) = Zero
         /\ Times(p, Zero) = Zero /\ Times(Zero, p) = Zero /\ Times(p, One) = p /\ Times(One, p) = p
         /\ ~Positive(Zero) /\ ~Negative(Zero) /\ Positive(One) /\ One # Zero
<1>1. Plus(p, Zero) = p /\ Plus(Zero, p) = Plus(p, Zero)
  BY Closed, PlusLaws
<1>2. Minus(Plus(p, Zero), Zero) = p
  BY Closed, PlusLaws
<1>3. Minus(Plus(Zero, p), p) = Zero
  BY Closed, PlusLaws
<1>4. Times(p, Zero) = Zero /\ Times(Zero, p) = Times(p, Zero) /\ Times(p, One) = p /\ Times(One, p) = Times(p, One)
  BY Closed, TimesLaws
<1>5. ~Positive(Zero) /\ ~Negative(Zero) /\ Positive(One) /\ One # Zero
  BY DEF Positive, Negative, Zero, One
<1>. QED  BY <1>1, <1>2, <1>3, <1>4, <1>5

\* What is multiplied by the same is the same.
LEMMA CancelTimes ==
  ASSUME NEW p \in Fraction, NEW q \in Fraction, NEW r \in Fraction, r # Zero, Times(r, p) = Times(r, q)
  PROVE  p = q
<1>1. Times(r, p) \in Fraction /\ Times(r, q) \in Fraction
  BY Closed
<1>2. \A x \in Fraction : Times(r, x) = Times(r, p) => x = Over(Times(r, p), r)
  BY <1>1, OverIs
<1>. QED  BY <1>2

\* A unit vector.
Unit(i) == [j \in 1..3 |-> IF i = j THEN One ELSE Zero]

\* The elements of a vector are its products with the unit vectors.
LEMMA Units ==
  ASSUME NEW i \in 1..3
  PROVE  /\ Unit(i) \in Vec /\ Unit(i) # NullV
         /\ \A v \in Vec : Dot(v, Unit(i)) = v[i] /\ Dot(Unit(i), v) = v[i]
<1>1. Unit(i) \in Vec
  BY Closed DEF Unit, Vec
<1>2. Unit(i) # NullV
  <2>1. Unit(i)[i] = One /\ NullV[i] = Zero
    BY Cases3 DEF Unit, NullV
  <2>. QED  BY <2>1 DEF One, Zero
<1>3. ASSUME NEW v \in Vec
      PROVE  Dot(v, Unit(i)) = v[i]
  <2>1. v[1] \in Fraction /\ v[2] \in Fraction /\ v[3] \in Fraction
    BY VecParts
  <2>2. Dot(v, Unit(i)) = Plus(Plus(Times(v[1], Unit(i)[1]), Times(v[2], Unit(i)[2])), Times(v[3], Unit(i)[3]))
    BY <1>1, DotIs
  <2>3. \A p \in Fraction : Plus(p, Zero) = p /\ Plus(Zero, p) = p /\ Times(p, Zero) = Zero /\ Times(p, One) = p
    BY Neutral
  <2>4. CASE i = 1
    <3>1. Unit(i)[1] = One /\ Unit(i)[2] = Zero /\ Unit(i)[3] = Zero
      BY <2>4 DEF Unit
    <3>. QED  BY <2>1, <2>2, <2>3, <2>4, <3>1
  <2>5. CASE i = 2
    <3>1. Unit(i)[1] = Zero /\ Unit(i)[2] = One /\ Unit(i)[3] = Zero
      BY <2>5 DEF Unit
    <3>. QED  BY <2>1, <2>2, <2>3, <2>5, <3>1
  <2>6. CASE i = 3
    <3>1. Unit(i)[1] = Zero /\ Unit(i)[2] = Zero /\ Unit(i)[3] = One
      BY <2>6 DEF Unit
    <3>2. Dot(v, Unit(i)) = Plus(Plus(Zero, Zero), v[3])
      BY <2>1, <2>2, <2>3, <3>1
    <3>3. Plus(Zero, Zero) = Zero
      BY <2>3, Closed
    <3>. QED  BY <2>1, <2>3, <2>6, <3>2, <3>3
  <2>. QED  BY <2>4, <2>5, <2>6, Cases3
<1>4. \A v \in Vec : Dot(Unit(i), v) = Dot(v, Unit(i))
  BY <1>1, DotLaws, Closed
<1>. QED  BY <1>1, <1>2, <1>3, <1>4

\* Vectors and matrices are known by their products.
LEMMA KnownByProducts ==
  /\ \A v, w \in Vec : (\A u \in Vec : Dot(u, v) = Dot(u, w)) => v = w
  /\ \A M, N \in Mat3 : (\A u \in Vec : Apply(M, u) = Apply(N, u)) => M = N
<1>1. ASSUME NEW v \in Vec, NEW w \in Vec, \A u \in Vec : Dot(u, v) = Dot(u, w)
      PROVE  v = w
  <2>1. \A i \in 1..3 : v[i] = w[i]
    BY <1>1, Units
  <2>. QED  BY <2>1, Equal3 DEF Vec
<1>2. ASSUME NEW M \in Mat3, NEW N \in Mat3, \A u \in Vec : Apply(M, u) = Apply(N, u)
      PROVE  M = N
  <2>1. ASSUME NEW T \in Mat3, NEW i \in 1..3, NEW j \in 1..3
        PROVE  Apply(T, Unit(j))[i] = T[i][j]
    BY ApplyIs, Units, MatParts
  <2>2. \A i, j \in 1..3 : M[i][j] = N[i][j]
    BY <1>2, <2>1, Units
  <2>. QED  BY <2>2, EqualMat
<1>. QED  BY <1>1, <1>2

\* The vector of zeros.
LEMMA NullLaws ==
  ASSUME NEW v \in Vec
  PROVE  /\ Dot(v, NullV) = Zero /\ Dot(NullV, v) = Zero
         /\ VPlus(v, NullV) = v /\ VPlus(NullV, v) = v /\ VMinus(v, NullV) = v /\ VMinus(v, v) = NullV
         /\ \A w \in Vec : VMinus(v, w) = NullV => v = w
<1>1. NullV \in Vec /\ NullV[1] = Zero /\ NullV[2] = Zero /\ NullV[3] = Zero /\ \A i \in 1..3 : NullV[i] = Zero
  BY VecParts, Cases3 DEF NullV
<1>2. \A p \in Fraction : /\ Plus(p, Zero) = p /\ Plus(Zero, p) = p /\ Minus(p, Zero) = p /\ Minus(p, p) = Zero
                          /\ Times(p, Zero) = Zero
  BY Neutral
<1>3. Dot(v, NullV) = Zero
  BY <1>1, <1>2, DotIs, VecParts, Closed
<1>4. Dot(NullV, v) = Dot(v, NullV)
  BY <1>1, DotLaws, Closed
<1>5. ASSUME NEW w \in Vec, VMinus(v, w) = NullV
      PROVE  v = w
  <2>1. ASSUME NEW i \in 1..3
        PROVE  v[i] = w[i]
    <3>1. Minus(v[i], w[i]) = Zero
      BY <1>1, <1>5, VecOps, Closed
    <3>2. v[i] \in Fraction /\ w[i] \in Fraction
      BY DEF Vec
    <3>3. Plus(Minus(v[i], w[i]), w[i]) = v[i]
      BY <3>2, PlusLaws
    <3>. QED  BY <1>2, <3>1, <3>2, <3>3
  <2>. QED  BY <2>1, Equal3 DEF Vec
<1>6. /\ VPlus(v, NullV) \in Vec /\ \A i \in 1..3 : VPlus(v, NullV)[i] = v[i]
      /\ VPlus(NullV, v) \in Vec /\ \A i \in 1..3 : VPlus(NullV, v)[i] = v[i]
      /\ VMinus(v, NullV) \in Vec /\ \A i \in 1..3 : VMinus(v, NullV)[i] = v[i]
      /\ VMinus(v, v) \in Vec /\ \A i \in 1..3 : VMinus(v, v)[i] = NullV[i]
  <2>1. \A i \in 1..3 : v[i] \in Fraction
    BY DEF Vec
  <2>2. \A x, y \in Vec : /\ VPlus(x, y) \in Vec /\ \A i \in 1..3 : VPlus(x, y)[i] = Plus(x[i], y[i])
                          /\ VMinus(x, y) \in Vec /\ \A i \in 1..3 : VMinus(x, y)[i] = Minus(x[i], y[i])
    BY VecOps, Closed
  <2>3. VPlus(v, NullV) \in Vec /\ \A i \in 1..3 : VPlus(v, NullV)[i] = v[i]
    BY <1>1, <1>2, <2>1, <2>2
  <2>4. VPlus(NullV, v) \in Vec /\ \A i \in 1..3 : VPlus(NullV, v)[i] = v[i]
    BY <1>1, <1>2, <2>1, <2>2
  <2>5. VMinus(v, NullV) \in Vec /\ \A i \in 1..3 : VMinus(v, NullV)[i] = v[i]
    BY <1>1, <1>2, <2>1, <2>2
  <2>6. VMinus(v, v) \in Vec /\ \A i \in 1..3 : VMinus(v, v)[i] = NullV[i]
    BY <1>1, <1>2, <2>1, <2>2
  <2>. QED  BY <2>3, <2>4, <2>5, <2>6
<1>7. VPlus(v, NullV) = v /\ VPlus(NullV, v) = v /\ VMinus(v, NullV) = v /\ VMinus(v, v) = NullV
  BY <1>1, <1>6, Equal3 DEF Vec
<1>. QED  BY <1>3, <1>4, <1>5, <1>7

\* A determinant is a triple product; so it is with a row replaced.
LEMMA DetIs ==
  ASSUME NEW M \in Mat3
  PROVE  /\ det(M) = Dot(M[1], cross(M[2], M[3])) /\ det(M) \in Fraction
         /\ \A v \in Vec : /\ det([M EXCEPT ![1] = v]) = Dot(v, cross(M[2], M[3]))
                           /\ det([M EXCEPT ![2] = v]) = Dot(M[1], cross(v, M[3]))
                           /\ det([M EXCEPT ![3] = v]) = Dot(M[1], cross(M[2], v))
<1>1. DOMAIN M = 1..3 /\ M[1] \in Vec /\ M[2] \in Vec /\ M[3] \in Vec
  BY MatParts
<1>2. cross(M[2], M[3]) \in Vec
  BY <1>1, CrossIs
<1>3. Dot(M[1], cross(M[2], M[3])) \in Fraction
  BY <1>1, <1>2, DotIs
<1>4. ASSUME NEW v \in Vec
      PROVE  /\ det([M EXCEPT ![1] = v]) = Dot(v, cross(M[2], M[3]))
             /\ det([M EXCEPT ![2] = v]) = Dot(M[1], cross(v, M[3]))
             /\ det([M EXCEPT ![3] = v]) = Dot(M[1], cross(M[2], v))
  <2>1. /\ [M EXCEPT ![1] = v][1] = v /\ [M EXCEPT ![1] = v][2] = M[2] /\ [M EXCEPT ![1] = v][3] = M[3]
        /\ [M EXCEPT ![2] = v][1] = M[1] /\ [M EXCEPT ![2] = v][2] = v /\ [M EXCEPT ![2] = v][3] = M[3]
        /\ [M EXCEPT ![3] = v][1] = M[1] /\ [M EXCEPT ![3] = v][2] = M[2] /\ [M EXCEPT ![3] = v][3] = v
    BY <1>1
  <2>. QED  BY <2>1 DEF det
<1>. QED  BY <1>3, <1>4 DEF det

\* The determinant in the elements, by rows and by columns.
LEMMA Leibniz ==
  ASSUME NEW a1, NEW a2, NEW a3, NEW b1, NEW b2, NEW b3, NEW c1, NEW c2, NEW c3,
         Numbers(<<a1, a2, a3, b1, b2, b3, c1, c2, c3>>)
  PROVE  Plus(Plus(Times(a1, Minus(Times(b2, c3), Times(b3, c2))),
           Times(a2, Minus(Times(b3, c1), Times(b1, c3)))),
             Times(a3, Minus(Times(b1, c2), Times(b2, c1))))
               = Plus(Plus(Times(a1, Minus(Times(b2, c3), Times(c2, b3))),
                 Times(b1, Minus(Times(c2, a3), Times(a2, c3)))),
                   Times(c1, Minus(Times(a2, b3), Times(b2, a3))))
<1>. DEFINE f == <<a1, a2, a3, b1, b2, b3, c1, c2, c3>>
<1>1. f \in [1..9 -> Fraction] /\ 9 \in Nat
  BY DEF Numbers
<1>2. PICK D \in Nat \ {0}, k \in [1..9 -> Int] : \A i \in 1..9 : Val(f[i], k[i], D)
  <2>. HIDE DEF f
  <2>. QED  BY <1>1, Values
<1>. DEFINE a10 == k[1]
            a20 == k[2]
            a30 == k[3]
            b10 == k[4]
            b20 == k[5]
            b30 == k[6]
            c10 == k[7]
            c20 == k[8]
            c30 == k[9]
            D2 == D * D
            D3 == D * D2
<1>3. /\ D \in Nat \ {0}
      /\ D2 \in Nat \ {0} /\ D2 = D * D
      /\ D3 \in Nat \ {0} /\ D3 = D * D2
      /\ D2 * D = D3
  BY Powers
<1>4. /\ a10 \in Int /\ Val(a1, a10, D)
      /\ a20 \in Int /\ Val(a2, a20, D)
      /\ a30 \in Int /\ Val(a3, a30, D)
      /\ b10 \in Int /\ Val(b1, b10, D)
      /\ b20 \in Int /\ Val(b2, b20, D)
      /\ b30 \in Int /\ Val(b3, b30, D)
      /\ c10 \in Int /\ Val(c1, c10, D)
      /\ c20 \in Int /\ Val(c2, c20, D)
      /\ c30 \in Int /\ Val(c3, c30, D)
  BY <1>2
<1>. HIDE DEF f, a10, a20, a30, b10, b20, b30, c10, c20, c30, D2, D3
<1>5. Val(Plus(Times(a1, Minus(Times(b2, c3), Times(b3, c2))),
        Times(a2, Minus(Times(b3, c1), Times(b1, c3)))),
          ((a10 * ((b20 * c30) - (b30 * c20))) + (a20 * ((b30 * c10) - (b10 * c30)))), D3)
  BY <1>3, <1>4, ValSum, ValTimes
<1>6. Val(Plus(Plus(Times(a1, Minus(Times(b2, c3), Times(b3, c2))),
        Times(a2, Minus(Times(b3, c1), Times(b1, c3)))),
          Times(a3, Minus(Times(b1, c2), Times(b2, c1)))),
            (((a10 * ((b20 * c30) - (b30 * c20))) + (a20 * ((b30 * c10) - (b10 * c30))))
              + (a30 * ((b10 * c20) - (b20 * c10)))), D3)
  BY <1>3, <1>4, <1>5, ValSum, ValTimes
<1>7. Val(Plus(Times(a1, Minus(Times(b2, c3), Times(c2, b3))),
        Times(b1, Minus(Times(c2, a3), Times(a2, c3)))),
          ((a10 * ((b20 * c30) - (c20 * b30))) + (b10 * ((c20 * a30) - (a20 * c30)))), D3)
  BY <1>3, <1>4, ValSum, ValTimes
<1>8. Val(Plus(Plus(Times(a1, Minus(Times(b2, c3), Times(c2, b3))),
        Times(b1, Minus(Times(c2, a3), Times(a2, c3)))),
          Times(c1, Minus(Times(a2, b3), Times(b2, a3)))),
            (((a10 * ((b20 * c30) - (c20 * b30))) + (b10 * ((c20 * a30) - (a20 * c30))))
              + (c10 * ((a20 * b30) - (b20 * a30)))), D3)
  BY <1>3, <1>4, <1>7, ValSum, ValTimes, ZenonT(60)
<1>9. (((a10 * ((b20 * c30) - (b30 * c20))) + (a20 * ((b30 * c10) - (b10 * c30))))
        + (a30 * ((b10 * c20) - (b20 * c10))))
          = (((a10 * ((b20 * c30) - (c20 * b30))) + (b10 * ((c20 * a30) - (a20 * c30))))
            + (c10 * ((a20 * b30) - (b20 * a30))))
  BY <1>3, <1>4
<1>10. Plus(Plus(Times(a1, Minus(Times(b2, c3), Times(b3, c2))),
         Times(a2, Minus(Times(b3, c1), Times(b1, c3)))),
           Times(a3, Minus(Times(b1, c2), Times(b2, c1))))
             = Plus(Plus(Times(a1, Minus(Times(b2, c3), Times(c2, b3))),
               Times(b1, Minus(Times(c2, a3), Times(a2, c3)))),
                 Times(c1, Minus(Times(a2, b3), Times(b2, a3))))
  BY <1>6, <1>8, <1>9, ValSame
<1>. QED  BY <1>10

\* A matrix and its transpose have the same determinant.
LEMMA DetTransposed == \A M \in Mat3 : det(Transpose(M)) = det(M)
<1>. SUFFICES ASSUME NEW M \in Mat3 PROVE det(Transpose(M)) = det(M)
  OBVIOUS
<1>. DEFINE N == Transpose(M)
<1>1. N \in Mat3 /\ \A i, j \in 1..3 : N[i][j] = M[j][i] /\ M[i][j] \in Fraction
  BY TransposeIs, MatParts
<1>2. ASSUME NEW A \in Mat3
      PROVE  det(A)
               = Plus(Plus(Times(A[1][1],
                 Minus(Times(A[2][2], A[3][3]), Times(A[2][3], A[3][2]))),
                                Times(A[1][2],
                                  Minus(Times(A[2][3], A[3][1]), Times(A[2][1], A[3][3])))),
                           Times(A[1][3],
                             Minus(Times(A[2][1], A[3][2]), Times(A[2][2], A[3][1]))))
  <2>1. A[1] \in Vec /\ A[2] \in Vec /\ A[3] \in Vec
    BY MatParts
  <2>2. cross(A[2], A[3]) \in Vec
    BY <2>1, CrossIs
  <2>3. det(A) = Dot(A[1], cross(A[2], A[3]))
    BY DetIs
  <2>. QED  BY <2>1, <2>2, <2>3, CrossIs, DotIs
<1>. DEFINE a1 == M[1][1] a2 == M[1][2] a3 == M[1][3]
            b1 == M[2][1] b2 == M[2][2] b3 == M[2][3]
            c1 == M[3][1] c2 == M[3][2] c3 == M[3][3]
<1>3. det(M)
        = Plus(Plus(Times(a1, Minus(Times(b2, c3), Times(b3, c2))),
          Times(a2, Minus(Times(b3, c1), Times(b1, c3)))),
                    Times(a3, Minus(Times(b1, c2), Times(b2, c1))))
  BY <1>2
<1>4. det(N)
        = Plus(Plus(Times(a1, Minus(Times(b2, c3), Times(c2, b3))),
          Times(b1, Minus(Times(c2, a3), Times(a2, c3)))),
                    Times(c1, Minus(Times(a2, b3), Times(b2, a3))))
  BY <1>1, <1>2
<1>5. a1 \in Fraction /\ a2 \in Fraction /\ a3 \in Fraction /\ b1 \in Fraction /\ b2 \in Fraction
      /\ b3 \in Fraction
      /\ c1 \in Fraction /\ c2 \in Fraction /\ c3 \in Fraction
  BY <1>1
<1>. HIDE DEF a1, a2, a3, b1, b2, b3, c1, c2, c3, N
<1>6. Numbers(<<a1, a2, a3, b1, b2, b3, c1, c2, c3>>)
  BY <1>5 DEF Numbers
<1>7. det(N) = det(M)
  BY <1>3, <1>4, <1>6, Leibniz
<1>. QED  BY <1>7 DEF N

\* A matrix that is its own transpose.
Symmetric(M) == M \in Mat3 /\ M = Transpose(M)

\* A matrix is symmetric if it goes to the other side of a scalar product unchanged.
LEMMA SymmetricIs ==
  /\ \A M \in Mat3 : (\A v, w \in Vec : Dot(v, Apply(M, w)) = Dot(w, Apply(M, v))) => Symmetric(M)
  /\ \A M : Symmetric(M) => /\ M \in Mat3 /\ \A i, j \in 1..3 : M[i][j] = M[j][i]
                            /\ \A v, w \in Vec : /\ Dot(v, Apply(M, w)) = Dot(Apply(M, v), w)
                                                 /\ Dot(v, Apply(M, w)) = Dot(w, Apply(M, v))
<1>1. ASSUME NEW M \in Mat3, \A v, w \in Vec : Dot(v, Apply(M, w)) = Dot(w, Apply(M, v))
      PROVE  Symmetric(M)
  <2>. DEFINE T == Transpose(M)
  <2>1. T \in Mat3
    BY TransposeIs
  <2>2. ASSUME NEW v \in Vec, NEW w \in Vec
        PROVE  Dot(w, Apply(M, v)) = Dot(w, Apply(T, v))
    <3>1. Dot(v, Apply(M, w)) = Dot(Apply(T, v), w)
      BY Adjoint
    <3>2. Apply(T, v) \in Vec
      BY <2>1, ApplyIs
    <3>3. Dot(Apply(T, v), w) = Dot(w, Apply(T, v))
      BY <3>2, DotLaws, Closed
    <3>. QED  BY <1>1, <3>1, <3>3
  <2>. HIDE DEF T
  <2>3. \A v \in Vec : Apply(M, v) = Apply(T, v)
    BY <2>1, <2>2, ApplyIs, KnownByProducts
  <2>4. M = T
    BY <2>1, <2>3, KnownByProducts
  <2>. QED  BY <2>4 DEF T, Symmetric
<1>2. ASSUME NEW M, Symmetric(M)
      PROVE  /\ M \in Mat3 /\ \A i, j \in 1..3 : M[i][j] = M[j][i]
             /\ \A v, w \in Vec : /\ Dot(v, Apply(M, w)) = Dot(Apply(M, v), w)
                                  /\ Dot(v, Apply(M, w)) = Dot(w, Apply(M, v))
  <2>1. M \in Mat3 /\ Transpose(M) = M
    BY <1>2 DEF Symmetric
  <2>2. \A i, j \in 1..3 : M[i][j] = M[j][i]
    BY <2>1, TransposeIs
  <2>3. ASSUME NEW v \in Vec, NEW w \in Vec
        PROVE  /\ Dot(v, Apply(M, w)) = Dot(Apply(M, v), w)
               /\ Dot(v, Apply(M, w)) = Dot(w, Apply(M, v))
    <3>1. Dot(v, Apply(M, w)) = Dot(Apply(M, v), w)
      BY <2>1, Adjoint
    <3>2. Apply(M, v) \in Vec
      BY <2>1, ApplyIs
    <3>3. Dot(Apply(M, v), w) = Dot(w, Apply(M, v))
      BY <3>2, DotLaws, Closed
    <3>. QED  BY <3>1, <3>3
  <2>. QED  BY <2>1, <2>2, <2>3
<1>. QED  BY <1>1, <1>2

\* Cramer's rule solves every system whose determinant is not zero.
LEMMA SolvedFits ==
  ASSUME NEW M \in Mat3, NEW v \in Vec, det(M) # Zero
  PROVE  Solved(M, v) \in Vec /\ Apply(M, Solved(M, v)) = v
<1>. DEFINE N == Transpose(M)
            a == N[1] b == N[2] c == N[3] d == det(M)
            p == Dot(v, cross(b, c)) q == Dot(a, cross(v, c)) r == Dot(a, cross(b, v))
            w == <<p, q, r>> x == Solved(M, v)
            t == [i \in 1..3 |-> Over(det([N EXCEPT ![i] = v]), d)]
<1>1. N \in Mat3 /\ a \in Vec /\ b \in Vec /\ c \in Vec
  BY TransposeIs, MatParts
<1>2. d = Dot(a, cross(b, c)) /\ d \in Fraction
      /\ det([N EXCEPT ![1] = v]) = p /\ det([N EXCEPT ![2] = v]) = q /\ det([N EXCEPT ![3] = v])
           = r
  BY <1>1, DetIs, DetTransposed
<1>3. p \in Fraction /\ q \in Fraction /\ r \in Fraction
  BY <1>1, CrossIs, DotIs
<1>4. x = Vector(t)
  BY <1>1 DEF Solved, Ratios
<1>5. \A i \in 1..3 : M[i] \in Vec /\ M[i][1] = a[i] /\ M[i][2] = b[i] /\ M[i][3] = c[i]
  BY <1>1, MatParts, TransposeIs
<1>6. w \in Vec /\ w[1] = p /\ w[2] = q /\ w[3] = r
  BY <1>3, VecParts
<1>7. t[1] = Over(p, d) /\ t[2] = Over(q, d) /\ t[3] = Over(r, d)
  BY <1>2
<1>8. d # Zero
  OBVIOUS
<1>9. \A i \in 1..3 : Dot(M[i], w) = Times(d, v[i])
  <2>1. ASSUME NEW i \in 1..3
        PROVE  Dot(M[i], w) = Times(Dot(a, cross(b, c)), v[i])
    <3>1. M[i] \in Vec /\ M[i][1] = N[1][i] /\ M[i][2] = N[2][i] /\ M[i][3] = N[3][i]
      BY <1>5
    <3>2. w \in Vec /\ w[1] = Dot(v, cross(N[2], N[3])) /\ w[2] = Dot(N[1], cross(v, N[3]))
          /\ w[3] = Dot(N[1], cross(N[2], v))
      BY <1>6
    <3>. HIDE DEF w
    <3>3. Dot(M[i], w) = Times(Dot(N[1], cross(N[2], N[3])), v[i])
      BY <1>1, <3>1, <3>2, Cramer, SMTT(30)
    <3>. QED  BY <3>3
  <2>. QED  BY <1>2, <2>1
<1>. HIDE DEF w
<1>10. t = [i \in 1..3 |-> t[i]]
  OBVIOUS
<1>. HIDE DEF p, q, r, a, b, c, d, t, x, N
<1>11. /\ t[1] \in Fraction /\ Times(d, t[1]) = p
       /\ t[2] \in Fraction /\ Times(d, t[2]) = q
       /\ t[3] \in Fraction /\ Times(d, t[3]) = r
  BY <1>2, <1>3, <1>7, <1>8, OverIs
<1>12. t \in [1..3 -> Fraction]
  BY <1>10, <1>11, Cases3
<1>13. x \in Vec /\ x = t
  BY <1>4, <1>12, VectorIs DEF Vec
<1>14. w \in Vec /\ Scaled(d, x) = w
  <2>2. Scaled(d, x) \in Vec /\ \A i \in 1..3 : Scaled(d, x)[i] = Times(d, x[i])
    BY <1>2, <1>13, VecOps
  <2>3. Scaled(d, x)[1] = w[1] /\ Scaled(d, x)[2] = w[2] /\ Scaled(d, x)[3] = w[3]
    BY <1>6, <1>11, <1>13, <2>2
  <2>. QED  BY <1>6, <2>2, <2>3, Equal3 DEF Vec
<1>15. Apply(M, w) = Scaled(d, Apply(M, x))
  BY <1>1, <1>2, <1>13, <1>14, ApplyLaws
<1>16. Apply(M, x) \in Vec
  BY <1>1, <1>13, ApplyIs
<1>17. ASSUME NEW i \in 1..3
       PROVE  Apply(M, x)[i] = v[i]
  <2>1. Apply(M, w)[i] = Times(d, v[i])
    BY <1>1, <1>6, <1>9, ApplyIs
  <2>2. Scaled(d, Apply(M, x))[i] = Times(d, Apply(M, x)[i])
    BY <1>2, <1>16, VecOps
  <2>3. Apply(M, x)[i] \in Fraction /\ v[i] \in Fraction
    BY <1>16 DEF Vec
  <2>. QED  BY <1>2, <1>8, <1>15, <2>1, <2>2, <2>3, CancelTimes
<1>18. Apply(M, x) = v
  BY <1>16, <1>17, Equal3 DEF Vec
<1>. QED  BY <1>13, <1>18 DEF x

(* Definite matrices. *)
\* A symmetric matrix that weighs every vector positively: a covariance.
Definite(M) == Symmetric(M) /\ \A v \in Vec : v # NullV => Positive(Dot(v, Apply(M, v)))

\* The leading minors of a definite matrix are positive.
LEMMA Minors ==
  ASSUME NEW M, Definite(M)
  PROVE  /\ Positive(M[1][1]) /\ Positive(det(M))
         /\ Positive(Minus(Times(M[1][1], M[2][2]), Times(M[1][2], M[1][2])))
<1>. DEFINE a == M[1] b == M[2] c == M[3] e == Unit(3) m == cross(a, b)[3]
<1>1. M \in Mat3 /\ a \in Vec /\ b \in Vec /\ c \in Vec
      /\ \A i, j \in 1..3 : M[i][j] \in Fraction /\ M[i][j] = M[j][i]
  BY SymmetricIs, MatParts DEF Definite
<1>2. ASSUME NEW v \in Vec
      PROVE  /\ Dot(v, Apply(M, v)) = Plus(Plus(Times(v[1], Dot(a, v)), Times(v[2], Dot(b, v))), Times(v[3], Dot(c, v)))
             /\ Dot(a, v) \in Fraction /\ Dot(b, v) \in Fraction /\ Dot(c, v) \in Fraction
             /\ v[1] \in Fraction /\ v[2] \in Fraction /\ v[3] \in Fraction
             /\ v # NullV => Positive(Dot(v, Apply(M, v)))
  <2>1. Apply(M, v) \in Vec /\ Apply(M, v)[1] = Dot(a, v) /\ Apply(M, v)[2] = Dot(b, v) /\ Apply(M, v)[3] = Dot(c, v)
    BY <1>1, ApplyIs
  <2>. QED  BY <1>1, <2>1, DotIs, VecParts DEF Definite
<1>3. Positive(M[1][1])
  <2>1. Unit(1) \in Vec /\ Unit(1) # NullV /\ Dot(Unit(1), Apply(M, Unit(1))) = Apply(M, Unit(1))[1]
    BY <1>1, ApplyIs, Units
  <2>2. Apply(M, Unit(1))[1] = Dot(a, Unit(1)) /\ Dot(a, Unit(1)) = M[1][1]
    BY <1>1, <2>1, ApplyIs, Units
  <2>. QED  BY <1>2, <2>1, <2>2
<1>4. m \in Fraction /\ cross(a, b) \in Vec
      /\ m = Minus(Times(M[1][1], M[2][2]), Times(M[1][2], M[2][1]))
  <2>1. cross(a, b) \in Vec /\ m = Minus(Times(M[1][1], M[2][2]), Times(M[1][2], M[2][1]))
    BY <1>1, CrossIs
  <2>. QED  BY <2>1, VecParts
<1>5. Positive(m)
  <2>. DEFINE v == cross(e, a)
  <2>1. e \in Vec /\ e[1] = Zero /\ e[2] = Zero /\ e[3] = One
    BY Units DEF Unit
  <2>2. v \in Vec /\ v[2] = Minus(Times(e[3], a[1]), Times(e[1], a[3]))
        /\ v[3] = Minus(Times(e[1], a[2]), Times(e[2], a[1]))
    BY <1>1, <2>1, CrossIs
  <2>3. a[1] \in Fraction /\ a[2] \in Fraction /\ a[3] \in Fraction
    BY <1>1, VecParts
  <2>4. v[2] = a[1] /\ v[3] = Zero
    <3>1. Times(One, a[1]) = a[1] /\ Times(Zero, a[3]) = Zero /\ Times(Zero, a[2]) = Zero /\ Times(Zero, a[1]) = Zero
          /\ Minus(a[1], Zero) = a[1] /\ Minus(Zero, Zero) = Zero
      BY <2>3, Neutral, Closed
    <3>. QED  BY <2>1, <2>2, <3>1
  <2>5. Dot(a, v) = Zero /\ Dot(b, v) = Dot(e, cross(a, b)) /\ Dot(e, cross(a, b)) = m
    BY <1>1, <1>4, <2>1, Triples, Units
  <2>. HIDE DEF v, m
  <2>6. v # NullV
    <3>1. NullV[2] = Zero /\ M[1][1] \in Fraction /\ M[1][1] # Zero
      <4>1. M[1][1] # Zero
        BY <1>3, Neutral, Closed
      <4>. QED  BY <1>1, <4>1 DEF NullV
    <3>. QED  BY <2>4, <3>1
  <2>7. Dot(v, Apply(M, v)) = Plus(Plus(Times(v[1], Zero), Times(a[1], m)), Times(Zero, Dot(c, v)))
    BY <1>2, <2>2, <2>4, <2>5
  <2>8. v[1] \in Fraction /\ Dot(c, v) \in Fraction /\ Times(a[1], m) \in Fraction
    BY <1>2, <1>4, <2>2, <2>3, Closed
  <2>9. Times(v[1], Zero) = Zero /\ Times(Zero, Dot(c, v)) = Zero
        /\ Plus(Zero, Times(a[1], m)) = Times(a[1], m) /\ Plus(Times(a[1], m), Zero) = Times(a[1], m)
    BY <2>8, Neutral
  <2>10. Positive(Times(a[1], m))
    BY <1>2, <2>2, <2>6, <2>7, <2>9
  <2>. QED  BY <1>3, <1>4, <2>3, <2>10, SignLaws
<1>6. Positive(det(M))
  <2>. DEFINE v == cross(a, b)
  <2>1. Dot(a, v) = Zero /\ Dot(b, v) = Zero /\ Dot(c, v) = det(M) /\ det(M) \in Fraction
    BY <1>1, DetIs, Triples
  <2>2. v \in Vec /\ v[3] = m
    BY <1>4
  <2>. HIDE DEF v, m
  <2>3. v # NullV
    <3>1. NullV[3] = Zero /\ m # Zero
      BY <1>5, Neutral, Closed DEF NullV
    <3>. QED  BY <2>2, <3>1
  <2>4. Dot(v, Apply(M, v)) = Plus(Plus(Times(v[1], Zero), Times(v[2], Zero)), Times(m, det(M)))
    BY <1>2, <2>1, <2>2
  <2>5. v[1] \in Fraction /\ v[2] \in Fraction /\ Times(m, det(M)) \in Fraction
    BY <1>2, <1>4, <2>1, <2>2, Closed
  <2>6. Times(v[1], Zero) = Zero /\ Times(v[2], Zero) = Zero /\ Plus(Zero, Zero) = Zero
        /\ Plus(Zero, Times(m, det(M))) = Times(m, det(M))
    BY <2>5, Neutral, Closed
  <2>7. Positive(Times(m, det(M)))
    BY <1>2, <2>2, <2>3, <2>4, <2>6
  <2>. QED  BY <1>4, <1>5, <2>1, <2>7, SignLaws
<1>7. M[2][1] = M[1][2]
  BY <1>1
<1>. QED  BY <1>3, <1>4, <1>5, <1>6, <1>7 DEF m

\* Of a definite matrix, Cramer's rule finds the only solution.
LEMMA SolvedOnly ==
  ASSUME NEW M, Definite(M), NEW v \in Vec
  PROVE  /\ Solved(M, v) \in Vec /\ Apply(M, Solved(M, v)) = v
         /\ \A x \in Vec : Apply(M, x) = v => x = Solved(M, v)
<1>1. Symmetric(M) /\ M \in Mat3
  BY DEF Definite, Symmetric
<1>2. det(M) # Zero
  BY Minors, Neutral, Closed
<1>3. Solved(M, v) \in Vec /\ Apply(M, Solved(M, v)) = v
  BY <1>1, <1>2, SolvedFits DEF Symmetric
<1>4. ASSUME NEW x \in Vec, NEW y \in Vec, Apply(M, x) = v, Apply(M, y) = v
      PROVE  x = y
  <2>. DEFINE z == VMinus(x, y)
  <2>1. z \in Vec
    BY VecOps, Closed
  <2>2. Apply(M, z) = VMinus(Apply(M, x), Apply(M, y))
    BY <1>1, ApplyLaws, Closed
  <2>3. Apply(M, z) = NullV
    BY <1>4, <2>2, NullLaws
  <2>4. Dot(z, Apply(M, z)) = Zero
    BY <2>1, <2>3, NullLaws
  <2>5. z = NullV
    BY <2>1, <2>4, Neutral, Closed DEF Definite
  <2>. QED  BY <2>5, NullLaws
<1>. QED  BY <1>3, <1>4

\* Vectors form a group under addition.
LEMMA VecLaws ==
  ASSUME NEW v \in Vec, NEW w \in Vec, NEW u \in Vec
  PROVE  /\ VPlus(v, w) \in Vec /\ VMinus(v, w) \in Vec
         /\ VPlus(v, w) = VPlus(w, v) /\ VPlus(VPlus(v, w), u) = VPlus(v, VPlus(w, u))
         /\ VMinus(VPlus(v, w), w) = v /\ VPlus(VMinus(v, w), w) = v
<1>1. \A x, y1 \in Vec : /\ VPlus(x, y1) \in Vec /\ \A i \in 1..3 : VPlus(x, y1)[i] = Plus(x[i], y1[i])
                        /\ VMinus(x, y1) \in Vec /\ \A i \in 1..3 : VMinus(x, y1)[i] = Minus(x[i], y1[i])
  BY VecOps, Closed
<1>2. \A x, y1 \in Vec : (\A i \in 1..3 : x[i] = y1[i]) => x = y1
  BY Equal3 DEF Vec
<1>3. \A i \in 1..3 : v[i] \in Fraction /\ w[i] \in Fraction /\ u[i] \in Fraction
  BY DEF Vec
<1>4. \A p, q, r \in Fraction : /\ Plus(p, q) = Plus(q, p) /\ Plus(Plus(p, q), r) = Plus(p, Plus(q, r))
                                /\ Minus(Plus(p, q), q) = p /\ Plus(Minus(p, q), q) = p
  BY PlusLaws
<1>5. VPlus(v, w) = VPlus(w, v)
  BY <1>1, <1>2, <1>3, <1>4
<1>6. VPlus(VPlus(v, w), u) = VPlus(v, VPlus(w, u))
  BY <1>1, <1>2, <1>3, <1>4
<1>7. VMinus(VPlus(v, w), w) = v
  BY <1>1, <1>2, <1>3, <1>4
<1>8. VPlus(VMinus(v, w), w) = v
  BY <1>1, <1>2, <1>3, <1>4
<1>. QED  BY <1>1, <1>5, <1>6, <1>7, <1>8

\* The sign of a fraction is that of its numerator over any positive denominator.
LEMMA SignOver ==
  ASSUME NEW p \in Fraction, NEW a \in Int, NEW D \in Nat \ {0}, Is(p, a, D)
  PROVE  Negative(p) <=> a < 0
<1>1. Zero \in Fraction /\ Is(Zero, 0, D)
  BY ZeroIs
<1>2. Less(p, Zero) <=> a < 0
  BY <1>1, SumOver
<1>. QED  BY <1>1, <1>2, LessLaws

\* Numerators of two vectors over one denominator.
LEMMA Common6 ==
  ASSUME NEW v \in Vec, NEW w \in Vec
  PROVE  \E D \in Nat \ {0}, a \in Int, b \in Int, c \in Int, d \in Int, e \in Int, f \in Int :
           /\ Is(v[1], a, D) /\ Is(v[2], b, D) /\ Is(v[3], c, D) /\ Is(w[1], d, D) /\ Is(w[2], e, D) /\ Is(w[3], f, D)
<1>1. PICK D \in Nat \ {0}, m \in NumVec, n \in NumVec : Holds(v, m, D) /\ Holds(w, n, D)
  BY Numerators
<1>2. /\ m[1] \in Int /\ m[2] \in Int /\ m[3] \in Int /\ n[1] \in Int /\ n[2] \in Int /\ n[3] \in Int
  BY DEF NumVec
<1>. QED  BY <1>1, <1>2 DEF Holds

\* A sum in another order.
LEMMA Rearranged ==
  ASSUME NEW p \in Fraction, NEW a \in Fraction, NEW b \in Fraction, NEW c \in Fraction, NEW d \in Fraction
  PROVE  Minus(Minus(p, a), Minus(b, Minus(Plus(b, c), d))) = Minus(Plus(p, c), Plus(a, d))
<1>1. PICK D \in Nat \ {0}, ip \in Int, ia \in Int, ib \in Int, ic \in Int, id \in Int :
        Is(p, ip, D) /\ Is(a, ia, D) /\ Is(b, ib, D) /\ Is(c, ic, D) /\ Is(d, id, D)
  <2>. DEFINE v == <<p, a, b>> w == <<c, d, Zero>>
  <2>1. v \in Vec /\ w \in Vec
    BY VecParts, Closed
  <2>2. v[1] = p /\ v[2] = a /\ v[3] = b /\ w[1] = c /\ w[2] = d /\ w[3] = Zero
    OBVIOUS
  <2>. HIDE DEF v, w
  <2>3. \E D \in Nat \ {0}, k1 \in Int, k2 \in Int, k3 \in Int, k4 \in Int, k5 \in Int, k6 \in Int :
           /\ Is(v[1], k1, D) /\ Is(v[2], k2, D) /\ Is(v[3], k3, D) /\ Is(w[1], k4, D) /\ Is(w[2], k5, D) /\ Is(w[3], k6, D)
    BY <2>1, Common6
  <2>. QED  BY <2>2, <2>3
<1>2. /\ Minus(p, a) \in Fraction /\ Is(Minus(p, a), ip - ia, D) /\ ip - ia \in Int
      /\ Plus(b, c) \in Fraction /\ Is(Plus(b, c), ib + ic, D) /\ ib + ic \in Int
      /\ Plus(p, c) \in Fraction /\ Is(Plus(p, c), ip + ic, D) /\ ip + ic \in Int
      /\ Plus(a, d) \in Fraction /\ Is(Plus(a, d), ia + id, D) /\ ia + id \in Int
  BY <1>1, SumOver, Closed
<1>3. /\ Minus(Plus(b, c), d) \in Fraction /\ Is(Minus(Plus(b, c), d), (ib + ic) - id, D) /\ (ib + ic) - id \in Int
      /\ Minus(Plus(p, c), Plus(a, d)) \in Fraction
      /\ Is(Minus(Plus(p, c), Plus(a, d)), (ip + ic) - (ia + id), D) /\ (ip + ic) - (ia + id) \in Int
  BY <1>1, <1>2, SumOver, Closed
<1>4. /\ Minus(b, Minus(Plus(b, c), d)) \in Fraction
      /\ Is(Minus(b, Minus(Plus(b, c), d)), ib - ((ib + ic) - id), D) /\ ib - ((ib + ic) - id) \in Int
  BY <1>1, <1>3, SumOver, Closed
<1>5. /\ Minus(Minus(p, a), Minus(b, Minus(Plus(b, c), d))) \in Fraction
      /\ Is(Minus(Minus(p, a), Minus(b, Minus(Plus(b, c), d))), (ip - ia) - (ib - ((ib + ic) - id)), D)
  BY <1>2, <1>4, SumOver, Closed
<1>6. (ip - ia) - (ib - ((ib + ic) - id)) = (ip + ic) - (ia + id)
  OBVIOUS
<1>7. D \in Int /\ D # 0
  OBVIOUS
<1>. QED  BY <1>3, <1>5, <1>6, <1>7, Same

\* A difference by what is not negative is not more.
LEMMA Drops ==
  ASSUME NEW p \in Fraction, NEW q \in Fraction, ~Negative(q)
  PROVE  ~Less(p, Minus(p, q))
<1>1. PICK D \in Nat \ {0}, a \in Int, b \in Int, c \in Int : Is(p, a, D) /\ Is(q, b, D) /\ Is(q, c, D)
  BY Common3
<1>2. Minus(p, q) \in Fraction /\ Is(Minus(p, q), a - b, D) /\ a - b \in Int
  BY <1>1, SumOver, Closed
<1>3. ~(b < 0)
  BY <1>1, SignOver
<1>4. Less(p, Minus(p, q)) <=> a < a - b
  BY <1>1, <1>2, SumOver
<1>. QED  BY <1>3, <1>4

\* What two squares that are not negative say of their middle terms.
LEMMA Bounded ==
  ASSUME NEW p \in Fraction, NEW q \in Fraction, NEW r \in Fraction,
         NEW s \in Fraction, NEW t \in Fraction, NEW u \in Fraction,
         Plus(p, q) = Plus(r, s), ~Negative(Plus(Minus(p, Plus(r, r)), t)), ~Negative(Plus(Minus(u, Plus(s, s)), q))
  PROVE  ~Less(Plus(t, u), Plus(p, q))
<1>1. PICK D \in Nat \ {0}, a \in Int, b \in Int, c \in Int, d \in Int, e \in Int, f \in Int :
        Is(p, a, D) /\ Is(q, b, D) /\ Is(r, c, D) /\ Is(s, d, D) /\ Is(t, e, D) /\ Is(u, f, D)
  <2>. DEFINE v == <<p, q, r>> w == <<s, t, u>>
  <2>1. v \in Vec /\ w \in Vec
    BY VecParts, Closed
  <2>2. v[1] = p /\ v[2] = q /\ v[3] = r /\ w[1] = s /\ w[2] = t /\ w[3] = u
    OBVIOUS
  <2>. HIDE DEF v, w
  <2>3. \E D \in Nat \ {0}, k1 \in Int, k2 \in Int, k3 \in Int, k4 \in Int, k5 \in Int, k6 \in Int :
           /\ Is(v[1], k1, D) /\ Is(v[2], k2, D) /\ Is(v[3], k3, D) /\ Is(w[1], k4, D) /\ Is(w[2], k5, D) /\ Is(w[3], k6, D)
    BY <2>1, Common6
  <2>. QED  BY <2>2, <2>3
<1>2. /\ Plus(p, q) \in Fraction /\ Is(Plus(p, q), a + b, D) /\ a + b \in Int
      /\ Plus(r, s) \in Fraction /\ Is(Plus(r, s), c + d, D) /\ c + d \in Int
      /\ Plus(t, u) \in Fraction /\ Is(Plus(t, u), e + f, D) /\ e + f \in Int
      /\ Plus(r, r) \in Fraction /\ Is(Plus(r, r), c + c, D) /\ c + c \in Int
      /\ Plus(s, s) \in Fraction /\ Is(Plus(s, s), d + d, D) /\ d + d \in Int
  BY <1>1, SumOver, Closed
<1>3. /\ Minus(p, Plus(r, r)) \in Fraction /\ Is(Minus(p, Plus(r, r)), a - (c + c), D) /\ a - (c + c) \in Int
      /\ Minus(u, Plus(s, s)) \in Fraction /\ Is(Minus(u, Plus(s, s)), f - (d + d), D) /\ f - (d + d) \in Int
  BY <1>1, <1>2, SumOver, Closed
<1>4. /\ Plus(Minus(p, Plus(r, r)), t) \in Fraction /\ Is(Plus(Minus(p, Plus(r, r)), t), (a - (c + c)) + e, D)
      /\ Plus(Minus(u, Plus(s, s)), q) \in Fraction /\ Is(Plus(Minus(u, Plus(s, s)), q), (f - (d + d)) + b, D)
      /\ (a - (c + c)) + e \in Int /\ (f - (d + d)) + b \in Int
  BY <1>1, <1>3, SumOver, Closed
<1>5. ~((a - (c + c)) + e < 0) /\ ~((f - (d + d)) + b < 0)
  BY <1>4, SignOver
<1>6. a + b = c + d
  BY <1>2, SumOver
<1>7. Less(Plus(t, u), Plus(p, q)) <=> e + f < a + b
  BY <1>2, SumOver
<1>. QED  BY <1>5, <1>6, <1>7

\* Not-less is transitive, and sums respect it.
LEMMA NotLessLaws ==
  ASSUME NEW p \in Fraction, NEW q \in Fraction, NEW r \in Fraction, NEW s \in Fraction
  PROVE  /\ ~Less(p, q) /\ ~Less(q, r) => ~Less(p, r)
         /\ ~Less(p, q) /\ ~Less(r, s) => ~Less(Plus(p, r), Plus(q, s))
         /\ p = q => ~Less(p, q)
<1>1. PICK D \in Nat \ {0}, a \in Int, b \in Int, c \in Int, d \in Int :
        Is(p, a, D) /\ Is(q, b, D) /\ Is(r, c, D) /\ Is(s, d, D)
  <2>. DEFINE v == <<p, q, r>> w == <<s, s, s>>
  <2>1. v \in Vec /\ w \in Vec
    BY VecParts, Closed
  <2>2. v[1] = p /\ v[2] = q /\ v[3] = r /\ w[1] = s /\ w[2] = s /\ w[3] = s
    OBVIOUS
  <2>. HIDE DEF v, w
  <2>3. \E D \in Nat \ {0}, k1 \in Int, k2 \in Int, k3 \in Int, k4 \in Int, k5 \in Int, k6 \in Int :
           /\ Is(v[1], k1, D) /\ Is(v[2], k2, D) /\ Is(v[3], k3, D) /\ Is(w[1], k4, D) /\ Is(w[2], k5, D) /\ Is(w[3], k6, D)
    BY <2>1, Common6
  <2>. QED  BY <2>2, <2>3
<1>2. /\ Plus(p, r) \in Fraction /\ Is(Plus(p, r), a + c, D) /\ a + c \in Int
      /\ Plus(q, s) \in Fraction /\ Is(Plus(q, s), b + d, D) /\ b + d \in Int
  BY <1>1, SumOver, Closed
<1>3. /\ (Less(p, q) <=> a < b) /\ (Less(q, r) <=> b < c) /\ (Less(p, r) <=> a < c) /\ (Less(r, s) <=> c < d)
      /\ (p = q <=> a = b)
  BY <1>1, SumOver
<1>4. Less(Plus(p, r), Plus(q, s)) <=> a + c < b + d
  BY <1>2, SumOver
<1>. QED  BY <1>3, <1>4

\* The square of a difference.
LEMMA Unfolded ==
  /\ \A p, q, r \in Fraction : Minus(Minus(p, q), Minus(q, r)) = Plus(Minus(p, Plus(q, q)), r)
  /\ \A p, q \in Fraction : Times(Minus(p, q), Minus(p, q))
                              = Plus(Minus(Times(p, p), Plus(Times(p, q), Times(p, q))), Times(q, q))
<1>1. ASSUME NEW p \in Fraction, NEW q \in Fraction, NEW r \in Fraction
      PROVE  Minus(Minus(p, q), Minus(q, r)) = Plus(Minus(p, Plus(q, q)), r)
  <2>1. PICK D \in Nat \ {0}, a \in Int, b \in Int, c \in Int : Is(p, a, D) /\ Is(q, b, D) /\ Is(r, c, D)
    BY Common3
  <2>2. /\ Minus(p, q) \in Fraction /\ Is(Minus(p, q), a - b, D) /\ a - b \in Int
        /\ Minus(q, r) \in Fraction /\ Is(Minus(q, r), b - c, D) /\ b - c \in Int
        /\ Plus(q, q) \in Fraction /\ Is(Plus(q, q), b + b, D) /\ b + b \in Int
    BY <2>1, SumOver, Closed
  <2>3. /\ Minus(Minus(p, q), Minus(q, r)) \in Fraction /\ Is(Minus(Minus(p, q), Minus(q, r)), (a - b) - (b - c), D)
        /\ Minus(p, Plus(q, q)) \in Fraction /\ Is(Minus(p, Plus(q, q)), a - (b + b), D) /\ a - (b + b) \in Int
    BY <2>1, <2>2, SumOver, Closed
  <2>4. /\ Plus(Minus(p, Plus(q, q)), r) \in Fraction /\ Is(Plus(Minus(p, Plus(q, q)), r), (a - (b + b)) + c, D)
    BY <2>1, <2>3, SumOver, Closed
  <2>5. (a - b) - (b - c) = (a - (b + b)) + c /\ (a - b) - (b - c) \in Int /\ D \in Int /\ D # 0
    OBVIOUS
  <2>. QED  BY <2>3, <2>4, <2>5, Same
<1>2. ASSUME NEW p \in Fraction, NEW q \in Fraction
      PROVE  Times(Minus(p, q), Minus(p, q))
               = Plus(Minus(Times(p, p), Plus(Times(p, q), Times(p, q))), Times(q, q))
  <2>. DEFINE d == Minus(p, q)
  <2>1. d \in Fraction /\ Times(p, p) \in Fraction /\ Times(p, q) \in Fraction /\ Times(q, q) \in Fraction
    BY Closed
  <2>2. Times(p, d) = Minus(Times(p, p), Times(p, q)) /\ Times(q, d) = Minus(Times(q, p), Times(q, q))
        /\ Times(q, p) = Times(p, q)
    BY TimesLaws
  <2>. HIDE DEF d
  <2>3. Times(d, Minus(p, q)) = Minus(Times(d, p), Times(d, q)) /\ Times(d, p) = Times(p, d) /\ Times(d, q) = Times(q, d)
    BY <2>1, TimesLaws
  <2>4. Times(d, d) = Minus(Minus(Times(p, p), Times(p, q)), Minus(Times(p, q), Times(q, q)))
    BY <2>2, <2>3 DEF d
  <2>. QED  BY <1>1, <2>1, <2>4 DEF d
<1>. QED  BY <1>1, <1>2

\* A product that is not negative, by a positive factor.
LEMMA SignBack ==
  ASSUME NEW p \in Fraction, NEW q \in Fraction, Positive(p), ~Negative(Times(p, q))
  PROVE  ~Negative(q)
<1>. DEFINE a == p[1] b == p[2] c == q[1] d == q[2]
<1>1. a \in Int /\ a > 0 /\ b \in Nat /\ b > 0 /\ c \in Int /\ d \in Nat /\ d > 0
  BY FractionParts DEF Positive
<1>2. Times(p, q) \in Fraction /\ Is(Times(p, q), a * c, b * d)
  BY TimesParts
<1>3. b * d \in Nat \ {0} /\ a * c \in Int
  BY <1>1, Factors
<1>4. ~(a * c < 0)
  BY <1>2, <1>3, SignOver
<1>5. ~(c < 0)
  BY <1>1, <1>4
<1>. QED  BY <1>5 DEF Negative

\* A foot that moves by c, with variance s: what it can add.
LEMMA MoveCosts ==
  ASSUME NEW c \in Fraction, NEW s \in Fraction, Positive(s), NEW t \in Fraction
  PROVE  ~Negative(Plus(Minus(Over(Times(c, c), s), Plus(Times(c, t), Times(c, t))), Times(s, Times(t, t))))
<1>. DEFINE k == Over(Times(c, c), s) v == Times(c, t) w == Times(s, Times(t, t)) m == Times(s, t)
            x == Plus(Minus(k, Plus(v, v)), w)
<1>1. Times(c, c) \in Fraction /\ s # Zero
  BY Neutral, Closed
<1>2. k \in Fraction /\ Times(s, k) = Times(c, c)
  BY <1>1, OverIs
<1>3. v \in Fraction /\ w \in Fraction /\ m \in Fraction /\ Plus(v, v) \in Fraction /\ Times(t, t) \in Fraction
  BY Closed
<1>4. Times(s, v) = Times(c, m)
  <2>1. Times(s, Times(c, t)) = Times(Times(s, c), t) /\ Times(s, c) = Times(c, s) /\ Times(Times(c, s), t)
          = Times(c, Times(s, t))
    BY TimesLaws
  <2>. QED  BY <2>1
<1>5. Times(s, w) = Times(m, m)
  <2>1. Times(Times(s, t), m) = Times(s, Times(t, m))
    BY <1>3, TimesLaws
  <2>2. Times(t, Times(s, t)) = Times(Times(t, s), t) /\ Times(t, s) = Times(s, t) /\ Times(Times(s, t), t)
          = Times(s, Times(t, t))
    BY TimesLaws
  <2>. QED  BY <2>1, <2>2
<1>. HIDE DEF k, v, w, m
<1>6. Minus(k, Plus(v, v)) \in Fraction /\ x \in Fraction
  BY <1>2, <1>3, Closed
<1>7. Times(s, x) = Plus(Minus(Times(c, c), Plus(Times(c, m), Times(c, m))), Times(m, m))
  <2>1. Times(s, x) = Plus(Times(s, Minus(k, Plus(v, v))), Times(s, w))
    BY <1>3, <1>6, TimesLaws
  <2>2. Times(s, Minus(k, Plus(v, v))) = Minus(Times(s, k), Times(s, Plus(v, v)))
    BY <1>2, <1>3, TimesLaws
  <2>3. Times(s, Plus(v, v)) = Plus(Times(s, v), Times(s, v))
    BY <1>3, TimesLaws
  <2>. QED  BY <1>2, <1>4, <1>5, <2>1, <2>2, <2>3
<1>8. ~Negative(Times(s, x))
  <2>1. Minus(c, m) \in Fraction
    BY <1>3, Closed
  <2>2. ~Negative(Times(Minus(c, m), Minus(c, m)))
    BY <2>1, SignLaws
  <2>. QED  BY <1>3, <1>7, <2>2, Unfolded
<1>9. ~Negative(x)
  BY <1>6, <1>8, SignBack
<1>. QED  BY <1>9 DEF k, v, w

\* A quotient in a product, and a number against its own opposite.
LEMMA Quotients ==
  ASSUME NEW p \in Fraction, NEW q \in Fraction, NEW s \in Fraction, s # Zero
  PROVE  /\ Times(p, Over(q, s)) = Over(Times(p, q), s)
         /\ Over(Plus(p, q), s) = Plus(Over(p, s), Over(q, s))
         /\ Times(Minus(Zero, p), Minus(Zero, p)) = Times(p, p)
         /\ Times(<<2, 1>>, p) = Plus(p, p)
<1>1. Over(p, s) \in Fraction /\ Over(q, s) \in Fraction /\ Times(s, Over(p, s)) = p /\ Times(s, Over(q, s)) = q
      /\ Times(p, q) \in Fraction /\ Plus(p, q) \in Fraction
  BY OverIs, Closed
<1>2. Times(p, Over(q, s)) = Over(Times(p, q), s)
  <2>1. Times(s, Times(p, Over(q, s))) = Times(p, q)
    <3>1. Times(Times(s, p), Over(q, s)) = Times(s, Times(p, Over(q, s))) /\ Times(s, p) = Times(p, s)
          /\ Times(Times(p, s), Over(q, s)) = Times(p, Times(s, Over(q, s)))
      BY <1>1, TimesLaws
    <3>. QED  BY <1>1, <3>1
  <2>2. Times(p, Over(q, s)) \in Fraction
    BY <1>1, Closed
  <2>. QED  BY <1>1, <2>1, <2>2, OverIs
<1>3. Over(Plus(p, q), s) = Plus(Over(p, s), Over(q, s))
  <2>1. Times(s, Plus(Over(p, s), Over(q, s))) = Plus(p, q)
    BY <1>1, TimesLaws
  <2>2. Plus(Over(p, s), Over(q, s)) \in Fraction
    BY <1>1, Closed
  <2>. QED  BY <1>1, <2>1, <2>2, OverIs
<1>4. Times(Minus(Zero, p), Minus(Zero, p)) = Times(p, p)
  <2>1. Times(Minus(Zero, p), Minus(Zero, p))
          = Plus(Minus(Times(Zero, Zero), Plus(Times(Zero, p), Times(Zero, p))), Times(p, p))
    BY Unfolded, Closed
  <2>2. Times(Zero, Zero) = Zero /\ Times(Zero, p) = Zero /\ Plus(Zero, Zero) = Zero /\ Minus(Zero, Zero) = Zero
    BY Neutral, Closed
  <2>3. Plus(Zero, Times(p, p)) = Times(p, p)
    BY Neutral, Closed
  <2>. QED  BY <2>1, <2>2, <2>3
<1>5. Times(<<2, 1>>, p) = Plus(p, p)
  <2>1. <<2, 1>> = Plus(One, One)
    <3>1. Is(One, 1, 1) /\ One \in Fraction /\ 1 \in Nat \ {0} /\ 1 \in Int
      BY ZeroIs
    <3>2. Plus(One, One) \in Fraction /\ Is(Plus(One, One), 1 + 1, 1)
      BY <3>1, SumOver, Closed
    <3>3. <<2, 1>> \in Fraction /\ Is(<<2, 1>>, 2, 1)
      BY WholeIs
    <3>4. 1 + 1 = 2 /\ 2 \in Int /\ 1 # 0
      OBVIOUS
    <3>. QED  BY <3>2, <3>3, <3>4, Same
  <2>2. Plus(One, One) \in Fraction /\ One \in Fraction
    BY Closed
  <2>3. Times(Plus(One, One), p) = Times(p, Plus(One, One)) /\ Times(p, Plus(One, One)) = Plus(Times(p, One), Times(p, One))
    BY <2>2, TimesLaws
  <2>. QED  BY <2>1, <2>3, Neutral
<1>. QED  BY <1>2, <1>3, <1>4, <1>5

\* What starts at zero stays there.
LEMMA NullStays ==
  /\ \A M \in Mat3 : Apply(M, NullV) = NullV
  /\ \A S : Definite(S) => Solved(S, NullV) = NullV
<1>1. NullV \in Vec
  BY VecParts
<1>2. ASSUME NEW M \in Mat3
      PROVE  Apply(M, NullV) = NullV
  <2>1. Apply(M, NullV) \in Vec
    BY <1>1, ApplyIs
  <2>2. Apply(M, VMinus(NullV, NullV)) = VMinus(Apply(M, NullV), Apply(M, NullV))
    BY <1>1, ApplyLaws, Closed
  <2>. QED  BY <1>1, <2>1, <2>2, NullLaws
<1>3. ASSUME NEW S, Definite(S)
      PROVE  Solved(S, NullV) = NullV
  <2>1. S \in Mat3
    BY <1>3 DEF Definite, Symmetric
  <2>. QED  BY <1>1, <1>2, <1>3, <2>1, SolvedOnly
<1>. QED  BY <1>2, <1>3

-----------------------------------------------------------------------------
(* Sums, products and squares. *)

\* Squares and opposites are fractions.
LEMMA MoreClosed == \A p \in Fraction : Square(p) \in Fraction /\ Opposite(p) \in Fraction
BY Closed DEF Square, Opposite

\* Twice the opposite.
LEMMA Twice ==
  ASSUME NEW x \in Fraction
  PROVE  Minus(Zero, Minus(Zero, x)) = x
<1>. DEFINE f == <<x>>
<1>1. f \in [1..1 -> Fraction] /\ 1 \in Nat
  OBVIOUS
<1>2. PICK D \in Nat \ {0}, num \in [1..1 -> Int] : \A i \in 1..1 : Val(f[i], num[i], D)
  <2>. HIDE DEF f
  <2>. QED  BY <1>1, Values
<1>. DEFINE x0 == num[1]
<1>3. D \in Nat \ {0}
  BY Powers
<1>4. /\ x0 \in Int /\ Val(x, x0, D)
  BY <1>2
<1>. HIDE DEF f, x0
<1>5. Val(Minus(Zero, Minus(Zero, x)), (0 - (0 - x0)), D)
  BY <1>3, <1>4, ValNumbers, ValSum
<1>6. (0 - (0 - x0)) = x0
  BY <1>3, <1>4
<1>7. Minus(Zero, Minus(Zero, x)) = x
  BY <1>4, <1>5, <1>6, ValSame
<1>. QED  BY <1>7

\* Factors change places.
LEMMA Swapped == \A p, q, r \in Fraction : Times(p, Times(q, r)) = Times(q, Times(p, r))
<1>1. ASSUME NEW p \in Fraction, NEW q \in Fraction, NEW r \in Fraction
      PROVE  Times(p, Times(q, r)) = Times(q, Times(p, r))
  <2>1. Times(p, Times(q, r)) = Times(Times(p, q), r) /\ Times(p, q) = Times(q, p)
    BY TimesLaws
  <2>2. Times(Times(q, p), r) = Times(q, Times(p, r))
    BY TimesLaws
  <2>. QED  BY <2>1, <2>2
<1>. QED  BY <1>1

\* Taken away and given back.
LEMMA Emptied ==
  ASSUME NEW x \in Fraction, NEW y \in Fraction
  PROVE  Plus(Plus(Opposite(Plus(x, y)), y), x) = Zero
<1>. DEFINE f == <<x, y>>
<1>1. f \in [1..2 -> Fraction] /\ 2 \in Nat
  OBVIOUS
<1>2. PICK D \in Nat \ {0}, num \in [1..2 -> Int] : \A i \in 1..2 : Val(f[i], num[i], D)
  <2>. HIDE DEF f
  <2>. QED  BY <1>1, Values
<1>. DEFINE x0 == num[1]
            y0 == num[2]
<1>3. D \in Nat \ {0}
  BY Powers
<1>4. /\ x0 \in Int /\ Val(x, x0, D)
      /\ y0 \in Int /\ Val(y, y0, D)
  BY <1>2
<1>. HIDE DEF f, x0, y0
<1>5. Val(Plus(Plus(Opposite(Plus(x, y)), y), x), (((0 - (x0 + y0)) + y0) + x0), D)
  BY <1>3, <1>4, ValNumbers, ValSum DEF Opposite
<1>6. Val(Zero, 0, D)
  BY <1>3, ValNumbers
<1>7. (((0 - (x0 + y0)) + y0) + x0) = 0
  BY <1>3, <1>4
<1>8. Plus(Plus(Opposite(Plus(x, y)), y), x) = Zero
  BY <1>5, <1>6, <1>7, ValSame
<1>. QED  BY <1>8

\* Minus one takes to the opposite.
LEMMA MinusTerms ==
  \A p \in Fraction : /\ Times(<<-1, 1>>, p) = Minus(Zero, p)
                     /\ \A q \in Fraction : Plus(Plus(Times(<<-1, 1>>, Plus(p, q)), q), p) = Zero
<1>1. ASSUME NEW p \in Fraction
      PROVE  Times(<<-1, 1>>, p) = Minus(Zero, p)
  <2>1. <<-1, 1>> \in Fraction /\ Is(<<-1, 1>>, -1, 1)
    BY WholeIs
  <2>2. Is(p, p[1], p[2]) /\ p[1] \in Int /\ p[2] \in Nat \ {0}
    BY FractionParts
  <2>3. Is(Times(<<-1, 1>>, p), -p[1], p[2]) /\ Times(<<-1, 1>>, p) \in Fraction
    <3>1. Is(Times(<<-1, 1>>, p), (-1) * p[1], 1 * p[2])
      BY <2>1, <2>2, TimesIs
    <3>. QED  BY <3>1, <2>1, <2>2, Closed
  <2>4. Is(Minus(Zero, p), -p[1], p[2]) /\ Minus(Zero, p) \in Fraction
    <3>1. Is(Zero, 0, p[2]) /\ Zero \in Fraction
      BY <2>2, ZeroIs
    <3>2. Is(Minus(Zero, p), 0 - p[1], p[2])
      BY <2>2, <3>1, SumOver
    <3>3. 0 - p[1] = -p[1]
      BY <2>2
    <3>. QED  BY <3>1, <3>2, <3>3, Closed
  <2>. QED  BY <2>2, <2>3, <2>4, Same
<1>2. ASSUME NEW p \in Fraction, NEW q \in Fraction
      PROVE  Plus(Plus(Times(<<-1, 1>>, Plus(p, q)), q), p) = Zero
  <2>1. Times(<<-1, 1>>, Plus(p, q)) = Opposite(Plus(p, q))
    BY <1>1, Closed DEF Opposite
  <2>. QED  BY <2>1, Emptied
<1>. QED  BY <1>1, <1>2

\* A product is zero only by a factor that is.
LEMMA NoZeros ==
  \A p, q \in Fraction : Times(p, q) = Zero => p = Zero \/ q = Zero
<1>1. ASSUME NEW p \in Fraction, NEW q \in Fraction, Times(p, q) = Zero, p # Zero
      PROVE  q = Zero
  <2>1. Times(p, Zero) = Zero /\ Zero \in Fraction
    BY TimesLaws, Closed
  <2>. QED  BY <1>1, <2>1, CancelTimes
<1>. QED  BY <1>1

\* What is taken away was there.
LEMMA Taken ==
  ASSUME NEW x \in Fraction, NEW y \in Fraction, NEW z \in Fraction
  PROVE  /\ Plus(Minus(x, y), y) = x
         /\ Minus(Plus(x, y), y) = x
         /\ Minus(y, Minus(y, x)) = x
<1>. DEFINE f == <<x, y, z>>
<1>1. f \in [1..3 -> Fraction] /\ 3 \in Nat
  OBVIOUS
<1>2. PICK D \in Nat \ {0}, num \in [1..3 -> Int] : \A i \in 1..3 : Val(f[i], num[i], D)
  <2>. HIDE DEF f
  <2>. QED  BY <1>1, Values
<1>. DEFINE x0 == num[1]
            y0 == num[2]
            z0 == num[3]
<1>3. D \in Nat \ {0}
  BY Powers
<1>4. /\ x0 \in Int /\ Val(x, x0, D)
      /\ y0 \in Int /\ Val(y, y0, D)
      /\ z0 \in Int /\ Val(z, z0, D)
  BY <1>2
<1>. HIDE DEF f, x0, y0, z0
<1>5. Val(Plus(Minus(x, y), y), ((x0 - y0) + y0), D)
  BY <1>3, <1>4, ValSum
<1>6. ((x0 - y0) + y0) = x0
  BY <1>3, <1>4
<1>7. Plus(Minus(x, y), y) = x
  BY <1>4, <1>5, <1>6, ValSame
<1>8. Val(Minus(Plus(x, y), y), ((x0 + y0) - y0), D)
  BY <1>3, <1>4, ValSum
<1>9. ((x0 + y0) - y0) = x0
  BY <1>3, <1>4
<1>10. Minus(Plus(x, y), y) = x
  BY <1>4, <1>8, <1>9, ValSame
<1>11. Val(Minus(y, Minus(y, x)), (y0 - (y0 - x0)), D)
  BY <1>3, <1>4, ValSum
<1>12. (y0 - (y0 - x0)) = x0
  BY <1>3, <1>4
<1>13. Minus(y, Minus(y, x)) = x
  BY <1>4, <1>11, <1>12, ValSame
<1>. QED  BY <1>7, <1>10, <1>13

\* The square of an opposite.
LEMMA SquareOpposite ==
  ASSUME NEW x \in Fraction
  PROVE  Square(Opposite(x)) = Square(x)
<1>. DEFINE f == <<x>>
<1>1. f \in [1..1 -> Fraction] /\ 1 \in Nat
  OBVIOUS
<1>2. PICK D \in Nat \ {0}, num \in [1..1 -> Int] : \A i \in 1..1 : Val(f[i], num[i], D)
  <2>. HIDE DEF f
  <2>. QED  BY <1>1, Values
<1>. DEFINE x0 == num[1]
            D2 == D * D
<1>3. /\ D \in Nat \ {0}
      /\ D2 \in Nat \ {0} /\ D2 = D * D
  BY Powers
<1>4. /\ x0 \in Int /\ Val(x, x0, D)
  BY <1>2
<1>. HIDE DEF f, x0, D2
<1>5. Val(Square(Opposite(x)), ((0 - x0) * (0 - x0)), D2)
  BY <1>3, <1>4, ValNumbers, ValSum, ValTimes DEF Opposite, Square
<1>6. Val(Square(x), (x0 * x0), D2)
  BY <1>3, <1>4, ValTimes DEF Square
<1>7. ((0 - x0) * (0 - x0)) = (x0 * x0)
  BY <1>3, <1>4
<1>8. Square(Opposite(x)) = Square(x)
  BY <1>5, <1>6, <1>7, ValSame
<1>. QED  BY <1>8

\* A product of opposites.
LEMMA Opposites ==
  ASSUME NEW m \in Fraction, NEW x \in Fraction
  PROVE  /\ Times(m, Opposite(x)) = Opposite(Times(m, x))
         /\ Times(Opposite(m), Opposite(x)) = Times(m, x)
<1>. DEFINE f == <<m, x>>
<1>1. f \in [1..2 -> Fraction] /\ 2 \in Nat
  OBVIOUS
<1>2. PICK D \in Nat \ {0}, num \in [1..2 -> Int] : \A i \in 1..2 : Val(f[i], num[i], D)
  <2>. HIDE DEF f
  <2>. QED  BY <1>1, Values
<1>. DEFINE m0 == num[1]
            x0 == num[2]
            D2 == D * D
<1>3. /\ D \in Nat \ {0}
      /\ D2 \in Nat \ {0} /\ D2 = D * D
  BY Powers
<1>4. /\ m0 \in Int /\ Val(m, m0, D)
      /\ x0 \in Int /\ Val(x, x0, D)
  BY <1>2
<1>. HIDE DEF f, m0, x0, D2
<1>5. Val(Times(m, Opposite(x)), (m0 * (0 - x0)), D2)
  BY <1>3, <1>4, ValNumbers, ValSum, ValTimes DEF Opposite
<1>6. Val(Opposite(Times(m, x)), (0 - (m0 * x0)), D2)
  BY <1>3, <1>4, ValNumbers, ValSum, ValTimes DEF Opposite
<1>7. (m0 * (0 - x0)) = (0 - (m0 * x0))
  BY <1>3, <1>4
<1>8. Times(m, Opposite(x)) = Opposite(Times(m, x))
  BY <1>5, <1>6, <1>7, ValSame
<1>9. Val(Times(Opposite(m), Opposite(x)), ((0 - m0) * (0 - x0)), D2)
  BY <1>3, <1>4, ValNumbers, ValSum, ValTimes DEF Opposite
<1>10. Val(Times(m, x), (m0 * x0), D2)
  BY <1>3, <1>4, ValTimes
<1>11. ((0 - m0) * (0 - x0)) = (m0 * x0)
  BY <1>3, <1>4
<1>12. Times(Opposite(m), Opposite(x)) = Times(m, x)
  BY <1>9, <1>10, <1>11, ValSame
<1>. QED  BY <1>8, <1>12

\* What is left of one.
LEMMA RestOf ==
  ASSUME NEW x \in Fraction, NEW y \in Fraction
  PROVE  Plus(x, Minus(y, x)) = y
<1>. DEFINE f == <<x, y>>
<1>1. f \in [1..2 -> Fraction] /\ 2 \in Nat
  OBVIOUS
<1>2. PICK D \in Nat \ {0}, num \in [1..2 -> Int] : \A i \in 1..2 : Val(f[i], num[i], D)
  <2>. HIDE DEF f
  <2>. QED  BY <1>1, Values
<1>. DEFINE x0 == num[1]
            y0 == num[2]
<1>3. D \in Nat \ {0}
  BY Powers
<1>4. /\ x0 \in Int /\ Val(x, x0, D)
      /\ y0 \in Int /\ Val(y, y0, D)
  BY <1>2
<1>. HIDE DEF f, x0, y0
<1>5. Val(Plus(x, Minus(y, x)), (x0 + (y0 - x0)), D)
  BY <1>3, <1>4, ValSum
<1>6. (x0 + (y0 - x0)) = y0
  BY <1>3, <1>4
<1>7. Plus(x, Minus(y, x)) = y
  BY <1>4, <1>5, <1>6, ValSame
<1>. QED  BY <1>7

\* What is left of a sum.
LEMMA RestOf2 ==
  ASSUME NEW x \in Fraction, NEW y \in Fraction
  PROVE  Minus(Plus(x, y), x) = y
<1>. DEFINE f == <<x, y>>
<1>1. f \in [1..2 -> Fraction] /\ 2 \in Nat
  OBVIOUS
<1>2. PICK D \in Nat \ {0}, num \in [1..2 -> Int] : \A i \in 1..2 : Val(f[i], num[i], D)
  <2>. HIDE DEF f
  <2>. QED  BY <1>1, Values
<1>. DEFINE x0 == num[1]
            y0 == num[2]
<1>3. D \in Nat \ {0}
  BY Powers
<1>4. /\ x0 \in Int /\ Val(x, x0, D)
      /\ y0 \in Int /\ Val(y, y0, D)
  BY <1>2
<1>. HIDE DEF f, x0, y0
<1>5. Val(Minus(Plus(x, y), x), ((x0 + y0) - x0), D)
  BY <1>3, <1>4, ValSum
<1>6. ((x0 + y0) - x0) = y0
  BY <1>3, <1>4
<1>7. Minus(Plus(x, y), x) = y
  BY <1>4, <1>5, <1>6, ValSame
<1>. QED  BY <1>7

\* The difference of two squares.
LEMMA SquareGap ==
  ASSUME NEW p \in Fraction, NEW q \in Fraction
  PROVE  Times(Minus(p, q), Plus(p, q)) = Minus(Square(p), Square(q))
<1>. DEFINE f == <<p, q>>
<1>1. f \in [1..2 -> Fraction] /\ 2 \in Nat
  OBVIOUS
<1>2. PICK D \in Nat \ {0}, num \in [1..2 -> Int] : \A i \in 1..2 : Val(f[i], num[i], D)
  <2>. HIDE DEF f
  <2>. QED  BY <1>1, Values
<1>. DEFINE p0 == num[1]
            q0 == num[2]
            D2 == D * D
<1>3. /\ D \in Nat \ {0}
      /\ D2 \in Nat \ {0} /\ D2 = D * D
  BY Powers
<1>4. /\ p0 \in Int /\ Val(p, p0, D)
      /\ q0 \in Int /\ Val(q, q0, D)
  BY <1>2
<1>. HIDE DEF f, p0, q0, D2
<1>5. Val(Times(Minus(p, q), Plus(p, q)), ((p0 - q0) * (p0 + q0)), D2)
  BY <1>3, <1>4, ValSum, ValTimes
<1>6. Val(Minus(Square(p), Square(q)), ((p0 * p0) - (q0 * q0)), D2)
  BY <1>3, <1>4, ValSum, ValTimes DEF Square
<1>7. ((p0 - q0) * (p0 + q0)) = ((p0 * p0) - (q0 * q0))
  BY <1>3, <1>4
<1>8. Times(Minus(p, q), Plus(p, q)) = Minus(Square(p), Square(q))
  BY <1>5, <1>6, <1>7, ValSame
<1>. QED  BY <1>8

\* The smaller square has the smaller root.
LEMMA SquareLess ==
  ASSUME NEW p \in Fraction, NEW q \in Fraction, ~Negative(p), ~Negative(q),
               Less(Square(p), Square(q))
  PROVE  Less(p, q)
<1>1. SUFFICES ASSUME ~Less(p, q) PROVE FALSE
  OBVIOUS
<1>2. ~Negative(Minus(p, q)) /\ Minus(p, q) \in Fraction /\ Plus(p, q) \in Fraction
      /\ ~Negative(Plus(p, q))
  BY <1>1, LessLaws, SignLaws, Closed
<1>3. ~Negative(Minus(Square(p), Square(q)))
  BY <1>2, SignLaws, SquareGap
<1>. QED  BY <1>3, LessLaws, MoreClosed

\* Minus one.
LEMMA MinusOne == <<-1, 1>> \in Fraction /\ Opposite(One) = <<-1, 1>>
<1>1. <<-1, 1>> \in Fraction
  BY WholeIs
<1>2. Times(<<-1, 1>>, One) = Minus(Zero, One) /\ Times(<<-1, 1>>, One) = <<-1, 1>>
  BY <1>1, MinusTerms, Closed, Neutral
<1>. QED  BY <1>1, <1>2 DEF Opposite

\* Squares add up to zero only of zeros.
LEMMA SquaresNull ==
  ASSUME NEW p \in Fraction, NEW q \in Fraction
  PROVE  /\ ~Negative(Plus(Square(p), Square(q))) /\ Plus(Square(p), Square(q)) \in Fraction
         /\ Plus(Square(p), Square(q)) = Zero => p = Zero /\ q = Zero
<1>1. /\ Times(p, p) \in Fraction /\ Times(q, q) \in Fraction /\ ~Negative(Times(p, p))
      /\ ~Negative(Times(q, q))
      /\ p # Zero => Positive(Times(p, p))
      /\ q # Zero => Positive(Times(q, q))
  BY Closed, SignLaws
<1>2. /\ Plus(Times(p, p), Times(q, q)) \in Fraction /\ ~Negative(Plus(Times(p, p), Times(q, q)))
      /\ p # Zero => Positive(Plus(Times(p, p), Times(q, q)))
      /\ q # Zero => Positive(Plus(Times(p, p), Times(q, q)))
  BY <1>1, Closed, SignLaws
<1>. QED  BY <1>2, Neutral, Closed DEF Square

\* Binet's and Cauchy's identity.
LEMMA BinetCauchy ==
  ASSUME NEW p \in Vec, NEW q \in Vec, NEW w \in Vec, NEW x \in Vec
  PROVE  Minus(Times(Dot(p, w), Dot(q, x)), Times(Dot(q, w), Dot(p, x)))
           = Dot(cross(p, q), cross(w, x))
<1>1. PICK D \in Nat \ {0}, k \in NumVec, l \in NumVec, m \in NumVec, n \in NumVec :
        Holds(p, k, D) /\ Holds(q, l, D) /\ Holds(w, m, D) /\ Holds(x, n, D)
  BY Numerators
<1>. DEFINE E == D * D
            F == E * E
            a == IntDot(k, m)
            b == IntDot(l, n)
            c == IntDot(l, m)
            d == IntDot(k, n)
            g == IntCross(k, l)
            h == IntCross(m, n)
            i == IntDot(g, h)
<1>2. E \in Nat \ {0} /\ F \in Nat \ {0}
  BY Factors
<1>3. /\ Val(Dot(p, w), a, E) /\ Val(Dot(q, x), b, E) /\ Val(Dot(q, w), c, E)
      /\ Val(Dot(p, x), d, E)
  BY <1>1, <1>2, DotIs, DotOver DEF Val
<1>4. /\ cross(p, q) \in Vec /\ cross(w, x) \in Vec /\ g \in NumVec /\ h \in NumVec
      /\ Holds(cross(p, q), g, E) /\ Holds(cross(w, x), h, E)
  BY <1>1, CrossIs, CrossOver
<1>5. Val(Dot(cross(p, q), cross(w, x)), i, F)
  BY <1>2, <1>4, DotIs, DotOver DEF Val
<1>6. a * b - c * d = i
  BY IntCrossIs DEF IntDot, NumVec
<1>. HIDE DEF E, F, a, b, c, d, i
<1>7. Val(Times(Dot(p, w), Dot(q, x)), a * b, E * E)
      /\ Val(Times(Dot(q, w), Dot(p, x)), c * d, E * E)
  BY <1>3, ValTimes
<1>8. Val(Minus(Times(Dot(p, w), Dot(q, x)), Times(Dot(q, w), Dot(p, x))), a * b - c * d, E * E)
  BY <1>7, ValSum
<1>. QED  BY <1>5, <1>6, <1>8, ValSame DEF F

-----------------------------------------------------------------------------
(* Turns *)
\* M leaves lengths and angles as they are: its transpose takes back what it does.
Turns(M) == M \in Mat3 /\ \A v \in Vec : Apply(Transpose(M), Apply(M, v)) = v

\* A matrix whose columns are perpendicular and one long turns.
LEMMA TurnsIf ==
  ASSUME NEW M \in Mat3,
         \A i, j \in 1..3 : Dot(Transpose(M)[i], Transpose(M)[j]) = IF i = j THEN One ELSE Zero
  PROVE  Turns(M)
<1>. DEFINE N == Transpose(M)
            P == Product(N, M)
<1>1. N \in Mat3 /\ P \in Mat3 /\ \A i, j \in 1..3 : P[i][j] = Dot(N[i], N[j])
  BY TransposeIs, ProductIs
<1>2. ASSUME NEW v \in Vec
      PROVE  Apply(N, Apply(M, v)) = v
  <2>1. Apply(N, Apply(M, v)) = Apply(P, v) /\ Apply(P, v) \in Vec
    BY <1>1, ProductApply, ApplyIs
  <2>2. ASSUME NEW i \in 1..3
        PROVE  Apply(P, v)[i] = v[i]
    <3>1. P[i] = Unit(i)
      <4>1. P[i] \in Vec /\ Unit(i) \in Vec
        BY <1>1, MatParts, Units
      <4>2. \A j \in 1..3 : P[i][j] = Unit(i)[j]
        BY <1>1 DEF Unit
      <4>. QED  BY <4>1, <4>2, Equal3 DEF Vec
    <3>. QED  BY <1>1, <3>1, Units, ApplyIs
  <2>. QED  BY <2>1, <2>2, Equal3 DEF Vec
<1>. QED  BY <1>2 DEF Turns

\* A turn keeps dot products.
LEMMA TurnsKeep ==
  ASSUME NEW M, Turns(M), NEW v \in Vec, NEW w \in Vec
  PROVE  /\ Apply(M, v) \in Vec /\ Apply(M, w) \in Vec
         /\ Dot(Apply(M, v), Apply(M, w)) = Dot(v, w)
<1>1. M \in Mat3 /\ Apply(M, v) \in Vec /\ Apply(M, w) \in Vec
  BY ApplyIs DEF Turns
<1>2. Dot(Apply(M, v), Apply(M, w)) = Dot(Apply(Transpose(M), Apply(M, v)), w)
  BY <1>1, Adjoint
<1>. QED  BY <1>1, <1>2 DEF Turns

\* Turns after each other are a turn.
LEMMA TurnsProduct ==
  ASSUME NEW M, NEW N, Turns(M), Turns(N)
  PROVE  Turns(Product(M, N)) /\ Transpose(Product(M, N)) = Product(Transpose(N), Transpose(M))
<1>1. M \in Mat3 /\ N \in Mat3 /\ Product(M, N) \in Mat3 /\ Transpose(Product(M, N)) \in Mat3
      /\ Transpose(M) \in Mat3 /\ Transpose(N) \in Mat3
      /\ Product(Transpose(N), Transpose(M)) \in Mat3
  BY ProductIs, TransposeIs DEF Turns
<1>2. Transpose(Product(M, N)) = Product(Transpose(N), Transpose(M))
  <2>1. ASSUME NEW i \in 1..3, NEW j \in 1..3
        PROVE  Transpose(Product(M, N))[i][j] = Product(Transpose(N), Transpose(M))[i][j]
    <3>1. Transpose(Product(M, N))[i][j] = Dot(M[j], Transpose(N)[i])
      <4>1. Transpose(Product(M, N))[i][j] = Product(M, N)[j][i]
        BY <1>1, TransposeIs
      <4>2. \A k, l \in 1..3 : Product(M, N)[k][l] = Dot(M[k], Transpose(N)[l])
        BY <1>1, ProductIs
      <4>. QED  BY <4>1, <4>2
    <3>2. Product(Transpose(N), Transpose(M))[i][j] = Dot(Transpose(N)[i], M[j])
      <4>1. Transpose(Transpose(M)) = M
        BY <1>1, TransposeIs
      <4>2. \A k, l \in 1..3 :
              Product(Transpose(N), Transpose(M))[k][l]
                = Dot(Transpose(N)[k], Transpose(Transpose(M))[l])
        BY <1>1, ProductIs
      <4>. QED  BY <4>1, <4>2
    <3>3. M[j] \in Vec /\ Transpose(N)[i] \in Vec
      BY <1>1, MatParts
    <3>. QED  BY <3>1, <3>2, <3>3, DotLaws, Closed
  <2>. QED  BY <1>1, <2>1, EqualMat
<1>3. ASSUME NEW v \in Vec
      PROVE  Apply(Transpose(Product(M, N)), Apply(Product(M, N), v)) = v
  <2>1. Apply(N, v) \in Vec /\ Apply(M, Apply(N, v)) \in Vec
    BY <1>1, ApplyIs
  <2>2. Apply(Product(M, N), v) = Apply(M, Apply(N, v))
    BY <1>1, ProductApply
  <2>3. Apply(Product(Transpose(N), Transpose(M)), Apply(M, Apply(N, v)))
          = Apply(Transpose(N), Apply(Transpose(M), Apply(M, Apply(N, v))))
    BY <1>1, <2>1, ProductApply
  <2>. QED  BY <1>2, <2>1, <2>2, <2>3 DEF Turns
<1>. QED  BY <1>1, <1>2, <1>3 DEF Turns

-----------------------------------------------------------------------------
(* Places seen from elsewhere, and shares of a way. *)

\* What both have is not in the difference.
LEMMA SameShift ==
  ASSUME NEW x \in Fraction, NEW y \in Fraction, NEW c \in Fraction
  PROVE  Minus(Plus(c, x), Plus(c, y)) = Minus(x, y)
<1>. DEFINE f == <<x, y, c>>
<1>1. f \in [1..3 -> Fraction] /\ 3 \in Nat
  OBVIOUS
<1>2. PICK D \in Nat \ {0}, num \in [1..3 -> Int] : \A i \in 1..3 : Val(f[i], num[i], D)
  <2>. HIDE DEF f
  <2>. QED  BY <1>1, Values
<1>. DEFINE x0 == num[1]
            y0 == num[2]
            c0 == num[3]
<1>3. D \in Nat \ {0}
  BY Powers
<1>4. /\ x0 \in Int /\ Val(x, x0, D)
      /\ y0 \in Int /\ Val(y, y0, D)
      /\ c0 \in Int /\ Val(c, c0, D)
  BY <1>2
<1>. HIDE DEF f, x0, y0, c0
<1>5. Val(Minus(Plus(c, x), Plus(c, y)), ((c0 + x0) - (c0 + y0)), D)
  BY <1>3, <1>4, ValSum
<1>6. Val(Minus(x, y), (x0 - y0), D)
  BY <1>3, <1>4, ValSum
<1>7. ((c0 + x0) - (c0 + y0)) = (x0 - y0)
  BY <1>3, <1>4
<1>8. Minus(Plus(c, x), Plus(c, y)) = Minus(x, y)
  BY <1>5, <1>6, <1>7, ValSame
<1>. QED  BY <1>8

\* Two places seen from elsewhere are as far apart.
LEMMA Shifted ==
  ASSUME NEW h \in Vec, NEW v \in Vec, NEW w \in Vec
  PROVE  VMinus(VPlus(h, v), VPlus(h, w)) = VMinus(v, w) /\ VMinus(v, w) \in Vec
<1>1. ASSUME NEW i \in 1..3
      PROVE  VMinus(VPlus(h, v), VPlus(h, w))[i] = VMinus(v, w)[i]
  <2>1. VMinus(VPlus(h, v), VPlus(h, w))[i] = Minus(Plus(h[i], v[i]), Plus(h[i], w[i]))
    BY VecOps, Closed
  <2>2. VMinus(v, w)[i] = Minus(v[i], w[i])
    BY VecOps, Closed
  <2>3. h[i] \in Fraction /\ v[i] \in Fraction /\ w[i] \in Fraction
    BY DEF Vec
  <2>. QED  BY <2>1, <2>2, <2>3, SameShift
<1>2. VMinus(VPlus(h, v), VPlus(h, w)) \in Vec /\ VMinus(v, w) \in Vec
  BY VecOps, Closed
<1>. QED  BY <1>1, <1>2, Equal3 DEF Vec

\* The same, seen from beyond.
LEMMA ShiftedBack ==
  ASSUME NEW h \in Vec, NEW v \in Vec, NEW w \in Vec
  PROVE  VMinus(VMinus(v, h), VMinus(w, h)) = VMinus(v, w) /\ VMinus(v, w) \in Vec
<1>1. VMinus(v, h) \in Vec /\ VMinus(w, h) \in Vec
  BY VecLaws
<1>2. VPlus(h, VMinus(v, h)) = v /\ VPlus(h, VMinus(w, h)) = w
  <2>1. VPlus(VMinus(v, h), h) = v /\ VPlus(VMinus(w, h), h) = w
    BY VecLaws
  <2>2. VPlus(h, VMinus(v, h)) = VPlus(VMinus(v, h), h) /\ VPlus(h, VMinus(w, h))
          = VPlus(VMinus(w, h), h)
    BY <1>1, VecLaws
  <2>. QED  BY <2>1, <2>2
<1>3. VMinus(VPlus(h, VMinus(v, h)), VPlus(h, VMinus(w, h))) = VMinus(VMinus(v, h), VMinus(w, h))
  BY <1>1, Shifted
<1>. QED  BY <1>2, <1>3, VecLaws

\* Two places turned and seen from elsewhere.
LEMMA ShiftedTurn ==
  ASSUME NEW h \in Vec, NEW M \in Mat3, NEW v \in Vec, NEW w \in Vec
  PROVE  VMinus(VPlus(h, Apply(M, v)), VPlus(h, Apply(M, w))) = Apply(M, VMinus(v, w))
<1>1. Apply(M, v) \in Vec /\ Apply(M, w) \in Vec
  BY ApplyIs
<1>. QED  BY <1>1, Shifted, ApplyLaws, Closed

\* From the world back into the body's frame.
LEMMA TurnedBack ==
  ASSUME NEW h \in Vec, NEW R, Turns(R), NEW v \in Vec
  PROVE  Apply(Transpose(R), VMinus(VPlus(h, Apply(R, v)), h)) = v
<1>1. R \in Mat3 /\ Apply(R, v) \in Vec /\ Apply(Transpose(R), Apply(R, v)) = v
  BY ApplyIs DEF Turns
<1>2. VPlus(h, Apply(R, v)) = VPlus(Apply(R, v), h) /\ VMinus(VPlus(Apply(R, v), h), h)
        = Apply(R, v)
  BY <1>1, VecLaws
<1>. QED  BY <1>1, <1>2

\* A share of a way is in its direction.
LEMMA SamePathTerms ==
  ASSUME NEW x \in Fraction, NEW y \in Fraction, NEW r \in Fraction
  PROVE  Minus(Times(x, Times(r, y)), Times(y, Times(r, x))) = Zero
<1>. DEFINE f == <<x, y, r>>
<1>1. f \in [1..3 -> Fraction] /\ 3 \in Nat
  OBVIOUS
<1>2. PICK D \in Nat \ {0}, num \in [1..3 -> Int] : \A i \in 1..3 : Val(f[i], num[i], D)
  <2>. HIDE DEF f
  <2>. QED  BY <1>1, Values
<1>. DEFINE x0 == num[1]
            y0 == num[2]
            r0 == num[3]
            D2 == D * D
            D3 == D * D2
<1>3. /\ D \in Nat \ {0}
      /\ D2 \in Nat \ {0} /\ D2 = D * D
      /\ D3 \in Nat \ {0} /\ D3 = D * D2
      /\ D2 * D = D3
  BY Powers
<1>4. /\ x0 \in Int /\ Val(x, x0, D)
      /\ y0 \in Int /\ Val(y, y0, D)
      /\ r0 \in Int /\ Val(r, r0, D)
  BY <1>2
<1>. HIDE DEF f, x0, y0, r0, D2, D3
<1>5. Val(Minus(Times(x, Times(r, y)), Times(y, Times(r, x))),
        ((x0 * (r0 * y0)) - (y0 * (r0 * x0))), D3)
  BY <1>3, <1>4, ValSum, ValTimes
<1>6. Val(Zero, 0, D3)
  BY <1>3, ValNumbers
<1>7. ((x0 * (r0 * y0)) - (y0 * (r0 * x0))) = 0
  BY <1>3, <1>4
<1>8. Minus(Times(x, Times(r, y)), Times(y, Times(r, x))) = Zero
  BY <1>5, <1>6, <1>7, ValSame
<1>. QED  BY <1>8

\* A share of a way is in its direction, and shorter.
LEMMA ShareIs ==
  ASSUME NEW w \in Vec, NEW r \in Fraction, Positive(r), Less(r, One), Positive(Dot(w, w))
  PROVE  /\ cross(w, Scaled(r, w)) = NullV
         /\ Less(Dot(Scaled(r, w), Scaled(r, w)), Dot(w, Scaled(r, w)))
<1>. DEFINE v == Scaled(r, w)
            N == Dot(w, w)
            M == Dot(w, v)
<1>1. v \in Vec /\ \A i \in 1..3 : v[i] = Times(r, w[i]) /\ w[i] \in Fraction
  BY VecOps DEF Vec
<1>2. cross(w, v) = NullV
  <2>. HIDE DEF v
  <2>1. cross(w, v)[1] = Zero /\ cross(w, v)[2] = Zero /\ cross(w, v)[3] = Zero
        /\ cross(w, v) \in Vec
    BY <1>1, CrossIs, SamePathTerms
  <2>2. NullV \in Vec /\ NullV[1] = Zero /\ NullV[2] = Zero /\ NullV[3] = Zero
    BY VecParts DEF NullV
  <2>. QED  BY <2>1, <2>2, Equal3 DEF Vec
<1>3. N \in Fraction /\ M = Times(r, N) /\ Dot(v, v) = Times(r, M) /\ M \in Fraction
  BY <1>1, DotLaws
<1>. HIDE DEF v, N, M
<1>4. Positive(M)
  BY <1>3, SignLaws DEF N
<1>5. Less(Times(r, M), M)
  <2>1. Times(M, Minus(One, r)) = Minus(Times(M, One), Times(M, r)) /\ Times(M, One) = M
        /\ Times(M, r) = Times(r, M)
    BY <1>3, TimesLaws, Closed
  <2>2. Positive(Minus(One, r)) /\ Minus(One, r) \in Fraction
    BY LessLaws, Closed
  <2>3. Positive(Times(M, Minus(One, r)))
    BY <1>3, <1>4, <2>2, SignLaws
  <2>4. Times(r, M) \in Fraction /\ Positive(Minus(M, Times(r, M)))
    BY <1>3, <2>1, <2>3, Closed
  <2>5. \A p, q \in Fraction : Less(p, q) <=> Positive(Minus(q, p))
    BY LessLaws
  <2>. QED  BY <1>3, <2>4, <2>5
<1>. QED  BY <1>2, <1>3, <1>5 DEF v, M
==============================================================================
