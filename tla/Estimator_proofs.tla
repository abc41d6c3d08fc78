--------------------------- MODULE Estimator_proofs ---------------------------
(***************************************************************************)
(* The estimator, for all variances, accelerations and starts, and for     *)
(* runs of any length: its estimate is the least-squares one, and the      *)
(* truth stays within the excuse.  On this axis, whose variances are       *)
(* positive and not coupled, every covariance is definite; a covariance    *)
(* is known by what it does to vectors (CovarianceIs), so that the long    *)
(* formula of run, with an inverse in four places, is never multiplied     *)
(* out; the doubt is followed through a tick in two halves, the step of    *)
(* the model (DoubtPredicted) and the measurements (DoubtMeasured).        *)
(***************************************************************************)
EXTENDS Estimator, Rational_proofs

\* Sums and differences of matrices.
LEMMA SumIs ==
  ASSUME NEW M \in Mat3, NEW N \in Mat3
  PROVE  /\ Sum(M, N) \in Mat3 /\ Difference(M, N) \in Mat3
         /\ \A v \in Vec : /\ Apply(Sum(M, N), v) = VPlus(Apply(M, v), Apply(N, v))
                           /\ Apply(Difference(M, N), v) = VMinus(Apply(M, v), Apply(N, v))
<1>1. \A i \in 1..3 : M[i] \in Vec /\ N[i] \in Vec
  BY MatParts
<1>2. /\ [i \in 1..3 |-> VPlus(M[i], N[i])] \in [1..3 -> Vec]
      /\ [i \in 1..3 |-> VMinus(M[i], N[i])] \in [1..3 -> Vec]
  BY <1>1, VecOps, Closed
<1>3. /\ Sum(M, N) = [i \in 1..3 |-> VPlus(M[i], N[i])]
      /\ Difference(M, N) = [i \in 1..3 |-> VMinus(M[i], N[i])]
  BY <1>2, VectorIs DEF Sum, Difference
<1>4. /\ Sum(M, N) \in Mat3 /\ \A i \in 1..3 : Sum(M, N)[i] = VPlus(M[i], N[i])
      /\ Difference(M, N) \in Mat3 /\ \A i \in 1..3 : Difference(M, N)[i] = VMinus(M[i], N[i])
  BY <1>2, <1>3 DEF Mat3
<1>5. ASSUME NEW v \in Vec
      PROVE  /\ Apply(Sum(M, N), v) = VPlus(Apply(M, v), Apply(N, v))
             /\ Apply(Difference(M, N), v) = VMinus(Apply(M, v), Apply(N, v))
  <2>1. Apply(M, v) \in Vec /\ Apply(N, v) \in Vec
        /\ \A i \in 1..3 : Apply(M, v)[i] = Dot(M[i], v) /\ Apply(N, v)[i] = Dot(N[i], v)
    BY ApplyIs
  <2>2. /\ VPlus(Apply(M, v), Apply(N, v)) \in Vec
        /\ \A i \in 1..3 : VPlus(Apply(M, v), Apply(N, v))[i] = Plus(Dot(M[i], v), Dot(N[i], v))
        /\ VMinus(Apply(M, v), Apply(N, v)) \in Vec
        /\ \A i \in 1..3 : VMinus(Apply(M, v), Apply(N, v))[i] = Minus(Dot(M[i], v), Dot(N[i], v))
    BY <2>1, VecOps, Closed
  <2>3. \A i \in 1..3 : /\ Dot(VPlus(M[i], N[i]), v) = Plus(Dot(M[i], v), Dot(N[i], v))
                        /\ Dot(VMinus(M[i], N[i]), v) = Minus(Dot(M[i], v), Dot(N[i], v))
    <3>1. \A x, z \in Vec : /\ Dot(VPlus(x, z), v) = Plus(Dot(x, v), Dot(z, v))
                            /\ Dot(VMinus(x, z), v) = Minus(Dot(x, v), Dot(z, v))
      <4>1. ASSUME NEW x \in Vec, NEW z \in Vec
            PROVE  /\ Dot(VPlus(x, z), v) = Plus(Dot(x, v), Dot(z, v))
                   /\ Dot(VMinus(x, z), v) = Minus(Dot(x, v), Dot(z, v))
        BY DotLaws, Closed
      <4>. QED  BY <4>1
    <3>. QED  BY <1>1, <3>1
  <2>4. /\ Apply(Sum(M, N), v) \in Vec
        /\ \A i \in 1..3 : Apply(Sum(M, N), v)[i] = Plus(Dot(M[i], v), Dot(N[i], v))
    BY <1>4, <2>3, ApplyIs
  <2>5. /\ Apply(Difference(M, N), v) \in Vec
        /\ \A i \in 1..3 : Apply(Difference(M, N), v)[i] = Minus(Dot(M[i], v), Dot(N[i], v))
    BY <1>4, <2>3, ApplyIs
  <2>. QED  BY <2>2, <2>4, <2>5, Equal3 DEF Vec
<1>. QED  BY <1>4, <1>5

\* A diagonal matrix multiplies each element by its own number.
LEMMA DiagonalIs ==
  ASSUME NEW d \in Vec
  PROVE  /\ Symmetric(Diagonal(d)) /\ Diagonal(d) \in Mat3
         /\ \A i \in 1..3 : Diagonal(d)[i][i] = d[i]
         /\ \A v \in Vec : \A i \in 1..3 : Apply(Diagonal(d), v)[i] = Times(d[i], v[i])
<1>. DEFINE M == Diagonal(d)
<1>1. \A i \in 1..3 : d[i] \in Fraction
  BY DEF Vec
<1>2. ASSUME NEW i \in 1..3
      PROVE  /\ [j \in 1..3 |-> IF i = j THEN d[i] ELSE Zero] \in [1..3 -> Fraction]
             /\ Vector([j \in 1..3 |-> IF i = j THEN d[i] ELSE Zero]) = [j \in 1..3 |-> IF i = j THEN d[i] ELSE Zero]
  <2>1. [j \in 1..3 |-> IF i = j THEN d[i] ELSE Zero] \in [1..3 -> Fraction]
    BY <1>1, Closed
  <2>. QED  BY <2>1, VectorIs
<1>3. [i \in 1..3 |-> Vector([j \in 1..3 |-> IF i = j THEN d[i] ELSE Zero])] \in [1..3 -> Vec]
  BY <1>2 DEF Vec
<1>4. M = [i \in 1..3 |-> Vector([j \in 1..3 |-> IF i = j THEN d[i] ELSE Zero])]
  BY <1>3, VectorIs DEF Diagonal
<1>5. M \in Mat3 /\ \A i, j \in 1..3 : M[i][j] = IF i = j THEN d[i] ELSE Zero
  BY <1>2, <1>3, <1>4 DEF Mat3
<1>. HIDE DEF M
<1>6. Symmetric(M)
  <2>1. Transpose(M) \in Mat3 /\ \A i, j \in 1..3 : Transpose(M)[i][j] = M[j][i]
    BY <1>5, TransposeIs
  <2>2. \A i, j \in 1..3 : M[i][j] = Transpose(M)[i][j]
    BY <1>5, <2>1
  <2>3. M = Transpose(M)
    BY <1>5, <2>1, <2>2, EqualMat
  <2>. QED  BY <1>5, <2>3 DEF Symmetric
<1>7. ASSUME NEW v \in Vec, NEW i \in 1..3
      PROVE  Apply(M, v)[i] = Times(d[i], v[i])
  <2>1. M[i] = Scaled(d[i], Unit(i))
    <3>1. Unit(i) \in Vec /\ \A j \in 1..3 : Unit(i)[j] = IF i = j THEN One ELSE Zero
      BY Units DEF Unit
    <3>2. Scaled(d[i], Unit(i)) \in Vec /\ \A j \in 1..3 : Scaled(d[i], Unit(i))[j] = Times(d[i], Unit(i)[j])
      BY <1>1, <3>1, VecOps
    <3>3. Times(d[i], One) = d[i] /\ Times(d[i], Zero) = Zero
      BY <1>1, Neutral
    <3>4. M[i] \in Vec /\ \A j \in 1..3 : M[i][j] = Scaled(d[i], Unit(i))[j]
      BY <1>5, <3>1, <3>2, <3>3, MatParts
    <3>. QED  BY <3>2, <3>4, Equal3 DEF Vec
  <2>2. Dot(M[i], v) = Times(d[i], Dot(Unit(i), v))
    BY <1>1, <2>1, Units, DotLaws
  <2>. QED  BY <1>5, <2>2, Units, ApplyIs
<1>8. \A i \in 1..3 : M[i][i] = d[i]
  BY <1>5
<1>. QED  BY <1>5, <1>6, <1>7, <1>8 DEF M

\* The identity leaves every vector as it is.
LEMMA IdentityIs ==
  /\ Identity \in Mat3
  /\ \A v \in Vec : Apply(Identity, v) = v
<1>. DEFINE d == <<One, One, One>>
<1>1. d \in Vec /\ \A i \in 1..3 : d[i] = One
  BY Closed, VecParts, Cases3
<1>. HIDE DEF d
<1>2. Identity = Diagonal(d)
  BY DEF Identity, d
<1>3. Identity \in Mat3 /\ \A v \in Vec : \A i \in 1..3 : Apply(Identity, v)[i] = Times(d[i], v[i])
  BY <1>1, <1>2, DiagonalIs
<1>4. ASSUME NEW v \in Vec
      PROVE  Apply(Identity, v) = v
  <2>1. \A i \in 1..3 : v[i] \in Fraction
    BY DEF Vec
  <2>2. Apply(Identity, v) \in Vec /\ \A i \in 1..3 : Apply(Identity, v)[i] = v[i]
    BY <1>1, <1>3, <2>1, ApplyIs, Neutral
  <2>. QED  BY <2>2, Equal3 DEF Vec
<1>. QED  BY <1>3, <1>4

\* A definite matrix divides column by column.
LEMMA DividedIs ==
  ASSUME NEW S, Definite(S), NEW M \in Mat3
  PROVE  /\ Divided(S, M) \in Mat3
         /\ \A v \in Vec : /\ Apply(Divided(S, M), v) = Solved(S, Apply(M, v))
                           /\ Apply(S, Apply(Divided(S, M), v)) = Apply(M, v)
<1>. DEFINE N == Transpose(M) T == [i \in 1..3 |-> Solved(S, N[i])] X == Divided(S, M)
<1>1. S \in Mat3 /\ N \in Mat3 /\ \A i \in 1..3 : N[i] \in Vec
  BY TransposeIs, MatParts DEF Definite, Symmetric
<1>2. T \in Mat3
  BY <1>1, SolvedOnly DEF Mat3
<1>3. \A i \in 1..3 : T[i] = Solved(S, N[i])
  OBVIOUS
<1>4. X = Transpose(T)
  BY DEF Divided
<1>. HIDE DEF T, N, X
<1>5. X \in Mat3 /\ Transpose(X) = T
  BY <1>2, <1>4, TransposeIs
<1>6. Product(S, X) = M
  <2>1. Product(S, X) \in Mat3 /\ \A i, j \in 1..3 : Product(S, X)[i][j] = Dot(S[i], T[j])
    BY <1>1, <1>5, ProductIs
  <2>2. ASSUME NEW i \in 1..3, NEW j \in 1..3
        PROVE  Dot(S[i], T[j]) = M[i][j]
    <3>1. T[j] \in Vec /\ Apply(S, T[j]) = N[j]
      BY <1>1, <1>3, SolvedOnly
    <3>2. Apply(S, T[j])[i] = Dot(S[i], T[j])
      BY <1>1, <3>1, ApplyIs
    <3>3. N[j][i] = M[i][j]
      BY TransposeIs DEF N
    <3>. QED  BY <3>1, <3>2, <3>3
  <2>. QED  BY <2>1, <2>2, EqualMat
<1>7. ASSUME NEW v \in Vec
      PROVE  /\ Apply(X, v) = Solved(S, Apply(M, v))
             /\ Apply(S, Apply(X, v)) = Apply(M, v)
  <2>1. Apply(S, Apply(X, v)) = Apply(M, v)
    BY <1>1, <1>5, <1>6, ProductApply
  <2>2. Apply(X, v) \in Vec /\ Apply(M, v) \in Vec
    BY <1>5, ApplyIs
  <2>. QED  BY <2>1, <2>2, SolvedOnly
<1>. QED  BY <1>5, <1>7 DEF X

\* A matrix that weighs no vector negatively.
Nonnegative(M) == Symmetric(M) /\ \A v \in Vec : ~Negative(Dot(v, Apply(M, v)))

\* A definite matrix weighs nothing negatively, and stays definite when one that weighs
\* nothing negatively is added.
LEMMA Weights ==
  /\ \A M : Definite(M) => Nonnegative(M) /\ M \in Mat3
  /\ \A M, N : /\ Definite(M) /\ Nonnegative(N) => Definite(Sum(M, N)) /\ Definite(Sum(N, M))
<1>1. ASSUME NEW M, Definite(M)
      PROVE  Nonnegative(M) /\ M \in Mat3
  <2>1. Symmetric(M) /\ M \in Mat3
    BY <1>1 DEF Definite, Symmetric
  <2>2. ASSUME NEW v \in Vec
        PROVE  ~Negative(Dot(v, Apply(M, v)))
    <3>1. Apply(M, v) \in Vec
      BY <2>1, ApplyIs
    <3>2. CASE v = NullV
      BY <3>1, <3>2, NullLaws, Neutral, Closed
    <3>3. CASE v # NullV
      <4>1. Positive(Dot(v, Apply(M, v))) /\ Dot(v, Apply(M, v)) \in Fraction
        BY <1>1, <3>1, <3>3, DotIs DEF Definite
      <4>. QED  BY <4>1, SignLaws, Closed
    <3>. QED  BY <3>2, <3>3
  <2>. QED  BY <2>1, <2>2 DEF Nonnegative
<1>2. ASSUME NEW M, NEW N, Nonnegative(M), Nonnegative(N), Definite(M) \/ Definite(N)
      PROVE  Definite(Sum(M, N))
  <2>. DEFINE S == Sum(M, N)
  <2>1. Symmetric(M) /\ M \in Mat3 /\ Symmetric(N) /\ N \in Mat3
    BY <1>2 DEF Nonnegative, Symmetric
  <2>2. S \in Mat3 /\ \A v \in Vec : Apply(S, v) = VPlus(Apply(M, v), Apply(N, v))
    BY <2>1, SumIs
  <2>. HIDE DEF S
  <2>3. ASSUME NEW v \in Vec, NEW w \in Vec
        PROVE  Dot(v, Apply(S, w)) = Plus(Dot(v, Apply(M, w)), Dot(v, Apply(N, w)))
    <3>1. Apply(M, w) \in Vec /\ Apply(N, w) \in Vec
      BY <2>1, ApplyIs
    <3>. QED  BY <2>2, <3>1, DotLaws, Closed
  <2>4. Symmetric(S)
    <3>1. \A v, w \in Vec : Dot(v, Apply(S, w)) = Dot(w, Apply(S, v))
      <4>1. \A v, w \in Vec : Dot(v, Apply(M, w)) = Dot(w, Apply(M, v)) /\ Dot(v, Apply(N, w)) = Dot(w, Apply(N, v))
        BY <2>1, SymmetricIs
      <4>. QED  BY <2>3, <4>1
    <3>. QED  BY <2>2, <3>1, SymmetricIs
  <2>5. ASSUME NEW v \in Vec, v # NullV
        PROVE  Positive(Dot(v, Apply(S, v)))
    <3>1. Dot(v, Apply(M, v)) \in Fraction /\ Dot(v, Apply(N, v)) \in Fraction
      BY <2>1, ApplyIs, DotIs
    <3>2. ~Negative(Dot(v, Apply(M, v))) /\ ~Negative(Dot(v, Apply(N, v)))
      BY <1>2 DEF Nonnegative
    <3>3. Positive(Dot(v, Apply(M, v))) \/ Positive(Dot(v, Apply(N, v)))
      BY <1>2, <2>5 DEF Definite
    <3>. QED  BY <2>3, <3>1, <3>2, <3>3, SignLaws
  <2>. QED  BY <2>4, <2>5 DEF Definite, S
<1>. QED  BY <1>1, <1>2

\* The product of three, the outer ones each other's transpose.
LEMMA Congruent ==
  ASSUME NEW M \in Mat3, NEW N \in Mat3
  PROVE  LET K == Product(Product(M, N), Transpose(M)) IN
         /\ K \in Mat3
         /\ \A v \in Vec : Apply(K, v) = Apply(M, Apply(N, Apply(Transpose(M), v)))
         /\ \A v, w \in Vec : Dot(w, Apply(K, v)) = Dot(Apply(Transpose(M), w), Apply(N, Apply(Transpose(M), v)))
         /\ Nonnegative(N) => Nonnegative(K)
<1>. DEFINE T == Transpose(M) L == Product(M, N) K == Product(L, T)
<1>1. T \in Mat3 /\ L \in Mat3
  BY TransposeIs, ProductIs
<1>2. K \in Mat3
  BY <1>1, ProductIs
<1>3. ASSUME NEW v \in Vec
      PROVE  Apply(K, v) = Apply(M, Apply(N, Apply(T, v))) /\ Apply(T, v) \in Vec /\ Apply(N, Apply(T, v)) \in Vec
  <2>1. Apply(K, v) = Apply(L, Apply(T, v)) /\ Apply(T, v) \in Vec
    BY <1>1, ProductApply, ApplyIs
  <2>2. Apply(L, Apply(T, v)) = Apply(M, Apply(N, Apply(T, v)))
    BY <2>1, ProductApply
  <2>. QED  BY <2>1, <2>2, ApplyIs
<1>4. ASSUME NEW v \in Vec, NEW w \in Vec
      PROVE  Dot(w, Apply(K, v)) = Dot(Apply(T, w), Apply(N, Apply(T, v)))
  BY <1>3, Adjoint
<1>. HIDE DEF T, L, K
<1>5. ASSUME Nonnegative(N)
      PROVE  Nonnegative(K)
  <2>1. \A v, w \in Vec : Dot(v, Apply(N, w)) = Dot(w, Apply(N, v))
    BY <1>5, SymmetricIs DEF Nonnegative
  <2>2. \A v, w \in Vec : Dot(w, Apply(K, v)) = Dot(v, Apply(K, w))
    BY <1>3, <1>4, <2>1
  <2>3. Symmetric(K)
    BY <1>2, <2>2, SymmetricIs
  <2>4. \A v \in Vec : ~Negative(Dot(v, Apply(K, v)))
    BY <1>3, <1>4, <1>5 DEF Nonnegative
  <2>. QED  BY <2>3, <2>4 DEF Nonnegative
<1>. QED  BY <1>2, <1>3, <1>4, <1>5 DEF T, L, K

\* A diagonal matrix has the signs of its elements.
LEMMA DiagonalSigns ==
  ASSUME NEW d \in Vec
  PROVE  /\ (\A i \in 1..3 : ~Negative(d[i])) => Nonnegative(Diagonal(d))
         /\ (\A i \in 1..3 : Positive(d[i])) => Definite(Diagonal(d))
<1>. DEFINE M == Diagonal(d)
<1>1. Symmetric(M) /\ M \in Mat3 /\ \A v \in Vec : \A i \in 1..3 : Apply(M, v)[i] = Times(d[i], v[i])
  BY DiagonalIs
<1>. HIDE DEF M
<1>2. ASSUME NEW v \in Vec
      PROVE  /\ Dot(v, Apply(M, v)) = Plus(Plus(Times(d[1], Times(v[1], v[1])), Times(d[2], Times(v[2], v[2]))),
                                           Times(d[3], Times(v[3], v[3])))
             /\ \A i \in 1..3 : d[i] \in Fraction /\ v[i] \in Fraction /\ Times(v[i], v[i]) \in Fraction
                                /\ Times(d[i], Times(v[i], v[i])) \in Fraction
  <2>1. \A i \in 1..3 : d[i] \in Fraction /\ v[i] \in Fraction
    BY DEF Vec
  <2>2. \A p, q \in Fraction : Times(p, Times(q, p)) = Times(q, Times(p, p))
    <3>1. ASSUME NEW p \in Fraction, NEW q \in Fraction
          PROVE  Times(p, Times(q, p)) = Times(q, Times(p, p))
      <4>1. Times(Times(p, q), p) = Times(p, Times(q, p)) /\ Times(p, q) = Times(q, p)
            /\ Times(Times(q, p), p) = Times(q, Times(p, p))
        BY TimesLaws
      <4>. QED  BY <4>1
    <3>. QED  BY <3>1
  <2>3. Apply(M, v) \in Vec /\ \A i \in 1..3 : Times(v[i], Apply(M, v)[i]) = Times(d[i], Times(v[i], v[i]))
    BY <1>1, <2>1, <2>2, ApplyIs
  <2>4. Dot(v, Apply(M, v)) = Plus(Plus(Times(v[1], Apply(M, v)[1]), Times(v[2], Apply(M, v)[2])),
                                   Times(v[3], Apply(M, v)[3]))
    BY <2>3, DotIs
  <2>. QED  BY <2>1, <2>3, <2>4, Closed
<1>3. ASSUME \A i \in 1..3 : ~Negative(d[i])
      PROVE  Nonnegative(M)
  <2>1. ASSUME NEW v \in Vec
        PROVE  ~Negative(Dot(v, Apply(M, v)))
    <3>. DEFINE p == Times(d[1], Times(v[1], v[1])) q == Times(d[2], Times(v[2], v[2])) r == Times(d[3], Times(v[3], v[3]))
    <3>1. p \in Fraction /\ q \in Fraction /\ r \in Fraction /\ ~Negative(p) /\ ~Negative(q) /\ ~Negative(r)
      BY <1>2, <1>3, SignLaws
    <3>2. Dot(v, Apply(M, v)) = Plus(Plus(p, q), r)
      BY <1>2
    <3>. HIDE DEF p, q, r
    <3>3. Plus(p, q) \in Fraction /\ ~Negative(Plus(p, q))
      BY <3>1, SignLaws, Closed
    <3>. QED  BY <3>1, <3>2, <3>3, SignLaws
  <2>. QED  BY <1>1, <2>1 DEF Nonnegative
<1>4. ASSUME \A i \in 1..3 : Positive(d[i])
      PROVE  Definite(M)
  <2>1. ASSUME NEW v \in Vec, v # NullV
        PROVE  Positive(Dot(v, Apply(M, v)))
    <3>. DEFINE p == Times(d[1], Times(v[1], v[1])) q == Times(d[2], Times(v[2], v[2])) r == Times(d[3], Times(v[3], v[3]))
    <3>1. \A i \in 1..3 : ~Negative(d[i])
      BY <1>2, <1>4, SignLaws
    <3>2. p \in Fraction /\ q \in Fraction /\ r \in Fraction /\ ~Negative(p) /\ ~Negative(q) /\ ~Negative(r)
      BY <1>2, <3>1, SignLaws
    <3>3. Positive(p) \/ Positive(q) \/ Positive(r)
      <4>1. PICK i \in 1..3 : v[i] # Zero
        <5>1. v[1] # Zero \/ v[2] # Zero \/ v[3] # Zero
          BY <2>1, VecParts DEF NullV
        <5>. QED  BY <5>1
      <4>2. Positive(Times(v[i], v[i]))
        BY <1>2, <4>1, SignLaws
      <4>3. Positive(Times(d[i], Times(v[i], v[i])))
        BY <1>2, <1>4, <4>2, SignLaws
      <4>. QED  BY <4>3, Cases3
    <3>4. Dot(v, Apply(M, v)) = Plus(Plus(p, q), r)
      BY <1>2
    <3>. HIDE DEF p, q, r
    <3>5. Plus(p, q) \in Fraction /\ ~Negative(Plus(p, q)) /\ (Positive(p) \/ Positive(q) => Positive(Plus(p, q)))
      BY <3>2, SignLaws, Closed
    <3>. QED  BY <3>2, <3>3, <3>4, <3>5, SignLaws
  <2>. QED  BY <1>1, <2>1 DEF Definite
<1>. QED  BY <1>3, <1>4 DEF M

\* The transposes of the matrices of the model.
Ct == Transpose(C)

At == Transpose(A)

\* The matrices of the model are matrices of fractions.
LEMMA ModelMatrices ==
  /\ A \in Mat3 /\ B \in Vec /\ C \in Mat3 /\ At \in Mat3 /\ Ct \in Mat3
  /\ Neg \in Fraction
<1>1. Neg \in Fraction /\ One \in Fraction /\ Zero \in Fraction
  BY WholeIs, Closed DEF Neg
<1>2. \A a, b, c \in Vec : <<a, b, c>> \in Mat3
  BY DEF Mat3
<1>3. A \in Mat3 /\ B \in Vec /\ C \in Mat3
  BY <1>1, <1>2, VecParts DEF A, B, C
<1>. QED  BY <1>1, <1>3, TransposeIs DEF At, Ct

\* What A does to a vector, and its transpose.
LEMMA Motion ==
  ASSUME NEW v \in Vec
  PROVE  /\ Apply(A, v)[1] = Plus(v[1], v[2]) /\ Apply(A, v)[2] = v[2] /\ Apply(A, v)[3] = v[3]
         /\ Apply(At, v)[1] = v[1] /\ Apply(At, v)[2] = Plus(v[1], v[2]) /\ Apply(At, v)[3] = v[3]
<1>1. v[1] \in Fraction /\ v[2] \in Fraction /\ v[3] \in Fraction /\ One \in Fraction /\ Zero \in Fraction
  BY VecParts, Closed
<1>2. \A p \in Fraction : /\ Times(One, p) = p /\ Times(Zero, p) = Zero /\ Plus(p, Zero) = p /\ Plus(Zero, p) = p
  BY Neutral
<1>3. \A a, b, c \in Fraction : Dot(<<a, b, c>>, v) = Plus(Plus(Times(a, v[1]), Times(b, v[2])), Times(c, v[3]))
  <2>1. ASSUME NEW a \in Fraction, NEW b \in Fraction, NEW c \in Fraction
        PROVE  Dot(<<a, b, c>>, v) = Plus(Plus(Times(a, v[1]), Times(b, v[2])), Times(c, v[3]))
    <3>. DEFINE t == <<a, b, c>>
    <3>1. t \in Vec /\ t[1] = a /\ t[2] = b /\ t[3] = c
      BY VecParts
    <3>. HIDE DEF t
    <3>. QED  BY <3>1, DotIs DEF t
  <2>. QED  BY <2>1
<1>4. /\ Dot(<<One, One, Zero>>, v) = Plus(v[1], v[2]) /\ Dot(<<Zero, One, Zero>>, v) = v[2]
      /\ Dot(<<Zero, Zero, One>>, v) = v[3] /\ Dot(<<One, Zero, Zero>>, v) = v[1]
  <2>1. Plus(v[1], v[2]) \in Fraction
    BY <1>1, Closed
  <2>2. /\ Dot(<<One, One, Zero>>, v) = Plus(Plus(Times(One, v[1]), Times(One, v[2])), Times(Zero, v[3]))
        /\ Dot(<<Zero, One, Zero>>, v) = Plus(Plus(Times(Zero, v[1]), Times(One, v[2])), Times(Zero, v[3]))
        /\ Dot(<<Zero, Zero, One>>, v) = Plus(Plus(Times(Zero, v[1]), Times(Zero, v[2])), Times(One, v[3]))
        /\ Dot(<<One, Zero, Zero>>, v) = Plus(Plus(Times(One, v[1]), Times(Zero, v[2])), Times(Zero, v[3]))
    BY <1>1, <1>3
  <2>3. Plus(Plus(v[1], v[2]), Zero) = Plus(v[1], v[2]) /\ Plus(Plus(Zero, v[2]), Zero) = v[2]
        /\ Plus(Plus(Zero, Zero), v[3]) = v[3] /\ Plus(Plus(v[1], Zero), Zero) = v[1]
    BY <1>1, <1>2, <2>1
  <2>. QED  BY <1>1, <1>2, <2>2, <2>3
<1>5. A[1] = <<One, One, Zero>> /\ A[2] = <<Zero, One, Zero>> /\ A[3] = <<Zero, Zero, One>>
  BY DEF A
<1>6. At[1] = <<One, Zero, Zero>> /\ At[2] = <<One, One, Zero>> /\ At[3] = <<Zero, Zero, One>>
  <2>1. At \in Mat3 /\ \A i, j \in 1..3 : At[i][j] = A[j][i]
    BY ModelMatrices, TransposeIs DEF At
  <2>2. \A i \in 1..3 : At[i] = <<At[i][1], At[i][2], At[i][3]>>
    BY <2>1, MatParts, VecParts
  <2>. QED  BY <1>5, <2>1, <2>2
<1>7. /\ Apply(A, v)[1] = Dot(A[1], v) /\ Apply(A, v)[2] = Dot(A[2], v) /\ Apply(A, v)[3] = Dot(A[3], v)
      /\ Apply(At, v)[1] = Dot(At[1], v) /\ Apply(At, v)[2] = Dot(At[2], v) /\ Apply(At, v)[3] = Dot(At[3], v)
  BY ModelMatrices, ApplyIs
<1>. QED  BY <1>4, <1>5, <1>6, <1>7

\* A diagonal matrix of numbers that are not negative weighs a vector by the square of its
\* last element, at least.
LEMMA LastWeight ==
  ASSUME NEW d \in Vec, \A i \in 1..3 : ~Negative(d[i]), NEW v \in Vec
  PROVE  /\ Dot(v, Apply(Diagonal(d), v)) \in Fraction
         /\ \E rest \in Fraction : /\ ~Negative(rest)
                                   /\ Dot(v, Apply(Diagonal(d), v)) = Plus(rest, Times(d[3], Times(v[3], v[3])))
<1>. DEFINE w == Apply(Diagonal(d), v) s(i) == Times(d[i], Times(v[i], v[i]))
<1>1. w \in Vec /\ \A i \in 1..3 : w[i] = Times(d[i], v[i])
  BY DiagonalIs, ApplyIs
<1>2. \A i \in 1..3 : d[i] \in Fraction /\ v[i] \in Fraction
  BY DEF Vec
<1>3. \A i \in 1..3 : s(i) \in Fraction /\ ~Negative(s(i)) /\ Times(v[i], w[i]) = s(i)
  <2>1. ASSUME NEW i \in 1..3
        PROVE  s(i) \in Fraction /\ ~Negative(s(i)) /\ Times(v[i], w[i]) = s(i)
    <3>1. Times(v[i], v[i]) \in Fraction /\ ~Negative(Times(v[i], v[i]))
      BY <1>2, SignLaws, Closed
    <3>2. s(i) \in Fraction /\ ~Negative(s(i))
      BY <1>2, <3>1, SignLaws, Closed
    <3>3. Times(v[i], Times(d[i], v[i])) = s(i)
      BY <1>2, Swapped
    <3>. QED  BY <1>1, <3>2, <3>3
  <2>. QED  BY <2>1
<1>4. Dot(v, w) = Plus(Plus(Times(v[1], w[1]), Times(v[2], w[2])), Times(v[3], w[3]))
  BY <1>1, DotIs
<1>. HIDE DEF w, s
<1>5. Dot(v, w) = Plus(Plus(s(1), s(2)), s(3))
  BY <1>3, <1>4
<1>6. Plus(s(1), s(2)) \in Fraction /\ ~Negative(Plus(s(1), s(2))) /\ s(3) \in Fraction
  BY <1>3, SignLaws, Closed
<1>. QED  BY <1>5, <1>6, Closed DEF w, s

\* The covariance before the measurements is as definite as the last one.
LEMMA PredictedDefinite ==
  ASSUME Definite(P), NEW Q \in Vec, \A i \in 1..3 : ~Negative(Q[i])
  PROVE  /\ Definite(Predicted(Q))
         /\ \A v \in Vec : Dot(v, Apply(Predicted(Q), v))
                             = Plus(Dot(Apply(At, v), Apply(P, Apply(At, v))), Dot(v, Apply(Diagonal(Q), v)))
<1>. DEFINE K == Product(Product(A, P), At)
<1>1. P \in Mat3 /\ Nonnegative(P)
  BY Weights
<1>2. /\ K \in Mat3 /\ Nonnegative(K)
      /\ \A v, w \in Vec : Dot(w, Apply(K, v)) = Dot(Apply(At, w), Apply(P, Apply(At, v)))
  BY <1>1, ModelMatrices, Congruent DEF At
<1>3. Definite(K)
  <2>1. ASSUME NEW v \in Vec, v # NullV
        PROVE  Positive(Dot(v, Apply(K, v)))
    <3>1. Apply(At, v) \in Vec
      BY ModelMatrices, ApplyIs
    <3>2. v[1] \in Fraction /\ v[2] \in Fraction /\ v[3] \in Fraction
      BY VecParts
    <3>3. Apply(At, v) # NullV
      <4>1. SUFFICES ASSUME Apply(At, v) = NullV PROVE FALSE
        OBVIOUS
      <4>2. v[1] = Zero /\ Plus(v[1], v[2]) = Zero /\ v[3] = Zero
        BY <4>1, Motion DEF NullV
      <4>3. v[2] = Zero
        BY <3>2, <4>2, Neutral
      <4>. QED  BY <2>1, <4>2, <4>3, VecParts DEF NullV
    <3>4. Positive(Dot(Apply(At, v), Apply(P, Apply(At, v))))
      BY <3>1, <3>3 DEF Definite
    <3>. QED  BY <1>2, <3>4
  <2>. QED  BY <1>2, <2>1 DEF Definite, Nonnegative
<1>4. Nonnegative(Diagonal(Q)) /\ Diagonal(Q) \in Mat3
  BY DiagonalSigns, DiagonalIs
<1>5. Predicted(Q) = Sum(K, Diagonal(Q))
  BY DEF Predicted, At
<1>. HIDE DEF K
<1>6. ASSUME NEW v \in Vec
      PROVE  Dot(v, Apply(Predicted(Q), v))
               = Plus(Dot(Apply(At, v), Apply(P, Apply(At, v))), Dot(v, Apply(Diagonal(Q), v)))
  <2>. DEFINE w == Apply(Diagonal(Q), v) k == Apply(K, v)
  <2>1. w \in Vec /\ k \in Vec
    BY <1>2, <1>4, ApplyIs
  <2>2. Apply(Sum(K, Diagonal(Q)), v) = VPlus(k, w)
    BY <1>2, <1>4, SumIs
  <2>. HIDE DEF w, k
  <2>3. Dot(v, VPlus(k, w)) = Plus(Dot(v, k), Dot(v, w))
    BY <2>1, DotLaws, Closed
  <2>. QED  BY <1>2, <1>5, <2>2, <2>3 DEF k, w
<1>. QED  BY <1>3, <1>4, <1>5, <1>6, Weights

\* The covariance of the innovation.
LEMMA InnovationIs ==
  ASSUME NEW prior, Definite(prior), NEW noise, Definite(noise)
  PROVE  /\ Definite(Innovation(prior, noise))
         /\ \A v \in Vec : Apply(Innovation(prior, noise), v)
                             = VPlus(Apply(noise, v), Apply(C, Apply(prior, Apply(Ct, v))))
<1>. DEFINE K == Product(Product(C, prior), Ct)
<1>1. prior \in Mat3 /\ Nonnegative(prior) /\ noise \in Mat3
  BY Weights
<1>2. K \in Mat3 /\ Nonnegative(K) /\ \A v \in Vec : Apply(K, v) = Apply(C, Apply(prior, Apply(Ct, v)))
  BY <1>1, ModelMatrices, Congruent DEF Ct
<1>3. Innovation(prior, noise) = Sum(noise, K)
  BY DEF Innovation, Ct
<1>. HIDE DEF K
<1>. QED  BY <1>1, <1>2, <1>3, Weights, SumIs

\* The covariance after the measurements: where g solves S g = C prior v it takes v to
\* where prior takes v - Ct g.
LEMMA CovarianceIs ==
  ASSUME NEW prior, Definite(prior), NEW noise, Definite(noise), NEW S, S = Innovation(prior, noise)
  PROVE  /\ Covariance(prior, noise, S) \in Mat3
         /\ \A v, g \in Vec : Apply(S, g) = Apply(C, Apply(prior, v)) =>
              /\ Apply(Covariance(prior, noise, S), v) = Apply(prior, VMinus(v, Apply(Ct, g)))
              /\ Apply(C, Apply(prior, VMinus(v, Apply(Ct, g)))) = Apply(noise, g)
<1>. DEFINE PCT == Product(prior, Ct) X == Divided(S, C) Y == Divided(S, noise)
            L == Product(PCT, X) I == Difference(Identity, L)
            F == Product(Product(I, prior), Transpose(I))
            G == Product(Product(Product(PCT, Y), X), prior)
            W == Covariance(prior, noise, S)
<1>1. prior \in Mat3 /\ noise \in Mat3 /\ Symmetric(prior) /\ Definite(S) /\ Symmetric(S) /\ S \in Mat3
      /\ Transpose(S) = S /\ Transpose(prior) = prior
  <2>1. Definite(S)
    BY InnovationIs
  <2>. QED  BY <2>1, Weights DEF Definite, Symmetric
<1>2. /\ C \in Mat3 /\ Ct \in Mat3 /\ PCT \in Mat3 /\ X \in Mat3 /\ Y \in Mat3
      /\ \A v \in Vec : Apply(X, v) = Solved(S, Apply(C, v)) /\ Apply(S, Apply(X, v)) = Apply(C, v)
      /\ \A v \in Vec : Apply(Y, v) = Solved(S, Apply(noise, v))
  BY <1>1, ModelMatrices, ProductIs, DividedIs, SMTT(30)
<1>3. W = Sum(F, G)
  BY <1>1 DEF Covariance, Ct
<1>. HIDE DEF X, Y, W
<1>4. L \in Mat3 /\ Product(PCT, Y) \in Mat3
  BY <1>2, ProductIs
<1>5. I \in Mat3
  BY <1>4, IdentityIs, SumIs
<1>6. Product(I, prior) \in Mat3 /\ Transpose(I) \in Mat3 /\ Product(Product(PCT, Y), X) \in Mat3
  BY <1>1, <1>2, <1>4, <1>5, ProductIs, TransposeIs
<1>7. F \in Mat3 /\ G \in Mat3
  BY <1>1, <1>6, ProductIs
<1>8. W \in Mat3 /\ \A v \in Vec : Apply(W, v) = VPlus(Apply(F, v), Apply(G, v))
  BY <1>3, <1>7, SumIs
<1>9. \A M \in Mat3 : \A v \in Vec : Apply(M, v) \in Vec
  BY ApplyIs
<1>10. ASSUME NEW v \in Vec
       PROVE  Apply(I, v) = VMinus(v, Apply(prior, Apply(Ct, Apply(X, v))))
  <2>1. Apply(I, v) = VMinus(Apply(Identity, v), Apply(L, v))
    BY <1>4, IdentityIs, SumIs
  <2>2. Apply(L, v) = Apply(PCT, Apply(X, v))
    BY <1>2, ProductApply
  <2>3. Apply(PCT, Apply(X, v)) = Apply(prior, Apply(Ct, Apply(X, v)))
    BY <1>1, <1>2, <1>9, ProductApply
  <2>. QED  BY <2>1, <2>2, <2>3, IdentityIs
<1>11. ASSUME NEW v \in Vec, NEW g \in Vec, Apply(S, g) = Apply(C, Apply(prior, v))
       PROVE  /\ Apply(W, v) = Apply(prior, VMinus(v, Apply(Ct, g)))
              /\ Apply(C, Apply(prior, VMinus(v, Apply(Ct, g)))) = Apply(noise, g)
  <2>. DEFINE u == VMinus(v, Apply(Ct, g)) z == Apply(prior, u)
  <2>1. Apply(Ct, g) \in Vec /\ u \in Vec /\ z \in Vec /\ Apply(prior, v) \in Vec
    BY <1>1, <1>2, <1>9, VecLaws
  <2>2. Apply(Transpose(I), v) = u
    <3>1. ASSUME NEW w \in Vec
          PROVE  Dot(w, Apply(Transpose(I), v)) = Dot(w, u)
      <4>. DEFINE s == Apply(X, w) c == Apply(Ct, s) p == Apply(prior, c)
      <4>1. s \in Vec /\ c \in Vec /\ p \in Vec /\ Apply(C, w) \in Vec /\ Apply(S, g) \in Vec
        BY <1>1, <1>2, <1>9
      <4>2. Dot(w, Apply(Transpose(I), v)) = Dot(Apply(I, w), v)
        BY <1>5, Adjoint
      <4>3. Apply(I, w) = VMinus(w, p)
        BY <1>10
      <4>4. Dot(VMinus(w, p), v) = Minus(Dot(w, v), Dot(p, v))
        BY <4>1, DotLaws, Closed
      <4>5. Dot(p, v) = Dot(c, Apply(prior, v))
        BY <1>1, <4>1, SymmetricIs
      <4>6. Dot(c, Apply(prior, v)) = Dot(s, Apply(C, Apply(prior, v)))
        BY <1>2, <2>1, <4>1, Adjoint DEF Ct
      <4>7. Dot(s, Apply(S, g)) = Dot(Apply(S, s), g)
        BY <1>1, <4>1, SymmetricIs
      <4>8. Apply(S, s) = Apply(C, w)
        BY <1>2
      <4>9. Dot(Apply(C, w), g) = Dot(w, Apply(Ct, g))
        BY <1>2, Adjoint DEF Ct
      <4>10. Dot(w, u) = Minus(Dot(w, v), Dot(w, Apply(Ct, g)))
        BY <2>1, DotLaws, Closed
      <4>. QED  BY <1>11, <4>2, <4>3, <4>4, <4>5, <4>6, <4>7, <4>8, <4>9, <4>10
    <3>2. Apply(Transpose(I), v) \in Vec
      BY <1>6, <1>9
    <3>. QED  BY <2>1, <3>1, <3>2, KnownByProducts
  <2>. HIDE DEF u
  <2>3. Apply(C, z) = Apply(noise, g)
    <3>. DEFINE a == Apply(prior, v) b == Apply(prior, Apply(Ct, g))
    <3>1. b \in Vec /\ z = VMinus(a, b)
      BY <1>1, <1>9, <2>1, ApplyLaws, Closed DEF u
    <3>2. Apply(C, VMinus(a, b)) = VMinus(Apply(C, a), Apply(C, b))
      BY <1>2, <2>1, <3>1, ApplyLaws, Closed
    <3>3. Apply(S, g) = VPlus(Apply(noise, g), Apply(C, b))
      BY InnovationIs
    <3>4. Apply(noise, g) \in Vec /\ Apply(C, b) \in Vec
      BY <1>1, <1>2, <1>9, <3>1
    <3>5. VMinus(VPlus(Apply(noise, g), Apply(C, b)), Apply(C, b)) = Apply(noise, g)
      BY <3>4, VecLaws
    <3>. QED  BY <1>11, <3>1, <3>2, <3>3, <3>5
  <2>. DEFINE q == Apply(prior, Apply(Ct, Solved(S, Apply(noise, g))))
  <2>4. Apply(F, v) = VMinus(z, q)
    <3>1. Apply(F, v) = Apply(Product(I, prior), Apply(Transpose(I), v))
      BY <1>6, ProductApply
    <3>2. Apply(Product(I, prior), u) = Apply(I, z)
      BY <1>1, <1>5, <2>1, ProductApply
    <3>3. Apply(I, z) = VMinus(z, Apply(prior, Apply(Ct, Apply(X, z))))
      BY <1>10, <2>1
    <3>4. Apply(X, z) = Solved(S, Apply(noise, g))
      BY <1>2, <2>1, <2>3
    <3>. QED  BY <2>2, <3>1, <3>2, <3>3, <3>4
  <2>5. Apply(G, v) = q
    <3>. DEFINE a == Apply(prior, v)
    <3>1. Apply(G, v) = Apply(Product(Product(PCT, Y), X), a)
      BY <1>1, <1>6, ProductApply
    <3>2. Apply(Product(Product(PCT, Y), X), a) = Apply(Product(PCT, Y), Apply(X, a))
      BY <1>2, <1>4, <2>1, ProductApply
    <3>3. Apply(X, a) = g
      <4>1. Apply(X, a) = Solved(S, Apply(C, a)) /\ Apply(C, a) \in Vec
        BY <1>2, <1>9, <2>1
      <4>. QED  BY <1>1, <1>11, <4>1, SolvedOnly
    <3>4. Apply(Product(PCT, Y), g) = Apply(PCT, Apply(Y, g))
      BY <1>2, ProductApply
    <3>5. Apply(Y, g) = Solved(S, Apply(noise, g)) /\ Apply(Y, g) \in Vec
      BY <1>2, <1>9
    <3>6. Apply(PCT, Apply(Y, g)) = Apply(prior, Apply(Ct, Apply(Y, g)))
      BY <1>1, <1>2, <3>5, ProductApply
    <3>. QED  BY <3>1, <3>2, <3>3, <3>4, <3>5, <3>6
  <2>6. q \in Vec
    BY <1>1, <1>2, <1>9, SolvedOnly
  <2>7. VPlus(VMinus(z, q), q) = z
    BY <2>1, <2>6, VecLaws
  <2>. QED  BY <1>8, <2>3, <2>4, <2>5, <2>7 DEF u
<1>. QED  BY <1>8, <1>11 DEF W

\* The covariance after the measurements is definite: no direction of the state is ever held
\* to be known exactly (Estimator.cpp, run).
LEMMA CovarianceDefinite ==
  ASSUME NEW prior, Definite(prior), NEW noise, Definite(noise)
  PROVE  Definite(Covariance(prior, noise, Innovation(prior, noise)))
<1>. DEFINE S == Innovation(prior, noise) W == Covariance(prior, noise, S)
            g(v) == Solved(S, Apply(C, Apply(prior, v))) u(v) == VMinus(v, Apply(Ct, g(v)))
<1>1. prior \in Mat3 /\ noise \in Mat3 /\ Symmetric(prior) /\ Symmetric(noise) /\ Definite(S) /\ W \in Mat3
      /\ C \in Mat3 /\ Ct \in Mat3
  BY InnovationIs, CovarianceIs, Weights, ModelMatrices DEF Definite
<1>2. \A M \in Mat3 : \A v \in Vec : Apply(M, v) \in Vec
  BY ApplyIs
<1>3. ASSUME NEW v \in Vec
      PROVE  /\ g(v) \in Vec /\ u(v) \in Vec /\ v = VPlus(u(v), Apply(Ct, g(v))) /\ Apply(Ct, g(v)) \in Vec
             /\ Apply(W, v) = Apply(prior, u(v)) /\ Apply(C, Apply(prior, u(v))) = Apply(noise, g(v))
  <2>1. g(v) \in Vec /\ Apply(S, g(v)) = Apply(C, Apply(prior, v))
    BY <1>1, <1>2, SolvedOnly
  <2>2. Apply(Ct, g(v)) \in Vec
    BY <1>1, <1>2, <2>1
  <2>3. u(v) \in Vec /\ VPlus(u(v), Apply(Ct, g(v))) = v
    BY <2>2, VecLaws
  <2>4. Apply(W, v) = Apply(prior, u(v)) /\ Apply(C, Apply(prior, u(v))) = Apply(noise, g(v))
    BY <2>1, CovarianceIs
  <2>. QED  BY <2>1, <2>2, <2>3, <2>4
<1>. HIDE DEF S, W, g, u
<1>4. ASSUME NEW v \in Vec, NEW w \in Vec
      PROVE  Dot(w, Apply(W, v)) = Plus(Dot(u(w), Apply(prior, u(v))), Dot(g(w), Apply(noise, g(v))))
  <2>. DEFINE z == Apply(prior, u(v)) c == Apply(Ct, g(w))
  <2>1. z \in Vec /\ c \in Vec /\ u(w) \in Vec /\ g(w) \in Vec /\ w = VPlus(u(w), c)
    BY <1>1, <1>2, <1>3
  <2>2. Dot(VPlus(u(w), c), z) = Plus(Dot(u(w), z), Dot(c, z))
    BY <2>1, DotLaws, Closed
  <2>3. Dot(c, z) = Dot(g(w), Apply(C, z))
    BY <1>1, <2>1, Adjoint DEF Ct
  <2>. QED  BY <1>3, <2>1, <2>2, <2>3
<1>5. Symmetric(W)
  <2>1. \A v, w \in Vec : /\ Dot(u(w), Apply(prior, u(v))) = Dot(u(v), Apply(prior, u(w)))
                          /\ Dot(g(w), Apply(noise, g(v))) = Dot(g(v), Apply(noise, g(w)))
    BY <1>1, <1>3, SymmetricIs
  <2>2. \A v, w \in Vec : Dot(w, Apply(W, v)) = Dot(v, Apply(W, w))
    BY <1>4, <2>1
  <2>. QED  BY <1>1, <2>2, SymmetricIs
<1>6. ASSUME NEW v \in Vec, v # NullV
      PROVE  Positive(Dot(v, Apply(W, v)))
  <2>. DEFINE p == Dot(u(v), Apply(prior, u(v))) q == Dot(g(v), Apply(noise, g(v)))
  <2>1. p \in Fraction /\ q \in Fraction /\ ~Negative(p) /\ ~Negative(q)
    <3>1. Nonnegative(prior) /\ Nonnegative(noise)
      BY Weights
    <3>2. Apply(prior, u(v)) \in Vec /\ Apply(noise, g(v)) \in Vec
      BY <1>1, <1>2, <1>3
    <3>. QED  BY <1>3, <3>1, <3>2, DotIs DEF Nonnegative
  <2>2. Positive(p) \/ Positive(q)
    <3>1. CASE u(v) # NullV
      BY <1>3, <3>1 DEF Definite
    <3>2. CASE g(v) # NullV
      BY <1>3, <3>2 DEF Definite
    <3>3. CASE u(v) = NullV /\ g(v) = NullV
      <4>1. Apply(Ct, NullV) = NullV
        <5>1. Apply(Ct, NullV) \in Vec /\ NullV \in Vec
          BY <1>1, <1>2, VecParts
        <5>2. Apply(Ct, VMinus(NullV, NullV)) = VMinus(Apply(Ct, NullV), Apply(Ct, NullV))
          BY <1>1, <5>1, ApplyLaws, Closed
        <5>. QED  BY <5>1, <5>2, NullLaws
      <4>2. v = NullV
        BY <1>3, <3>3, <4>1, NullLaws, VecParts
      <4>. QED  BY <1>6, <4>2
    <3>. QED  BY <3>1, <3>2, <3>3
  <2>3. Dot(v, Apply(W, v)) = Plus(p, q)
    BY <1>4
  <2>. HIDE DEF p, q
  <2>. QED  BY <2>1, <2>2, <2>3, SignLaws
<1>. QED  BY <1>5, <1>6 DEF Definite, W, S

\* Weighed applies the inverse of R.
LEMMA WeighedIs ==
  ASSUME NEW r \in Vec, \A i \in 1..3 : Positive(r[i]), R = Diagonal(r)
  PROVE  /\ Definite(R)
         /\ \A v \in Vec : /\ Weighed(v) \in Vec /\ Apply(R, Weighed(v)) = v
                           /\ \A g \in Vec : Apply(R, g) = v => g = Weighed(v)
<1>1. R \in Mat3 /\ Definite(R) /\ \A i \in 1..3 : R[i][i] = r[i]
  BY DiagonalIs, DiagonalSigns
<1>2. \A v \in Vec : \A i \in 1..3 : Apply(R, v)[i] = Times(r[i], v[i])
  BY DiagonalIs
<1>3. \A i \in 1..3 : r[i] \in Fraction /\ r[i] # Zero
  <2>1. ~Positive(Zero)
    BY Neutral, Closed
  <2>. QED  BY <2>1 DEF Vec
<1>4. ASSUME NEW v \in Vec
      PROVE  /\ Weighed(v) \in Vec /\ Apply(R, Weighed(v)) = v
             /\ \A g \in Vec : Apply(R, g) = v => g = Weighed(v)
  <2>. DEFINE t == [i \in 1..3 |-> Over(v[i], R[i][i])]
  <2>1. \A i \in 1..3 : t[i] = Over(v[i], r[i]) /\ v[i] \in Fraction
    BY <1>1 DEF Vec
  <2>2. \A i \in 1..3 : t[i] \in Fraction /\ Times(r[i], t[i]) = v[i]
    BY <1>3, <2>1, OverIs
  <2>3. t \in Vec
    BY <2>2 DEF Vec
  <2>4. Weighed(v) = t
    BY <2>3, VectorIs DEF Weighed, Vec
  <2>. HIDE DEF t
  <2>5. Apply(R, t) \in Vec /\ \A i \in 1..3 : Apply(R, t)[i] = v[i]
    BY <1>1, <1>2, <2>2, <2>3, ApplyIs
  <2>6. Apply(R, t) = v
    BY <2>5, Equal3 DEF Vec
  <2>7. ASSUME NEW g \in Vec, Apply(R, g) = v
        PROVE  g = t
    BY <1>1, <2>3, <2>6, <2>7, SolvedOnly
  <2>. QED  BY <2>3, <2>4, <2>6, <2>7
<1>. QED  BY <1>1, <1>4

\* The estimate rests between what was expected and what was measured.
LEMMA Rests ==
  ASSUME NEW r \in Vec, \A i \in 1..3 : Positive(r[i]), R = Diagonal(r), NEW prior, Definite(prior),
         NEW x \in Vec, NEW z \in Vec, NEW m \in Vec,
         z = VPlus(x, Apply(Product(prior, Ct), Solved(Innovation(prior, R), VMinus(m, Apply(C, x)))))
  PROVE  z \in Vec /\ VMinus(z, x) = Apply(prior, Apply(Ct, Weighed(VMinus(m, Apply(C, z)))))
<1>. DEFINE S == Innovation(prior, R) gap == VMinus(m, Apply(C, x)) g == Solved(S, gap)
            k == Apply(prior, Apply(Ct, g))
<1>1. /\ Definite(R) /\ R \in Mat3 /\ prior \in Mat3 /\ Definite(S) /\ S \in Mat3 /\ C \in Mat3 /\ Ct \in Mat3
  BY WeighedIs, Weights, InnovationIs, ModelMatrices
<1>2. \A T \in Mat3 : \A v \in Vec : Apply(T, v) \in Vec
  BY ApplyIs
<1>3. Apply(C, x) \in Vec /\ gap \in Vec /\ g \in Vec /\ Apply(S, g) = gap /\ k \in Vec /\ Apply(C, k) \in Vec
      /\ Apply(R, g) \in Vec
  <2>1. Apply(C, x) \in Vec /\ gap \in Vec
    BY <1>1, <1>2, VecLaws
  <2>2. g \in Vec /\ Apply(S, g) = gap
    BY <1>1, <2>1, SolvedOnly
  <2>. QED  BY <1>1, <1>2, <2>1, <2>2
<1>4. z = VPlus(x, k)
  <2>1. Apply(Product(prior, Ct), g) = k
    BY <1>1, <1>3, ProductApply
  <2>. QED  BY <2>1
<1>. HIDE DEF g, k, gap, S
<1>5. VMinus(z, x) = k
  <2>1. VPlus(x, k) = VPlus(k, x) /\ VMinus(VPlus(k, x), x) = k
    BY <1>3, VecLaws
  <2>. QED  BY <1>4, <2>1
<1>6. VMinus(m, Apply(C, z)) = Apply(R, g)
  <2>1. Apply(C, z) = VPlus(Apply(C, x), Apply(C, k))
    BY <1>1, <1>3, <1>4, ApplyLaws, Closed
  <2>2. gap = VPlus(Apply(R, g), Apply(C, k))
    BY <1>1, <1>3, InnovationIs DEF S, k
  <2>3. ASSUME NEW p \in Vec, NEW q \in Vec, NEW s \in Vec, VMinus(m, p) = VPlus(s, q)
        PROVE  VMinus(m, VPlus(p, q)) = s
    <3>1. m = VPlus(VPlus(s, q), p)
      BY <2>3, VecLaws
    <3>2. VPlus(VPlus(s, q), p) = VPlus(s, VPlus(q, p)) /\ VPlus(q, p) = VPlus(p, q) /\ VPlus(p, q) \in Vec
      BY VecLaws
    <3>3. VMinus(VPlus(s, VPlus(p, q)), VPlus(p, q)) = s
      BY <3>2, VecLaws
    <3>. QED  BY <3>1, <3>2, <3>3
  <2>. QED  BY <1>3, <2>1, <2>2, <2>3 DEF gap
<1>7. Weighed(Apply(R, g)) = g
  BY <1>3, WeighedIs
<1>. QED  BY <1>5, <1>6, <1>7 DEF k

\* The doubt after measurements of noise eta, which zeta weighs.
LEMMA DoubtMeasured ==
  ASSUME NEW prior, Definite(prior), NEW noise, Definite(noise), NEW e \in Vec, NEW eta \in Vec, NEW zeta \in Vec,
         Apply(noise, zeta) = eta, NEW z \in Vec, Apply(prior, z) = e,
         NEW g \in Vec, Apply(Innovation(prior, noise), g) = VPlus(Apply(C, e), eta)
  PROVE  LET W == Covariance(prior, noise, Innovation(prior, noise))
             left == VMinus(e, Apply(prior, Apply(Ct, g))) IN
         /\ left \in Vec /\ Dot(left, Solved(W, left)) \in Fraction
         /\ ~Less(Plus(Dot(e, z), Dot(eta, zeta)), Dot(left, Solved(W, left)))
<1>. DEFINE S == Innovation(prior, noise) W == Covariance(prior, noise, S)
            k == Apply(Ct, g) h == Apply(Ct, zeta) pk == Apply(prior, k) ph == Apply(prior, h)
            left == VMinus(e, pk) m == VMinus(z, h) t == VMinus(g, zeta)
            x == Apply(C, e) y1 == Apply(C, ph)
<1>1. /\ Symmetric(prior) /\ Symmetric(noise) /\ Symmetric(S) /\ Definite(S) /\ Definite(W)
      /\ prior \in Mat3 /\ noise \in Mat3 /\ S \in Mat3 /\ W \in Mat3 /\ C \in Mat3 /\ Ct \in Mat3
  BY InnovationIs, CovarianceDefinite, Weights, ModelMatrices DEF Definite
<1>2. \A T \in Mat3 : \A v \in Vec : Apply(T, v) \in Vec
  BY ApplyIs
<1>3. k \in Vec /\ h \in Vec /\ pk \in Vec /\ ph \in Vec /\ x \in Vec /\ y1 \in Vec
  BY <1>1, <1>2
<1>4. left \in Vec /\ m \in Vec /\ t \in Vec /\ VPlus(x, eta) \in Vec /\ VPlus(eta, y1) \in Vec
  BY <1>3, VecLaws
<1>5. Apply(S, zeta) = VPlus(eta, y1)
  BY <1>1, InnovationIs
<1>. HIDE DEF S, W
<1>6. Apply(S, t) = Apply(C, Apply(prior, m))
  <2>1. Apply(S, t) = VMinus(VPlus(x, eta), VPlus(eta, y1))
    BY <1>1, <1>5, ApplyLaws, Closed DEF S
  <2>2. Apply(prior, m) = VMinus(e, ph)
    BY <1>1, <1>3, ApplyLaws, Closed
  <2>3. Apply(C, VMinus(e, ph)) = VMinus(x, y1)
    BY <1>1, <1>3, ApplyLaws, Closed
  <2>4. VMinus(VPlus(x, eta), VPlus(eta, y1)) = VMinus(x, y1)
    <3>. DEFINE s == VMinus(x, y1)
    <3>1. s \in Vec /\ VPlus(s, y1) = x
      BY <1>3, VecLaws
    <3>. HIDE DEF s, x, y1
    <3>2. VPlus(VPlus(s, y1), eta) = VPlus(s, VPlus(y1, eta)) /\ VPlus(y1, eta) = VPlus(eta, y1)
      BY <1>3, <3>1, VecLaws
    <3>3. VMinus(VPlus(s, VPlus(eta, y1)), VPlus(eta, y1)) = s
      BY <1>4, <3>1, VecLaws
    <3>. QED  BY <3>1, <3>2, <3>3 DEF s
  <2>. QED  BY <2>1, <2>2, <2>3, <2>4
<1>7. Apply(W, m) = left
  <2>1. Apply(W, m) = Apply(prior, VMinus(m, Apply(Ct, t)))
    BY <1>4, <1>6, CovarianceIs DEF S, W
  <2>2. Apply(Ct, t) = VMinus(k, h)
    BY <1>1, ApplyLaws, Closed
  <2>3. VMinus(m, VMinus(k, h)) = VMinus(z, k)
    <3>. DEFINE s == VMinus(k, h) r == VMinus(z, k)
    <3>1. s \in Vec /\ VPlus(s, h) = k /\ r \in Vec /\ VPlus(r, k) = z
      BY <1>3, VecLaws
    <3>. HIDE DEF s, r, k, h
    <3>2. VPlus(VPlus(r, s), h) = VPlus(r, VPlus(s, h)) /\ VPlus(r, s) \in Vec
      BY <1>3, <3>1, VecLaws
    <3>3. VPlus(VPlus(r, s), h) = z
      BY <3>1, <3>2
    <3>4. VMinus(VPlus(VPlus(r, s), h), h) = VPlus(r, s) /\ VMinus(VPlus(r, s), s) = r
      BY <1>3, <3>1, <3>2, VecLaws
    <3>. QED  BY <3>3, <3>4 DEF s, r
  <2>4. Apply(prior, VMinus(z, k)) = VMinus(e, pk)
    BY <1>1, <1>3, ApplyLaws, Closed
  <2>. QED  BY <2>1, <2>2, <2>3, <2>4
<1>8. m = Solved(W, left)
  BY <1>1, <1>4, <1>7, SolvedOnly
<1>. DEFINE p == Dot(e, z) a == Dot(g, x) b == Dot(x, zeta) c == Dot(eta, zeta) d == Dot(g, eta)
<1>9. p \in Fraction /\ a \in Fraction /\ b \in Fraction /\ c \in Fraction /\ d \in Fraction
  BY <1>3, DotIs
<1>10. Dot(pk, z) = a
  <2>1. Dot(pk, z) = Dot(k, Apply(prior, z))
    BY <1>1, <1>3, SymmetricIs
  <2>2. Dot(k, e) = Dot(g, x)
    BY <1>1, Adjoint DEF Ct
  <2>. QED  BY <2>1, <2>2
<1>11. Dot(e, h) = b
  BY <1>1, Adjoint DEF Ct
<1>12. Dot(pk, h) = Minus(Plus(b, c), d)
  <2>1. Dot(pk, h) = Dot(k, ph)
    BY <1>1, <1>3, SymmetricIs
  <2>2. Dot(k, ph) = Dot(g, y1)
    BY <1>1, <1>3, Adjoint DEF Ct
  <2>3. Dot(g, Apply(S, zeta)) = Plus(Dot(g, eta), Dot(g, y1))
    BY <1>3, <1>5, DotLaws, Closed
  <2>4. Dot(g, Apply(S, zeta)) = Dot(Apply(S, g), zeta)
    BY <1>1, SymmetricIs
  <2>5. Dot(VPlus(x, eta), zeta) = Plus(b, c)
    BY <1>3, DotLaws, Closed
  <2>6. Plus(b, c) = Plus(d, Dot(g, y1))
    BY <2>3, <2>4, <2>5 DEF S
  <2>7. Plus(b, c) \in Fraction /\ Dot(g, y1) \in Fraction
    BY <1>3, <1>9, Closed, DotIs
  <2>. HIDE DEF b, c, d, y1
  <2>8. Dot(g, y1) = Minus(Plus(b, c), d)
    BY <1>9, <2>6, <2>7, Transposed
  <2>. QED  BY <2>1, <2>2, <2>8
<1>13. Dot(left, m) = Minus(Minus(p, a), Minus(b, Minus(Plus(b, c), d)))
  <2>1. Dot(left, VMinus(z, h)) = Minus(Dot(left, z), Dot(left, h))
    BY <1>3, <1>4, DotLaws, Closed
  <2>2. Dot(VMinus(e, pk), z) = Minus(Dot(e, z), Dot(pk, z))
    BY <1>3, DotLaws, Closed
  <2>3. Dot(VMinus(e, pk), h) = Minus(Dot(e, h), Dot(pk, h))
    BY <1>3, DotLaws, Closed
  <2>. QED  BY <1>10, <1>11, <1>12, <2>1, <2>2, <2>3
<1>14. Dot(g, Apply(S, g)) = Plus(a, d) /\ Plus(a, d) \in Fraction /\ ~Negative(Plus(a, d))
  <2>1. Dot(g, VPlus(x, eta)) = Plus(a, d)
    BY <1>3, DotLaws, Closed
  <2>2. ~Negative(Dot(g, Apply(S, g)))
    BY <1>1, Weights DEF Nonnegative
  <2>. QED  BY <1>9, <2>1, <2>2, Closed DEF S
<1>15. Dot(left, m) \in Fraction
  BY <1>4, DotIs
<1>. HIDE DEF p, a, b, c, d, left, m
<1>16. Dot(left, m) = Minus(Plus(p, c), Plus(a, d))
  BY <1>9, <1>13, Rearranged
<1>17. Plus(p, c) \in Fraction /\ ~Less(Plus(p, c), Minus(Plus(p, c), Plus(a, d)))
  BY <1>9, <1>14, Drops, Closed
<1>. QED  BY <1>4, <1>8, <1>15, <1>16, <1>17 DEF p, c, W, S, left

\* k pays for a movement by c of a foot whose place has variance Q.
Covers(k, c, Q) ==
  \A t \in Fraction : ~Negative(Plus(Minus(k, Plus(Times(c, t), Times(c, t))), Times(Q, Times(t, t))))

\* The doubt after a step of the model in which the foot moves by c and the estimate does not.
LEMMA DoubtPredicted ==
  ASSUME Definite(P), NEW Q \in Vec, \A i \in 1..3 : ~Negative(Q[i]), NEW e \in Vec, NEW c \in Fraction,
         NEW k \in Fraction, Covers(k, c, Q[3]),
         NEW f \in Vec, f = VPlus(Apply(A, e), Scaled(c, Unit(3))), NEW z \in Vec, Apply(Predicted(Q), z) = f
  PROVE  /\ Dot(e, Solved(P, e)) \in Fraction /\ Dot(f, z) \in Fraction
         /\ ~Less(Plus(Dot(e, Solved(P, e)), k), Dot(f, z))
<1>. DEFINE q == Solved(P, e) a == Apply(At, z) pa == Apply(P, a)
            x == Dot(a, pa) w == Dot(z, Apply(Diagonal(Q), z)) yy == Dot(a, e) v == Times(c, z[3]) d == Dot(e, q)
<1>1. P \in Mat3 /\ Symmetric(P) /\ Nonnegative(P) /\ A \in Mat3 /\ At \in Mat3 /\ z[3] \in Fraction
  BY Weights, ModelMatrices, VecParts DEF Definite
<1>2. q \in Vec /\ Apply(P, q) = e /\ a \in Vec /\ pa \in Vec
  BY <1>1, SolvedOnly, ApplyIs
<1>3. x \in Fraction /\ w \in Fraction /\ yy \in Fraction /\ v \in Fraction /\ d \in Fraction
  BY <1>1, <1>2, LastWeight, DotIs, Closed
<1>4. Dot(z, f) = Plus(x, w)
  BY PredictedDefinite
<1>5. Dot(z, f) = Plus(yy, v)
  <2>1. Apply(A, e) \in Vec /\ Unit(3) \in Vec
    BY <1>1, ApplyIs, Units
  <2>2. Scaled(c, Unit(3)) \in Vec
    BY <2>1, VecOps
  <2>3. Dot(z, f) = Plus(Dot(z, Apply(A, e)), Dot(z, Scaled(c, Unit(3))))
    BY <2>1, <2>2, DotLaws, Closed
  <2>4. Dot(z, Apply(A, e)) = yy
    BY <1>1, Adjoint DEF At
  <2>5. Dot(z, Scaled(c, Unit(3))) = Times(c, Dot(z, Unit(3))) /\ Dot(z, Unit(3)) = z[3]
    BY <2>1, DotLaws, Units, SMTT(30)
  <2>. QED  BY <2>3, <2>4, <2>5
<1>6. Dot(f, z) = Dot(z, f)
  BY DotLaws, Closed
<1>7. ~Negative(Plus(Minus(x, Plus(yy, yy)), d))
  <2>. DEFINE b == VMinus(a, q)
  <2>1. b \in Vec
    BY <1>2, VecLaws
  <2>2. ~Negative(Dot(b, Apply(P, b)))
    BY <1>1, <2>1 DEF Nonnegative
  <2>3. Apply(P, b) = VMinus(pa, e)
    BY <1>1, <1>2, ApplyLaws, Closed
  <2>4. VMinus(pa, e) \in Vec
    BY <1>2, VecLaws
  <2>5. Dot(VMinus(a, q), VMinus(pa, e)) = Minus(Dot(a, VMinus(pa, e)), Dot(q, VMinus(pa, e)))
    BY <1>2, <2>4, DotLaws, Closed
  <2>6. Dot(a, VMinus(pa, e)) = Minus(x, yy)
    BY <1>2, DotLaws, Closed
  <2>7. Dot(q, VMinus(pa, e)) = Minus(Dot(q, pa), Dot(q, e))
    BY <1>2, DotLaws, Closed
  <2>8. Dot(q, pa) = yy
    <3>1. Dot(q, pa) = Dot(Apply(P, q), a)
      BY <1>1, <1>2, SymmetricIs
    <3>2. Dot(e, a) = Dot(a, e)
      BY <1>2, DotLaws, Closed
    <3>. QED  BY <1>2, <3>1, <3>2
  <2>9. Dot(q, e) = d
    BY <1>2, DotLaws, Closed
  <2>10. Dot(b, Apply(P, b)) = Minus(Minus(x, yy), Minus(yy, d))
    BY <2>3, <2>5, <2>6, <2>7, <2>8, <2>9
  <2>. HIDE DEF x, yy, d
  <2>. QED  BY <1>3, <2>2, <2>10, Unfolded
<1>8. ~Negative(Plus(Minus(k, Plus(v, v)), w))
  <2>. DEFINE m == Minus(k, Plus(v, v)) l == Times(Q[3], Times(z[3], z[3]))
  <2>1. ~Negative(Plus(m, l)) /\ m \in Fraction /\ l \in Fraction /\ Plus(m, l) \in Fraction
    <3>1. Q[3] \in Fraction
      BY DEF Vec
    <3>. QED  BY <1>1, <1>3, <3>1, Closed DEF Covers
  <2>2. PICK rest \in Fraction : ~Negative(rest) /\ w = Plus(rest, l)
    BY LastWeight
  <2>. HIDE DEF m, l, w
  <2>3. Plus(m, Plus(l, rest)) = Plus(Plus(m, l), rest) /\ Plus(rest, l) = Plus(l, rest)
    BY <2>1, <2>2, PlusLaws
  <2>4. ~Negative(Plus(Plus(m, l), rest))
    BY <2>1, <2>2, SignLaws
  <2>. QED  BY <2>2, <2>3, <2>4 DEF m
<1>. HIDE DEF x, yy, d, v, w
<1>9. ~Less(Plus(d, k), Plus(x, w))
  BY <1>3, <1>4, <1>5, <1>7, <1>8, Bounded
<1>10. Plus(x, w) \in Fraction
  BY <1>3, Closed
<1>. QED  BY <1>3, <1>4, <1>6, <1>9, <1>10 DEF d

\* What a foot is trusted with is its share of the stance: landing, leaving and between.
LEMMA TrustIs ==
  ASSUME NEW phase \in 0..10
  PROVE  /\ windowFunc(phase) = Share(phase) /\ Share(phase) \in Fraction
         /\ \E n \in 0..2 : Is(Share(phase), n, 2)
<1>. DEFINE m == Min({phase, 10 - phase, 2})
<1>1. /\ phase < 2 => m = phase
      /\ phase > 8 => m = 10 - phase
      /\ ~(phase < 2) /\ ~(phase > 8) => m = 2
  BY DEF Min
<1>2. m \in 0..2
  BY <1>1
<1>. HIDE DEF m
<1>3. Share(phase) = Frac(m, 2)
  BY DEF Share, m
<1>4. Frac(m, 2) \in Fraction /\ Is(Frac(m, 2), m, 2)
  BY <1>2, FracFits
<1>5. m = 2 => Frac(m, 2) = One
  <2>1. One \in Fraction /\ Is(One, 2, 2)
    BY Closed DEF Is, One
  <2>. QED  BY <1>4, <2>1, Same
<1>6. windowFunc(phase) = Frac(m, 2)
  BY <1>1, <1>5 DEF windowFunc
<1>. QED  BY <1>2, <1>3, <1>4, <1>6

\* The trust in a foot enters as a share of the large variance, kept or taken away.
LEMMA WaryIs ==
  ASSUME NEW s \in Fraction, NEW L \in Fraction
  PROVE  Plus(One, Times(Minus(One, s), L)) = Minus(Plus(One, L), Times(s, L))
<1>. DEFINE x == Times(s, L)
<1>1. /\ One \in Fraction /\ x \in Fraction /\ Minus(L, x) \in Fraction /\ Minus(Zero, x) \in Fraction
      /\ Plus(One, L) \in Fraction
  BY Closed
<1>2. Times(Minus(One, s), L) = Minus(L, x)
  <2>1. Times(L, Minus(One, s)) = Minus(Times(L, One), Times(L, s))
    BY <1>1, TimesLaws
  <2>2. Times(Minus(One, s), L) = Times(L, Minus(One, s)) /\ Times(L, s) = x /\ Times(L, One) = L
    BY <1>1, TimesLaws, Closed
  <2>. QED  BY <2>1, <2>2
<1>. HIDE DEF x
<1>3. Minus(L, x) = Plus(L, Minus(Zero, x)) /\ Plus(Plus(One, L), Minus(Zero, x)) = Plus(One, Plus(L, Minus(Zero, x)))
  BY <1>1, PlusLaws
<1>4. Minus(Plus(One, L), x) = Plus(Plus(One, L), Minus(Zero, x))
  BY <1>1, PlusLaws
<1>. QED  BY <1>2, <1>3, <1>4 DEF x

\* The variances a run works with: those of the foot are what is due to it, and positive.
LEMMA VariancesAre ==
  ASSUME NEW contact \in {0, 1}, NEW phase \in 0..10
  PROVE  LET w == Variances(contact, phase) IN
         /\ w.Q \in Vec /\ \A i \in 1..3 : ~Negative(w.Q[i])
         /\ w.R \in Vec /\ \A i \in 1..3 : Positive(w.R[i])
         /\ Positive(w.Q[3]) /\ w.Q[3] = Due(contact, phase, QInit[3])
         /\ w.R[2] = Due(contact, phase, RInit[2]) /\ w.R[3] = Due(contact, phase, RInit[3])
<1>. DEFINE f == windowFunc(phase) g == Minus(One, f) h == Times(g, largeVariance) k == Plus(One, h)
            of(v) == IF contact = 0 THEN largeVariance ELSE Times(k, v)
            w == Variances(contact, phase)
<1>1. /\ largeVariance \in Fraction /\ Positive(largeVariance) /\ One \in Fraction /\ Positive(One)
      /\ \A i \in 1..3 : RInit[i] \in Fraction /\ Positive(RInit[i]) /\ QInit[i] \in Fraction /\ ~Negative(QInit[i])
      /\ Positive(QInit[3])
  BY EstimatorAssumption, Neutral, Closed
<1>2. f = Share(phase) /\ f \in Fraction
  BY TrustIs
<1>3. g \in Fraction /\ ~Negative(g)
  <2>1. PICK n \in 0..2 : Is(f, n, 2)
    BY TrustIs
  <2>. HIDE DEF f
  <2>2. Is(One, 2, 2)
    BY DEF Is, One
  <2>3. Is(Minus(One, f), 2 - n, 2) /\ Minus(One, f) \in Fraction
    BY <1>1, <1>2, <2>1, <2>2, SumOver, Closed
  <2>4. ~(2 - n < 0) /\ 2 - n \in Int
    OBVIOUS
  <2>. QED  BY <2>3, <2>4, SignOver
<1>. HIDE DEF f, g
<1>4. h \in Fraction /\ ~Negative(h)
  BY <1>1, <1>3, SignLaws, Closed
<1>5. k = Minus(Plus(One, largeVariance), Times(Share(phase), largeVariance))
  BY <1>1, <1>2, WaryIs DEF g
<1>. HIDE DEF h
<1>6. k \in Fraction /\ Positive(k)
  BY <1>1, <1>4, SignLaws, Closed
<1>7. \A v : of(v) = Due(contact, phase, v)
  BY <1>5 DEF Due
<1>8. w = [Q |-> <<QInit[1], QInit[2], of(QInit[3])>>, R |-> <<RInit[1], of(RInit[2]), of(RInit[3])>>]
  BY DEF Variances, k, h, g, f
<1>. HIDE DEF k
<1>9. \A v \in Fraction : Positive(v) => of(v) \in Fraction /\ Positive(of(v)) /\ ~Negative(of(v))
  <2>1. ASSUME NEW v \in Fraction, Positive(v)
        PROVE  of(v) \in Fraction /\ Positive(of(v)) /\ ~Negative(of(v))
    <3>1. of(v) \in Fraction /\ Positive(of(v))
      BY <1>1, <1>6, <2>1, SignLaws, Closed
    <3>. QED  BY <3>1, SignLaws
  <2>. QED  BY <2>1
<1>. HIDE DEF of, w
<1>10. w.Q \in Vec /\ w.Q[1] = QInit[1] /\ w.Q[2] = QInit[2] /\ w.Q[3] = of(QInit[3])
  BY <1>1, <1>8, <1>9, VecParts
<1>11. w.R \in Vec /\ w.R[1] = RInit[1] /\ w.R[2] = of(RInit[2]) /\ w.R[3] = of(RInit[3])
  BY <1>1, <1>8, <1>9, VecParts
<1>12. \A i \in 1..3 : ~Negative(w.Q[i]) /\ Positive(w.R[i])
  <2>1. /\ ~Negative(w.Q[1]) /\ ~Negative(w.Q[2]) /\ ~Negative(w.Q[3])
        /\ Positive(w.R[1]) /\ Positive(w.R[2]) /\ Positive(w.R[3])
    BY <1>1, <1>9, <1>10, <1>11
  <2>. QED  BY <2>1, Cases3
<1>13. Positive(w.Q[3]) /\ w.Q[3] = Due(contact, phase, QInit[3])
       /\ w.R[2] = Due(contact, phase, RInit[2]) /\ w.R[3] = Due(contact, phase, RInit[3])
  BY <1>1, <1>7, <1>9, <1>10, <1>11
<1>. QED  BY <1>10, <1>11, <1>12, <1>13 DEF w

\* What the sensors measure of a state, when it stands on the ground.
LEMMA Sensing ==
  ASSUME NEW w \in Vec
  PROVE  /\ Apply(C, w)[1] = Minus(w[3], w[1]) /\ Apply(C, w)[2] = Minus(Zero, w[2]) /\ Apply(C, w)[3] = w[3]
         /\ Apply(C, w) \in Vec
<1>1. w[1] \in Fraction /\ w[2] \in Fraction /\ w[3] \in Fraction /\ One \in Fraction /\ Zero \in Fraction /\ Neg \in Fraction
  BY VecParts, Closed, ModelMatrices
<1>2. \A p \in Fraction : Times(Neg, p) = Minus(Zero, p) /\ Minus(Zero, p) \in Fraction
  <2>1. Neg = Minus(Zero, One)
    <3>1. Minus(Zero, One) = Plus(Zero, Neg)
      BY DEF Minus, One, Neg
    <3>. QED  BY <1>1, <3>1, Neutral
  <2>2. ASSUME NEW p \in Fraction
        PROVE  Times(Neg, p) = Minus(Zero, p)
    <3>1. Times(Neg, p) = Times(p, Neg)
      BY <1>1, TimesLaws
    <3>2. Times(p, Minus(Zero, One)) = Minus(Times(p, Zero), Times(p, One))
      BY <1>1, TimesLaws
    <3>. QED  BY <2>1, <3>1, <3>2, Neutral
  <2>. QED  BY <2>2, Closed
<1>3. \A a, b, c \in Fraction : Dot(<<a, b, c>>, w) = Plus(Plus(Times(a, w[1]), Times(b, w[2])), Times(c, w[3]))
  <2>1. ASSUME NEW a \in Fraction, NEW b \in Fraction, NEW c \in Fraction
        PROVE  Dot(<<a, b, c>>, w) = Plus(Plus(Times(a, w[1]), Times(b, w[2])), Times(c, w[3]))
    <3>. DEFINE t == <<a, b, c>>
    <3>1. t \in Vec /\ t[1] = a /\ t[2] = b /\ t[3] = c
      BY VecParts
    <3>. HIDE DEF t
    <3>. QED  BY <3>1, DotIs DEF t
  <2>. QED  BY <2>1
<1>4. C[1] = <<Neg, Zero, One>> /\ C[2] = <<Zero, Neg, Zero>> /\ C[3] = <<Zero, Zero, One>>
  BY DEF C
<1>5. Apply(C, w) \in Vec /\ Apply(C, w)[1] = Dot(C[1], w) /\ Apply(C, w)[2] = Dot(C[2], w) /\ Apply(C, w)[3] = Dot(C[3], w)
  BY ModelMatrices, ApplyIs
<1>6. \A p \in Fraction : /\ Times(One, p) = p /\ Times(Zero, p) = Zero /\ Plus(p, Zero) = p /\ Plus(Zero, p) = p
  BY Neutral
<1>7. Dot(C[1], w) = Minus(w[3], w[1])
  <2>1. Dot(C[1], w) = Plus(Plus(Times(Neg, w[1]), Times(Zero, w[2])), Times(One, w[3]))
    BY <1>1, <1>3, <1>4
  <2>2. Plus(Plus(Times(Neg, w[1]), Times(Zero, w[2])), Times(One, w[3])) = Plus(Minus(Zero, w[1]), w[3])
    BY <1>1, <1>2, <1>6
  <2>3. Plus(Minus(Zero, w[1]), w[3]) = Plus(w[3], Minus(Zero, w[1])) /\ Minus(w[3], w[1]) = Plus(w[3], Minus(Zero, w[1]))
    BY <1>1, <1>2, PlusLaws
  <2>. QED  BY <2>1, <2>2, <2>3
<1>8. Dot(C[2], w) = Minus(Zero, w[2])
  <2>1. Dot(C[2], w) = Plus(Plus(Times(Zero, w[1]), Times(Neg, w[2])), Times(Zero, w[3]))
    BY <1>1, <1>3, <1>4
  <2>. QED  BY <1>1, <1>2, <1>6, <2>1
<1>9. Dot(C[3], w) = w[3]
  <2>1. Dot(C[3], w) = Plus(Plus(Times(Zero, w[1]), Times(Zero, w[2])), Times(One, w[3]))
    BY <1>1, <1>3, <1>4
  <2>. QED  BY <1>1, <1>6, <2>1
<1>. QED  BY <1>5, <1>7, <1>8, <1>9

\* What the measurements say beyond what they would of a state that stands on the ground.
Claimed(climb, foot) == <<Zero, climb, Minus(Zero, foot)>>

\* The measurements of a tick are those of the truth and what is claimed.
LEMMA Readings ==
  ASSUME NEW p \in Fraction, NEW v \in Fraction, NEW foot \in Fraction, NEW climb \in Fraction
  PROVE  /\ <<p, v, foot>> \in Vec /\ Claimed(climb, foot) \in Vec
         /\ <<Minus(foot, p), Minus(climb, v), Zero>> \in Vec
         /\ <<Minus(foot, p), Minus(climb, v), Zero>> = VPlus(Apply(C, <<p, v, foot>>), Claimed(climb, foot))
<1>. DEFINE t == <<p, v, foot>> n == Claimed(climb, foot) m == <<Minus(foot, p), Minus(climb, v), Zero>>
            s == VPlus(Apply(C, t), n)
<1>1. Minus(foot, p) \in Fraction /\ Minus(climb, v) \in Fraction /\ Minus(Zero, foot) \in Fraction /\ Minus(Zero, v) \in Fraction
      /\ Zero \in Fraction
  BY Closed
<1>2. t \in Vec /\ n \in Vec /\ m \in Vec
  BY <1>1, VecParts DEF Claimed
<1>3. /\ t[1] = p /\ t[2] = v /\ t[3] = foot /\ n[1] = Zero /\ n[2] = climb /\ n[3] = Minus(Zero, foot)
      /\ m[1] = Minus(foot, p) /\ m[2] = Minus(climb, v) /\ m[3] = Zero
  BY DEF Claimed
<1>. HIDE DEF t, n, m
<1>4. /\ Apply(C, t) \in Vec /\ Apply(C, t)[1] = Minus(foot, p)
      /\ Apply(C, t)[2] = Minus(Zero, v) /\ Apply(C, t)[3] = foot
  BY <1>2, <1>3, Sensing
<1>5. s \in Vec /\ \A i \in 1..3 : s[i] = Plus(Apply(C, t)[i], n[i])
  BY <1>2, <1>4, VecOps, Closed
<1>6. s[1] = Minus(foot, p)
  BY <1>1, <1>3, <1>4, <1>5, Neutral
<1>7. s[2] = Minus(climb, v)
  <2>1. Plus(Minus(Zero, v), climb) = Plus(climb, Minus(Zero, v)) /\ Minus(climb, v) = Plus(climb, Minus(Zero, v))
    BY <1>1, PlusLaws
  <2>. QED  BY <1>3, <1>4, <1>5, <2>1
<1>8. s[3] = Zero
  <2>1. Minus(foot, foot) = Plus(foot, Minus(Zero, foot))
    BY <1>1, PlusLaws
  <2>. QED  BY <1>3, <1>4, <1>5, <2>1, Neutral
<1>9. m = s
  BY <1>2, <1>3, <1>5, <1>6, <1>7, <1>8, Equal3 DEF Vec
<1>. QED  BY <1>2, <1>9 DEF t, n, m

\* What a tick adds to the excuse, with the variance q of the foot's place and those of the
\* measurements, r.
Growth(q, r, climb, foot) ==
  Plus(Over(Square(climb), q), Plus(Over(Square(climb), r[2]), Over(Square(foot), r[3])))

\* k covers the movement of the foot, and the rest of what a tick adds covers what is claimed.
Pays(k, r, q, climb, foot) ==
  /\ k \in Fraction /\ Covers(k, climb, q)
  /\ \E zeta \in Vec : /\ Apply(Diagonal(r), zeta) = Claimed(climb, foot)
                       /\ Growth(q, r, climb, foot) = Plus(k, Dot(Claimed(climb, foot), zeta))

\* What a tick adds to the excuse pays for the movement of the foot and for what is claimed.
LEMMA Expenses ==
  ASSUME NEW q \in Fraction, Positive(q), NEW r \in Vec, \A i \in 1..3 : Positive(r[i]),
         NEW climb \in Fraction, NEW foot \in Fraction
  PROVE  Pays(Over(Square(climb), q), r, q, climb, foot)
<1>. DEFINE c == Square(climb) f == Square(foot) k == Over(c, q) n == Claimed(climb, foot)
            h == Minus(Zero, foot) u == Over(climb, r[2]) v == Over(h, r[3]) zeta == <<Zero, u, v>>
<1>1. /\ r[1] \in Fraction /\ r[2] \in Fraction /\ r[3] \in Fraction /\ h \in Fraction
      /\ r[2] # Zero /\ r[3] # Zero /\ q # Zero /\ c \in Fraction /\ f \in Fraction
  <2>1. r[1] \in Fraction /\ r[2] \in Fraction /\ r[3] \in Fraction
    BY VecParts
  <2>2. Positive(r[2]) /\ Positive(r[3])
    OBVIOUS
  <2>. QED  BY <2>1, <2>2, SignLaws, Closed DEF Square
<1>2. k \in Fraction /\ u \in Fraction /\ v \in Fraction /\ Times(r[2], u) = climb /\ Times(r[3], v) = h
  BY <1>1, OverIs
<1>3. Covers(k, climb, q)
  <2>1. ASSUME NEW t \in Fraction
        PROVE  ~Negative(Plus(Minus(k, Plus(Times(climb, t), Times(climb, t))), Times(q, Times(t, t))))
    BY MoveCosts DEF Square
  <2>. QED  BY <2>1 DEF Covers
<1>4. n \in Vec /\ n[1] = Zero /\ n[2] = climb /\ n[3] = h
  BY Readings DEF Claimed
<1>5. zeta \in Vec /\ zeta[1] = Zero /\ zeta[2] = u /\ zeta[3] = v
  BY <1>2, VecParts, Closed
<1>6. Times(climb, u) = Over(c, r[2]) /\ Times(h, v) = Over(f, r[3])
  <2>1. Times(climb, Over(climb, r[2])) = Over(Times(climb, climb), r[2])
    BY <1>1, Quotients
  <2>2. Times(h, Over(h, r[3])) = Over(Times(h, h), r[3]) /\ Times(h, h) = Times(foot, foot)
    BY <1>1, Quotients
  <2>. QED  BY <2>1, <2>2 DEF Square
<1>. HIDE DEF zeta, n, u, v, k, h
<1>7. Apply(Diagonal(r), zeta) = n
  <2>1. Apply(Diagonal(r), zeta) \in Vec /\ \A i \in 1..3 : Apply(Diagonal(r), zeta)[i] = Times(r[i], zeta[i])
    BY <1>5, DiagonalIs, ApplyIs
  <2>2. Times(r[1], Zero) = Zero
    BY <1>1, Neutral
  <2>. QED  BY <1>2, <1>4, <1>5, <2>1, <2>2, Equal3 DEF Vec
<1>8. Dot(n, zeta) = Plus(Times(climb, u), Times(h, v))
  <2>1. Dot(n, zeta) = Plus(Plus(Times(Zero, Zero), Times(climb, u)), Times(h, v))
    BY <1>4, <1>5, DotIs
  <2>2. Times(Zero, Zero) = Zero /\ Plus(Zero, Times(climb, u)) = Times(climb, u)
    BY <1>2, Neutral, Closed
  <2>. QED  BY <2>1, <2>2
<1>9. Growth(q, r, climb, foot) = Plus(k, Dot(n, zeta))
  BY <1>6, <1>8 DEF Growth, k
<1>. QED  BY <1>2, <1>3, <1>5, <1>7, <1>9 DEF Pays, n, k

\* A tick takes the error of the estimate where the model would, but for the foot.
LEMMA ErrorMoves ==
  ASSUME NEW t \in Vec, NEW x \in Vec, NEW a \in Fraction, NEW foot \in Fraction
  PROVE  LET s == <<Plus(t[1], t[2]), Plus(t[2], a), foot>>
             xp == VPlus(Apply(A, x), Scaled(a, B)) IN
         /\ xp \in Vec /\ s \in Vec
         /\ VMinus(s, xp) = VPlus(Apply(A, VMinus(t, x)), Scaled(Minus(foot, t[3]), Unit(3)))
<1>. DEFINE s == <<Plus(t[1], t[2]), Plus(t[2], a), foot>> T == Apply(A, t) X == Apply(A, x) b == Scaled(a, B)
            c == Minus(foot, t[3]) u == Scaled(c, Unit(3)) d == VMinus(T, X)
<1>1. t[1] \in Fraction /\ t[2] \in Fraction /\ t[3] \in Fraction /\ c \in Fraction /\ Zero \in Fraction
      /\ Plus(t[1], t[2]) \in Fraction /\ Plus(t[2], a) \in Fraction
  BY VecParts, Closed
<1>2. A \in Mat3 /\ B \in Vec /\ Unit(3) \in Vec /\ B[1] = Zero /\ B[2] = One /\ B[3] = Zero
      /\ Unit(3)[1] = Zero /\ Unit(3)[2] = Zero /\ Unit(3)[3] = One
  BY ModelMatrices, Units DEF B, Unit
<1>3. s \in Vec /\ s[1] = Plus(t[1], t[2]) /\ s[2] = Plus(t[2], a) /\ s[3] = foot
  BY <1>1, VecParts
<1>4. T \in Vec /\ X \in Vec /\ T[1] = Plus(t[1], t[2]) /\ T[2] = t[2] /\ T[3] = t[3]
  BY <1>2, ApplyIs, Motion
<1>5. b \in Vec /\ b[1] = Zero /\ b[2] = a /\ b[3] = Zero
  <2>1. b \in Vec /\ \A i \in 1..3 : b[i] = Times(a, B[i])
    BY <1>2, VecOps
  <2>. HIDE DEF b
  <2>. QED  BY <1>2, <2>1, Neutral
<1>6. u \in Vec /\ u[1] = Zero /\ u[2] = Zero /\ u[3] = c
  <2>1. u \in Vec /\ \A i \in 1..3 : u[i] = Times(c, Unit(3)[i])
    BY <1>1, <1>2, VecOps
  <2>2. Times(c, Zero) = Zero /\ Times(c, One) = c
    BY <1>1, Neutral
  <2>. HIDE DEF u, c
  <2>. QED  BY <1>2, <2>1, <2>2
<1>. HIDE DEF T, X, b, u, s
<1>7. s = VPlus(VPlus(T, b), u)
  <2>1. VPlus(T, b) \in Vec /\ \A i \in 1..3 : VPlus(T, b)[i] = Plus(T[i], b[i])
    BY <1>1, <1>4, <1>5, VecOps
  <2>2. VPlus(VPlus(T, b), u) \in Vec /\ \A i \in 1..3 : VPlus(VPlus(T, b), u)[i] = Plus(VPlus(T, b)[i], u[i])
    BY <1>1, <1>6, <2>1, VecOps
  <2>3. Plus(Plus(Plus(t[1], t[2]), Zero), Zero) = Plus(t[1], t[2]) /\ Plus(Plus(t[2], a), Zero) = Plus(t[2], a)
        /\ Plus(t[3], Zero) = t[3]
    BY <1>1, Neutral
  <2>4. Plus(t[3], c) = foot
    BY <1>1, PlusLaws
  <2>. QED  BY <1>3, <1>4, <1>5, <1>6, <2>1, <2>2, <2>3, <2>4, Equal3 DEF Vec
<1>8. d \in Vec /\ VPlus(d, X) = T /\ VPlus(X, b) \in Vec
  BY <1>4, <1>5, VecLaws
<1>. HIDE DEF d
<1>9. VPlus(VPlus(T, b), u) = VPlus(VPlus(d, u), VPlus(X, b))
  <2>1. VPlus(VPlus(d, X), b) = VPlus(d, VPlus(X, b))
    BY <1>4, <1>5, <1>8, VecLaws
  <2>2. VPlus(VPlus(d, VPlus(X, b)), u) = VPlus(d, VPlus(VPlus(X, b), u)) /\ VPlus(VPlus(X, b), u) = VPlus(u, VPlus(X, b))
    BY <1>6, <1>8, VecLaws
  <2>3. VPlus(VPlus(d, u), VPlus(X, b)) = VPlus(d, VPlus(u, VPlus(X, b)))
    BY <1>6, <1>8, VecLaws
  <2>. QED  BY <1>8, <2>1, <2>2, <2>3
<1>10. VMinus(VPlus(VPlus(d, u), VPlus(X, b)), VPlus(X, b)) = VPlus(d, u)
  <2>1. VPlus(d, u) \in Vec
    BY <1>6, <1>8, VecLaws
  <2>. QED  BY <1>8, <2>1, VecLaws
<1>11. Apply(A, VMinus(t, x)) = d
  BY <1>2, ApplyLaws, Closed DEF d, T, X
<1>. QED  BY <1>3, <1>7, <1>8, <1>9, <1>10, <1>11 DEF s, X, b, u

\* The doubt of an estimate x with covariance W of the state t.
DoubtOf(t, x, W) == Dot(VMinus(t, x), Solved(W, VMinus(t, x)))

\* The estimate x of covariance W follows the truth to t, expected from the covariance prior
\* and measured with noise, at a doubt no more than k above that before.
Follows(t, x, W, prior, noise, k) ==
  /\ t \in Vec /\ x \in Vec /\ k \in Fraction
  /\ Definite(prior) /\ Definite(W)
  /\ \E r \in Vec : (\A i \in 1..3 : Positive(r[i])) /\ noise = Diagonal(r)
  /\ Doubt \in Fraction /\ DoubtOf(t, x, W) \in Fraction
  /\ ~Less(Plus(Doubt, k), DoubtOf(t, x, W))

\* The state, the measurements, the variances, covariances and estimate a tick makes.
Moved(a, foot) == <<Plus(truth[1], truth[2]), Plus(truth[2], a), foot>>

Measured(a, foot) ==
  <<Minus(foot, Plus(truth[1], truth[2])), Minus(Minus(foot, truth[3]), Plus(truth[2], a)), Zero>>

Noise(contact, phase) == Diagonal(Variances(contact, phase).R)

Prior(contact, phase) == Predicted(Variances(contact, phase).Q)

Between(contact, phase) == Innovation(Prior(contact, phase), Noise(contact, phase))

Estimated(a, foot, contact, phase) ==
  VPlus(xPredicted(a), Apply(Product(Prior(contact, phase), Transpose(C)),
                             Solved(Between(contact, phase), VMinus(Measured(a, foot), Apply(C, xPredicted(a))))))

\* What a tick does, in these terms: the estimate follows.
Tracks(a, foot, contact, phase) ==
  /\ Follows(Moved(a, foot), Estimated(a, foot, contact, phase),
             Covariance(Prior(contact, phase), Noise(contact, phase), Between(contact, phase)),
             Prior(contact, phase), Noise(contact, phase),
             Growth(Variances(contact, phase).Q[3], Variances(contact, phase).R, Minus(foot, truth[3]), foot))
  /\ xPredicted(a) \in Vec /\ Measured(a, foot) \in Vec

\* A tick adds to the doubt no more than to the excuse.
LEMMA TickDoubts ==
  ASSUME Definite(P), truth \in Vec, xhat \in Vec, NEW a \in Fraction, NEW foot \in Fraction,
         NEW contact \in {0, 1}, NEW phase \in 0..10
  PROVE  Tracks(a, foot, contact, phase)
<1>. DEFINE body == Plus(truth[1], truth[2]) v == Plus(truth[2], a) climb == Minus(foot, truth[3])
            w == Variances(contact, phase) prior == Prior(contact, phase) noise == Noise(contact, phase)
            S == Between(contact, phase) m == Measured(a, foot) x == Estimated(a, foot, contact, phase)
<1>0. /\ body = Plus(truth[1], truth[2]) /\ v = Plus(truth[2], a) /\ climb = Minus(foot, truth[3])
      /\ w = Variances(contact, phase) /\ prior = Predicted(w.Q) /\ noise = Diagonal(w.R)
      /\ S = Innovation(prior, noise) /\ m = <<Minus(foot, body), Minus(climb, v), Zero>>
      /\ x = VPlus(xPredicted(a), Apply(Product(prior, Transpose(C)), Solved(S, VMinus(m, Apply(C, xPredicted(a))))))
  BY DEF Prior, Noise, Between, Measured, Estimated
<1>. HIDE DEF body, v, climb, w, prior, noise, S, m, x
<1>. USE <1>0
<1>. DEFINE t == <<body, v, foot>> W == Covariance(prior, noise, S)
            Q == w.Q r == w.R growth == Growth(Q[3], r, climb, foot)
            e == VMinus(truth, xhat) xp == xPredicted(a) f == VMinus(t, xp) n == Claimed(climb, foot)
            k == Over(Square(climb), Q[3])
            gap == VMinus(m, Apply(C, xp)) g == Solved(S, gap) z == Solved(prior, f)
            left == VMinus(f, Apply(prior, Apply(Ct, g)))
<1>1. truth[1] \in Fraction /\ truth[2] \in Fraction /\ truth[3] \in Fraction
      /\ body \in Fraction /\ v \in Fraction /\ climb \in Fraction /\ e \in Vec
  BY VecParts, VecLaws, Closed
<1>3. /\ Q \in Vec /\ (\A i \in 1..3 : ~Negative(Q[i])) /\ Q[3] \in Fraction /\ Positive(Q[3])
      /\ r \in Vec /\ (\A i \in 1..3 : Positive(r[i])) /\ noise = Diagonal(r) /\ prior = Predicted(Q)
  <2>1. /\ Q \in Vec /\ (\A i \in 1..3 : ~Negative(Q[i])) /\ Positive(Q[3])
        /\ r \in Vec /\ (\A i \in 1..3 : Positive(r[i]))
    BY VariancesAre
  <2>. HIDE DEF Q, r
  <2>. QED  BY <2>1, VecParts DEF Q, r
<1>4. /\ k \in Fraction /\ Covers(k, climb, Q[3])
      /\ \E zeta \in Vec : Apply(Diagonal(r), zeta) = n /\ growth = Plus(k, Dot(n, zeta))
  <2>1. Pays(Over(Square(climb), Q[3]), r, Q[3], climb, foot)
    <3>. HIDE DEF growth, n, Q, r
    <3>. QED  BY <1>1, <1>3, Expenses
  <2>. QED  BY <2>1 DEF Pays
<1>. HIDE DEF Q, r
<1>5. Definite(prior) /\ Definite(noise) /\ Definite(S) /\ Definite(W)
  <2>1. Definite(prior)
    BY <1>3, PredictedDefinite
  <2>2. Definite(noise)
    BY <1>3, DiagonalSigns
  <2>. QED  BY <2>1, <2>2, InnovationIs, CovarianceDefinite
<1>6. prior \in Mat3 /\ C \in Mat3 /\ Ct \in Mat3 /\ \A M \in Mat3 : \A u \in Vec : Apply(M, u) \in Vec
  BY <1>5, Weights, ModelMatrices, ApplyIs
<1>7. t \in Vec /\ n \in Vec /\ m \in Vec /\ m = VPlus(Apply(C, t), n)
  BY <1>1, Readings
<1>8. xp \in Vec /\ f \in Vec /\ f = VPlus(Apply(A, e), Scaled(climb, Unit(3)))
  <2>1. xp \in Vec /\ f = VPlus(Apply(A, e), Scaled(climb, Unit(3)))
    BY ErrorMoves DEF xPredicted
  <2>. QED  BY <1>7, <2>1, VecLaws
<1>. HIDE DEF xp, n, t, W, growth, k, e
<1>9. gap \in Vec /\ gap = VPlus(Apply(C, f), n)
  <2>1. Apply(C, f) = VMinus(Apply(C, t), Apply(C, xp))
    BY <1>6, <1>7, <1>8, ApplyLaws, Closed
  <2>. DEFINE p == Apply(C, t) q == Apply(C, xp) s == VMinus(p, q)
  <2>2. p \in Vec /\ q \in Vec /\ s \in Vec /\ VPlus(s, q) = p
    BY <1>6, <1>7, <1>8, VecLaws
  <2>. HIDE DEF p, q, s
  <2>3. VPlus(VPlus(s, q), n) = VPlus(s, VPlus(q, n)) /\ VPlus(q, n) = VPlus(n, q)
        /\ VPlus(VPlus(s, n), q) = VPlus(s, VPlus(n, q)) /\ VPlus(s, n) \in Vec
    BY <1>7, <2>2, VecLaws
  <2>4. VMinus(VPlus(VPlus(s, n), q), q) = VPlus(s, n)
    BY <2>2, <2>3, VecLaws
  <2>. QED  BY <1>7, <2>1, <2>2, <2>3, <2>4 DEF p, q, s
<1>10. g \in Vec /\ Apply(S, g) = VPlus(Apply(C, f), n) /\ z \in Vec /\ Apply(prior, z) = f
  BY <1>5, <1>8, <1>9, SolvedOnly
<1>11. x \in Vec /\ VMinus(t, x) = left
  <2>. DEFINE p == Apply(prior, Apply(Ct, g))
  <2>1. p \in Vec /\ x = VPlus(xp, p)
    BY <1>6, <1>10, ProductApply DEF xp, Ct
  <2>. HIDE DEF f, p, g
  <2>2. x \in Vec
    BY <1>8, <2>1, VecLaws
  <2>3. VMinus(t, x) = VMinus(f, p)
    <3>. DEFINE d == VMinus(f, p)
    <3>1. d \in Vec /\ VPlus(d, p) = f /\ VPlus(f, xp) = t
      BY <1>7, <1>8, <2>1, VecLaws DEF f
    <3>. HIDE DEF d
    <3>2. VPlus(VPlus(d, p), xp) = VPlus(d, VPlus(p, xp)) /\ VPlus(p, xp) = VPlus(xp, p)
      BY <1>8, <2>1, <3>1, VecLaws
    <3>3. VMinus(VPlus(d, x), x) = d
      BY <2>2, <3>1, VecLaws
    <3>. QED  BY <2>1, <3>1, <3>2, <3>3 DEF d
  <2>. QED  BY <2>2, <2>3 DEF p
<1>12. PICK zeta \in Vec : Apply(noise, zeta) = n /\ growth = Plus(k, Dot(n, zeta))
  BY <1>3, <1>4
<1>13. Dot(f, z) \in Fraction /\ Dot(n, zeta) \in Fraction /\ Doubt = Dot(e, Solved(P, e))
  BY <1>7, <1>8, <1>10, DotIs DEF Doubt, e
<1>14. /\ left \in Vec /\ Dot(left, Solved(W, left)) \in Fraction
       /\ ~Less(Plus(Dot(f, z), Dot(n, zeta)), Dot(left, Solved(W, left)))
  <2>. HIDE DEF f, g, z
  <2>. QED  BY <1>5, <1>7, <1>8, <1>10, <1>12, DoubtMeasured, SMTT(30) DEF W
<1>15. Doubt \in Fraction /\ ~Less(Plus(Doubt, k), Dot(f, z))
  <2>1. Apply(Predicted(Q), z) = f
    BY <1>3, <1>10
  <2>. HIDE DEF f, z
  <2>. QED  BY <1>1, <1>3, <1>4, <1>8, <1>10, <1>13, <2>1, DoubtPredicted
<1>. DEFINE new == Dot(left, Solved(W, left)) mid == Dot(f, z) cost == Dot(n, zeta)
<1>16. DoubtOf(t, x, W) = new
  BY <1>11 DEF DoubtOf
<1>. HIDE DEF left, f, z
<1>17. new \in Fraction /\ mid \in Fraction /\ cost \in Fraction /\ ~Less(Plus(mid, cost), new)
  BY <1>13, <1>14
<1>. HIDE DEF new, mid, cost
<1>18. ~Less(Plus(Plus(Doubt, k), cost), Plus(mid, cost))
  <2>1. Plus(Doubt, k) \in Fraction
    BY <1>4, <1>15, Closed
  <2>2. ~Less(Plus(Doubt, k), mid)
    BY <1>15 DEF mid
  <2>. QED  BY <1>17, <2>1, <2>2, NotLessLaws
<1>19. Plus(Plus(Doubt, k), cost) = Plus(Doubt, growth)
  BY <1>4, <1>12, <1>15, <1>17, PlusLaws DEF cost
<1>20. growth \in Fraction /\ Plus(Doubt, growth) \in Fraction /\ Plus(mid, cost) \in Fraction
  BY <1>4, <1>12, <1>15, <1>17, Closed DEF cost
<1>21. ~Less(Plus(Doubt, growth), new)
  BY <1>17, <1>18, <1>19, <1>20, NotLessLaws
<1>22. \E s \in Vec : (\A i \in 1..3 : Positive(s[i])) /\ noise = Diagonal(s)
  BY <1>3
<1>23. Follows(t, x, W, prior, noise, growth) /\ xp \in Vec /\ m \in Vec
  BY <1>5, <1>7, <1>8, <1>11, <1>15, <1>16, <1>17, <1>20, <1>21, <1>22 DEF Follows
<1>. QED  BY <1>23 DEF t, W, growth, Q, r, w, xp, Tracks, Moved, body, v, climb, prior, noise, S, m, x

\* Every covariance is definite, and the estimate is what run makes of that expected before
\* and of the last measurements; initially of measurements that say nothing.
Inv ==
  /\ truth \in Vec /\ xhat \in Vec /\ xpriori \in Vec /\ y \in Vec
  /\ excuse \in Fraction /\ tick \in Nat
  /\ Definite(P) /\ Definite(Ppriori)
  /\ \E r \in Vec : (\A i \in 1..3 : Positive(r[i])) /\ R = Diagonal(r)
  /\ xhat = VPlus(xpriori, Apply(Product(Ppriori, Transpose(C)),
                                 Solved(Innovation(Ppriori, R), VMinus(y, Apply(C, xpriori)))))
  /\ DoubtExcused

\* The invariant holds when the program starts (_initSystem).
LEMMA InvInitially == Init => Inv
<1>. SUFFICES ASSUME Init PROVE Inv
  OBVIOUS
<1>. DEFINE L == largeVariance d == <<L, L, L>> S == Innovation(P, P)
<1>1. L \in Fraction /\ Positive(L) /\ L # Zero /\ Zero \in Fraction /\ NullV \in Vec
  BY EstimatorAssumption, SignLaws, Closed, VecParts
<1>2. PICK p \in Fraction : truth = <<p, Zero, Zero>>
  BY EstimatorAssumption DEF Init
<1>3. truth \in Vec /\ truth[1] = p /\ truth[2] = Zero /\ truth[3] = Zero
  BY <1>1, <1>2, VecParts
<1>4. d \in Vec /\ d[1] = L /\ d[2] = L /\ d[3] = L
  BY <1>1, VecParts
<1>. HIDE DEF d
<1>5. P = Diagonal(d) /\ Ppriori = P /\ R = P /\ xhat = NullV /\ xpriori = NullV /\ y = NullV /\ tick = 0
  BY DEF Init, d, NullV
<1>6. \A i \in 1..3 : Positive(d[i])
  BY <1>1, <1>4, Cases3
<1>7. Definite(P) /\ Definite(S) /\ P \in Mat3
  BY <1>4, <1>5, <1>6, DiagonalSigns, InnovationIs, Weights
<1>8. xhat = VPlus(xpriori, Apply(Product(Ppriori, Transpose(C)),
                                  Solved(Innovation(Ppriori, R), VMinus(y, Apply(C, xpriori)))))
  <2>1. Product(P, Ct) \in Mat3 /\ C \in Mat3
    BY <1>7, ModelMatrices, ProductIs
  <2>2. VMinus(NullV, Apply(C, NullV)) = NullV /\ Solved(S, NullV) = NullV /\ Apply(Product(P, Ct), NullV) = NullV
        /\ VPlus(NullV, NullV) = NullV
    BY <1>1, <1>7, <2>1, NullStays, NullLaws
  <2>. QED  BY <1>5, <2>2 DEF Ct
<1>9. excuse \in Fraction /\ Doubt = excuse
  <2>. DEFINE q == Over(p, L) x == <<q, Zero, Zero>>
  <2>1. q \in Fraction /\ Times(L, q) = p
    BY <1>1, OverIs
  <2>2. x \in Vec /\ x[1] = q /\ x[2] = Zero /\ x[3] = Zero
    BY <1>1, <2>1, VecParts
  <2>. HIDE DEF x
  <2>3. Apply(P, x) = truth
    <3>1. Apply(P, x) \in Vec /\ \A i \in 1..3 : Apply(P, x)[i] = Times(d[i], x[i])
      BY <1>4, <1>5, <1>7, <2>2, DiagonalIs, ApplyIs
    <3>. QED  BY <1>1, <1>3, <1>4, <2>1, <2>2, <3>1, Neutral, Equal3 DEF Vec
  <2>4. VMinus(truth, xhat) = truth /\ Solved(P, truth) = x
    BY <1>3, <1>5, <1>7, <2>2, <2>3, NullLaws, SolvedOnly
  <2>5. Dot(truth, x) = Times(p, q)
    <3>1. Dot(truth, x) = Plus(Plus(Times(p, q), Times(Zero, Zero)), Times(Zero, Zero))
      BY <1>3, <2>2, DotIs
    <3>2. Times(p, q) \in Fraction
      BY <2>1, Closed
    <3>. QED  BY <1>1, <3>1, <3>2, Neutral
  <2>6. Times(p, q) = Over(Square(truth[1]), L) /\ Times(p, q) \in Fraction
    BY <1>1, <1>3, <2>1, Quotients, Closed DEF Square
  <2>. QED  BY <2>4, <2>5, <2>6 DEF Init, Doubt
<1>10. DoubtExcused
  BY <1>9, LessIrreflexive DEF DoubtExcused
<1>11. \E r \in Vec : (\A i \in 1..3 : Positive(r[i])) /\ R = Diagonal(r)
  BY <1>4, <1>5, <1>6
<1>12. tick \in Nat
       /\ xhat \in Vec /\ xpriori \in Vec /\ y \in Vec /\ Definite(Ppriori)
  BY <1>1, <1>5, <1>7
<1>. QED  BY <1>3, <1>7, <1>8, <1>9, <1>10, <1>11, <1>12 DEF Inv

\* Every tick keeps the invariant.
LEMMA InvKept == Inv /\ [Next]_vars => Inv'
<1>. SUFFICES ASSUME Inv, [Next]_vars PROVE Inv'
  OBVIOUS
<1>1. CASE UNCHANGED vars
  BY <1>1 DEF vars, Inv, DoubtExcused, Doubt
<1>2. ASSUME NEW a \in Accelerations, NEW contact \in {0, 1}, NEW phase \in Phases, NEW foot \in {Zero, One},
             Tick(a, contact, phase, foot)
      PROVE  Inv'
  <2>. DEFINE climb == Minus(foot, truth[3]) prior == Prior(contact, phase) noise == Noise(contact, phase)
              S == Between(contact, phase) m == Measured(a, foot) x == Estimated(a, foot, contact, phase)
              t == Moved(a, foot) W == Covariance(prior, noise, S)
              w == Variances(contact, phase) growth == Growth(w.Q[3], w.R, climb, foot)
  <2>1. /\ truth' = t /\ xhat' = x /\ P' = W /\ xpriori' = xPredicted(a) /\ Ppriori' = prior /\ R' = noise
        /\ y' = m /\ excuse' = Plus(excuse, growth) /\ tick' = tick + 1
    <3>1. /\ Due(contact, phase, QInit[3]) = w.Q[3] /\ Due(contact, phase, RInit[2]) = w.R[2]
          /\ Due(contact, phase, RInit[3]) = w.R[3]
      BY EstimatorAssumption, VariancesAre
    <3>. QED  BY <1>2, <3>1 DEF Tick, run, Growth, Prior, Noise, Between, Measured, Estimated, Moved
  <2>2. a \in Fraction /\ foot \in Fraction /\ phase \in 0..10
    BY EstimatorAssumption, Closed
  <2>3. Definite(P) /\ truth \in Vec /\ xhat \in Vec /\ excuse \in Fraction /\ tick \in Nat
    BY DEF Inv
  <2>4. /\ Follows(t, x, W, prior, noise, growth)
        /\ xPredicted(a) \in Vec /\ m \in Vec
    BY <2>2, <2>3, TickDoubts DEF Tracks
  <2>. HIDE DEF t, x, m, prior, W, noise, growth, w
  <2>5. ~Less(Plus(excuse, growth), DoubtOf(t, x, W)) /\ Plus(excuse, growth) \in Fraction
    <3>. DEFINE k == growth new == DoubtOf(t, x, W)
    <3>1. ~Less(excuse, Doubt) /\ ~Less(k, k)
      BY <2>4, LessIrreflexive DEF Inv, DoubtExcused, Follows
    <3>2. k \in Fraction /\ new \in Fraction /\ Doubt \in Fraction /\ Plus(excuse, k) \in Fraction /\ Plus(Doubt, k) \in Fraction
          /\ ~Less(Plus(Doubt, k), new)
      BY <2>3, <2>4, Closed DEF Follows
    <3>. HIDE DEF k, new
    <3>3. ~Less(Plus(excuse, k), Plus(Doubt, k))
      BY <2>3, <3>1, <3>2, NotLessLaws
    <3>4. ~Less(Plus(excuse, k), new)
      BY <3>2, <3>3, NotLessLaws
    <3>. QED  BY <3>2, <3>4 DEF k, new
  <2>6. DoubtExcused'
    BY <2>1, <2>5 DEF DoubtExcused, Doubt, DoubtOf
  <2>8. xhat' = VPlus(xpriori', Apply(Product(Ppriori', Transpose(C)),
                                      Solved(Innovation(Ppriori', R'), VMinus(y', Apply(C, xpriori')))))
    BY <2>1 DEF x, Estimated, Between, m, prior, noise
  <2>9. tick' \in Nat /\ truth' \in Vec /\ xhat' \in Vec /\ xpriori' \in Vec /\ y' \in Vec /\ excuse' \in Fraction
    BY <2>1, <2>3, <2>4, <2>5 DEF Follows
  <2>10. /\ Definite(P') /\ Definite(Ppriori')
         /\ \E r \in Vec : (\A i \in 1..3 : Positive(r[i])) /\ R' = Diagonal(r)
    BY <2>1, <2>4 DEF Follows
  <2>. QED  BY <2>6, <2>8, <2>9, <2>10 DEF Inv
<1>. QED  BY <1>1, <1>2 DEF Next

\* The invariant holds for ever, of any variances and accelerations, and however long the
\* robot runs: Ticks bounds only what TLC looks at.
LEMMA EstimatorInvariant == Spec => []Inv
  BY InvInitially, InvKept, PTL DEF Spec

\* The estimate is the least-squares one in every state: it rests between what the model
\* expected and what the legs measured (Estimator.cpp, run: _xhat).
THEOREM EstimateRests == Spec => []LeastSquares
<1>1. Inv => LeastSquares
  <2>. SUFFICES ASSUME Inv PROVE LeastSquares
    OBVIOUS
  <2>1. PICK r \in Vec : (\A i \in 1..3 : Positive(r[i])) /\ R = Diagonal(r)
    BY DEF Inv
  <2>2. /\ Definite(Ppriori) /\ xpriori \in Vec /\ xhat \in Vec /\ y \in Vec
        /\ xhat = VPlus(xpriori, Apply(Product(Ppriori, Ct), Solved(Innovation(Ppriori, R), VMinus(y, Apply(C, xpriori)))))
    BY DEF Inv, Ct
  <2>3. VMinus(xhat, xpriori) = Apply(Ppriori, Apply(Ct, Weighed(VMinus(y, Apply(C, xhat)))))
    BY <2>1, <2>2, Rests
  <2>. QED  BY <2>3 DEF LeastSquares, Ct
<1>. QED  BY <1>1, EstimatorInvariant, PTL

\* With exact sensors the truth is never more doubtful than at the start but for the movement
\* and the height of the foot, each over the variance due to it: the large one in a swing, and
\* while the foot is scheduled to stand the one that goes with the trust at its phase, whether
\* it does or not (Estimator.cpp, run: _Q, _R; mathTools.h, windowFunc).
THEOREM DoubtIsExcused == Spec => []DoubtExcused
<1>1. Inv => DoubtExcused
  BY DEF Inv
<1>. QED  BY <1>1, EstimatorInvariant, PTL
===============================================================================
