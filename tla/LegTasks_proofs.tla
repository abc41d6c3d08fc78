--------------------------- MODULE LegTasks_proofs ---------------------------
(***************************************************************************)
(* What LegTasks promises of the legs holds for all lengths of the links,  *)
(* all joint angles, attitudes, motions and forces, and all goals whose    *)
(* angles are fractions:                                                   *)
(*   - the integer root finds roots;                                       *)
(*   - the Jacobian's columns are the foot's moves with one joint alone,   *)
(*     and it is regular where the foot is below the hip's axis and the    *)
(*     knee bent;                                                          *)
(*   - the attitude's matrix is a turn;                                    *)
(*   - calcQ puts the foot where it is asked to, and is the inverse of     *)
(*     calcPEe2B;                                                          *)
(*   - so the properties of LegTasks follow from an invariant that says    *)
(*     what was measured and what is commanded.                            *)
(***************************************************************************)
EXTENDS LegTasks, Rational_proofs

-----------------------------------------------------------------------------
(* The integer root. *)

\* f is, up to the measure n, what a recursion computes that ends at stop with value, and
\* goes from any other argument to the next.
Recurs(f, n, X, m, stop, value, next) ==
  \A x \in X : m[x] <= n => f[x] = IF x \in stop THEN value[x] ELSE f[next[x]]

\* The measure m falls from argument to argument.
Descending(X, m, stop, value, next) ==
  /\ m \in [X -> Nat] /\ value \in [X -> Nat] /\ next \in [X -> X]
  /\ \A x \in X : x \notin stop => m[next[x]] < m[x]

\* Then the recursion defines a function.
LEMMA Descends ==
  ASSUME NEW X, NEW m, NEW stop, NEW value, NEW next, Descending(X, m, stop, value, next)
  PROVE  \E f : /\ f = [x \in X |-> f[x]]
                /\ \A x \in X : f[x] = IF x \in stop THEN value[x] ELSE f[next[x]]
<1>. USE DEF Descending
<1>. DEFINE To(f, n) == Recurs(f, n, X, m, stop, value, next)
            S == {n \in Nat : \E f : To(f, n)}
            Agree(n) == \A f, g : \A k \in Nat : To(f, n) /\ To(g, k) /\ n <= k
                          => \A x \in X : m[x] <= n => f[x] = g[x]
            E(n) == CHOOSE f : To(f, n)
            F == [x \in X |-> E(m[x])[x]]
<1>1. ASSUME NEW n \in Nat, \A j \in Nat : j < n => j \in S
      PROVE  n \in S
  <2>1. CASE n = 0
    <3>1. \A x \in X : m[x] <= 0 => x \in stop
      OBVIOUS
    <3>2. \A x \in X : [y \in X |-> value[y]][x] = value[x]
      OBVIOUS
    <3>3. To([y \in X |-> value[y]], 0)
      BY <3>1, <3>2 DEF Recurs
    <3>. QED  BY <2>1, <3>3
  <2>2. CASE n # 0
    <3>1. n - 1 \in Nat /\ n - 1 < n
      BY <2>2
    <3>2. PICK g : To(g, n - 1)
      BY <1>1, <3>1
    <3>. DEFINE h == [x \in X |-> IF m[x] < n THEN g[x] ELSE IF x \in stop THEN value[x] ELSE
                  g[next[x]]]
    <3>3. ASSUME NEW x \in X, m[x] <= n
          PROVE  h[x] = IF x \in stop THEN value[x] ELSE h[next[x]]
      <4>1. x \notin stop => next[x] \in X /\ m[next[x]] < n /\ h[next[x]] = g[next[x]]
        <5>1. next[x] \in X /\ m[next[x]] \in Nat /\ m[x] \in Nat
          OBVIOUS
        <5>. QED  BY <5>1, <3>3
      <4>2. CASE m[x] < n
        <5>1. m[x] <= n - 1
          BY <4>2
        <5>2. g[x] = IF x \in stop THEN value[x] ELSE g[next[x]]
          BY <5>1, <3>2 DEF Recurs
        <5>. QED  BY <4>1, <4>2, <5>2
      <4>3. CASE ~(m[x] < n)
        BY <4>1, <4>3
      <4>. QED  BY <4>2, <4>3
    <3>. HIDE DEF h
    <3>4. To(h, n)
      BY <3>3 DEF Recurs
    <3>. QED  BY <3>4
  <2>. QED  BY <2>1, <2>2
<1>2. \A n \in Nat : \E f : To(f, n)
  <2>. HIDE DEF S
  <2>1. \A n \in Nat : n \in S
    BY <1>1, SetInduction
  <2>. QED  BY <2>1 DEF S
<1>3. ASSUME NEW f, NEW g, NEW n \in Nat, NEW k \in Nat, To(f, n), To(g, k), n <= k
      PROVE  \A x \in X : m[x] <= n => f[x] = g[x]
  <2>. DEFINE A == {j \in Nat : \A x \in X : m[x] = j /\ j <= n => f[x] = g[x]}
  <2>1. ASSUME NEW j \in Nat, \A i \in Nat : i < j => i \in A
        PROVE  j \in A
    <3>1. SUFFICES ASSUME NEW x \in X, m[x] = j, j <= n PROVE f[x] = g[x]
      OBVIOUS
    <3>2. f[x] = IF x \in stop THEN value[x] ELSE f[next[x]]
      BY <1>3, <3>1 DEF Recurs
    <3>3. g[x] = IF x \in stop THEN value[x] ELSE g[next[x]]
      BY <1>3, <3>1 DEF Recurs
    <3>4. x \notin stop => f[next[x]] = g[next[x]]
      <4>1. x \notin stop => next[x] \in X /\ m[next[x]] \in Nat /\ m[next[x]] < j
        BY <3>1
      <4>. QED  BY <4>1, <2>1, <3>1
    <3>. QED  BY <3>2, <3>3, <3>4
  <2>. HIDE DEF A
  <2>2. \A j \in Nat : j \in A
    BY <2>1, SetInduction
  <2>. QED  BY <2>2 DEF A
<1>4. \A n \in Nat : To(E(n), n)
  BY <1>2
<1>5. ASSUME NEW x \in X
      PROVE  F[x] = IF x \in stop THEN value[x] ELSE F[next[x]]
  <2>. HIDE DEF E
  <2>1. m[x] \in Nat /\ next[x] \in X /\ m[next[x]] \in Nat /\ To(E(m[x]), m[x])
    BY <1>4
  <2>2. F[x] = E(m[x])[x] /\ F[next[x]] = E(m[next[x]])[next[x]]
    BY <2>1
  <2>3. E(m[x])[x] = IF x \in stop THEN value[x] ELSE E(m[x])[next[x]]
    BY <2>1 DEF Recurs
  <2>4. x \notin stop => E(m[next[x]])[next[x]] = E(m[x])[next[x]]
    <3>1. SUFFICES ASSUME x \notin stop PROVE E(m[next[x]])[next[x]] = E(m[x])[next[x]]
      OBVIOUS
    <3>2. m[next[x]] <= m[x] /\ To(E(m[next[x]]), m[next[x]])
      BY <2>1, <3>1, <1>4
    <3>. QED  BY <3>2, <2>1, <1>3
  <2>. QED  BY <2>2, <2>3, <2>4
<1>6. F = [x \in X |-> F[x]]
  OBVIOUS
<1>. HIDE DEF F
<1>. QED  BY <1>5, <1>6

\* One step of the integer root.
LEMMA IsqrtStep ==
  ASSUME NEW k \in Nat \ {0}, NEW g \in Nat \ {0}
  PROVE  LET next == (g + k \div g) \div 2 IN
         Isqrt[<<k, g>>] = IF next >= g THEN g ELSE Isqrt[<<k, next>>]
<1>. DEFINE P == Nat \ {0}
            nx(a, b) == (b + a \div b) \div 2
            Step(f) == [kg \in P \X P |-> IF nx(kg[1], kg[2]) >= kg[2] THEN kg[2]
                                          ELSE f[<<kg[1], nx(kg[1], kg[2])>>]]
            X == P \X P
            m == [kg \in X |-> kg[2]]
            stop == {kg \in X : nx(kg[1], kg[2]) >= kg[2]}
            next == [kg \in X |-> <<kg[1], nx(kg[1], kg[2])>>]
<1>1. ASSUME NEW a \in P, NEW b \in P
      PROVE  nx(a, b) \in P
  <2>1. a \div b \in Nat
    OBVIOUS
  <2>2. CASE b = 1
    <3>1. a \div b = a
      BY <2>2
    <3>. QED  BY <2>2, <3>1
  <2>3. CASE b # 1
    BY <2>1, <2>3
  <2>. QED  BY <2>2, <2>3
<1>2. ASSUME NEW kg \in X
      PROVE  /\ kg[1] \in P /\ kg[2] \in P /\ nx(kg[1], kg[2]) \in P
             /\ m[kg] = kg[2] /\ next[kg] = <<kg[1], nx(kg[1], kg[2])>> /\ next[kg] \in X
             /\ m[next[kg]] = nx(kg[1], kg[2])
             /\ kg \in stop <=> nx(kg[1], kg[2]) >= kg[2]
  <2>1. kg[1] \in P /\ kg[2] \in P
    OBVIOUS
  <2>2. nx(kg[1], kg[2]) \in P
    BY <2>1, <1>1
  <2>. HIDE DEF nx
  <2>. QED  BY <2>1, <2>2
<1>. HIDE DEF nx
<1>3. m \in [X -> Nat] /\ next \in [X -> X]
  BY <1>2
<1>4. \A kg \in X : kg \notin stop => m[next[kg]] < m[kg]
  BY <1>2
<1>5. \E f : /\ f = [kg \in X |-> f[kg]]
             /\ \A kg \in X : f[kg] = IF kg \in stop THEN m[kg] ELSE f[next[kg]]
  <2>. HIDE DEF X, m, stop, next
  <2>1. Descending(X, m, stop, m, next)
    BY <1>3, <1>4 DEF Descending
  <2>. QED  BY <2>1, Descends
<1>6. \E f : f = Step(f)
  <2>1. PICK f : /\ f = [kg \in X |-> f[kg]]
                 /\ \A kg \in X : f[kg] = IF kg \in stop THEN m[kg] ELSE f[next[kg]]
    BY <1>5
  <2>2. \A kg \in X : f[kg]
          = IF nx(kg[1], kg[2]) >= kg[2] THEN kg[2] ELSE f[<<kg[1], nx(kg[1], kg[2])>>]
    <3>. HIDE DEF m, stop, next
    <3>. QED  BY <1>2, <2>1
  <2>3. f = Step(f)
    BY <2>1, <2>2
  <2>. QED  BY <2>3
<1>7. Isqrt = CHOOSE f : f = Step(f)
  BY DEF Isqrt, nx
<1>8. Isqrt = Step(Isqrt)
  BY <1>6, <1>7
<1>9. <<k, g>> \in X /\ <<k, g>>[1] = k /\ <<k, g>>[2] = g
  OBVIOUS
<1>10. Isqrt[<<k, g>>] = IF nx(k, g) >= g THEN g ELSE Isqrt[<<k, nx(k, g)>>]
  BY <1>8, <1>9
<1>. QED  BY <1>10 DEF nx

\* From a guess not below it, Newton's method finds the root of a square.
LEMMA IsqrtFinds ==
  ASSUME NEW r \in Nat \ {0}
  PROVE  \A g \in Nat : g >= r => Isqrt[<<r * r, g>>] = r
<1>. DEFINE k == r * r
            S == {g \in Nat : g >= r => Isqrt[<<k, g>>] = r}
<1>1. ASSUME NEW g \in Nat, \A j \in Nat : j < g => j \in S
      PROVE  g \in S
  <2>1. SUFFICES ASSUME g >= r PROVE Isqrt[<<k, g>>] = r
    OBVIOUS
  <2>. DEFINE d == k \div g
              next == (g + d) \div 2
  <2>2. k \in Nat \ {0} /\ g \in Nat \ {0}
    BY <2>1
  <2>3. d \in Nat /\ k = (g * d) + (k % g) /\ k % g \in 0..(g - 1)
    BY <2>2, Remainder
  <2>4. Isqrt[<<k, g>>] = IF next >= g THEN g ELSE Isqrt[<<k, next>>]
    BY <2>2, IsqrtStep
  <2>. HIDE DEF k, d
  <2>5. g + d >= 2 * r
    <3>1. SUFFICES ASSUME g + d <= (2 * r) - 1 PROVE FALSE
      BY <2>3
    <3>2. d <= ((2 * r) - 1) - g
      BY <2>3, <3>1
    <3>3. g * d <= g * (((2 * r) - 1) - g)
      BY <2>3, <2>2, <3>2
    <3>4. k <= (g * (((2 * r) - 1) - g)) + (g - 1)
      BY <2>3, <3>3, <2>2
    <3>5. (g * (((2 * r) - 1) - g)) + (g - 1) = ((r * r) - ((g - r) * (g - r))) - 1
      BY <2>2
    <3>6. (g - r) * (g - r) >= 0
      BY <2>2
    <3>. QED  BY <3>4, <3>5, <3>6, <2>2 DEF k
  <2>6. next \in Nat /\ next >= r
    BY <2>3, <2>5
  <2>7. CASE next >= g
    <3>1. d >= g
      BY <2>3, <2>7
    <3>2. g * d >= g * g
      BY <3>1, <2>2, <2>3
    <3>3. r * r >= g * g
      BY <3>2, <2>2, <2>3 DEF k
    <3>4. g = r
      <4>1. SUFFICES ASSUME g >= r + 1 PROVE FALSE
        BY <2>1
      <4>2. g * g >= (r + 1) * (r + 1)
        BY <4>1
      <4>. QED  BY <3>3, <4>2
    <3>. QED  BY <2>4, <2>7, <3>4
  <2>8. CASE ~(next >= g)
    <3>1. next < g
      BY <2>6, <2>8
    <3>. HIDE DEF next
    <3>2. next \in S
      BY <3>1, <2>6, <1>1
    <3>. QED  BY <3>2, <2>4, <2>6, <2>8
  <2>. QED  BY <2>7, <2>8
<1>. HIDE DEF S
<1>2. \A g \in Nat : g \in S
  BY <1>1, SetInduction
<1>. QED  BY <1>2 DEF S

\* The integer root of a square.
LEMMA WholeFinds == \A r \in Nat : Whole(r * r) = r
<1>. SUFFICES ASSUME NEW r \in Nat PROVE Whole(r * r) = r
  OBVIOUS
<1>1. CASE r = 0
  BY <1>1 DEF Whole
<1>2. CASE r # 0
  <2>. DEFINE g == ((r * r) + 1) \div 2 + 1
  <2>1. r * r \in Nat /\ r * r # 0 /\ (r - 1) * (r - 1) >= 0
    BY <1>2
  <2>2. (r * r) + 1 >= 2 * r
    BY <2>1
  <2>3. g \in Nat /\ g >= r
    <3>. DEFINE k == r * r
    <3>. HIDE DEF k
    <3>1. k \in Nat /\ k + 1 >= 2 * r
      BY <2>1, <2>2 DEF k
    <3>2. (k + 1) \div 2 \in Nat /\ (k + 1) \div 2 >= r
      BY <3>1
    <3>. QED  BY <3>2 DEF k
  <2>. HIDE DEF g
  <2>4. Isqrt[<<r * r, g>>] = r
    BY <1>2, <2>3, IsqrtFinds
  <2>. QED  BY <2>1, <2>4 DEF Whole, g
<1>. QED  BY <1>1, <1>2

\* The root of the square of a fraction that is not negative.
LEMMA RootOfSquare ==
  ASSUME NEW p \in Fraction, ~Negative(p)
  PROVE  Root(Square(p)) = p
<1>. DEFINE a == p[1]
            b == p[2]
<1>1. a \in Nat /\ b \in Nat /\ b # 0 /\ p = <<a, b>> /\ Coprime(a, b)
  BY FractionParts, Fractions DEF Negative
<1>. HIDE DEF a, b
<1>2. Coprime(a * a, b * b) /\ a * a \in Nat /\ b * b \in Nat \ {0}
  <2>1. Coprime(a * a, b)
    BY <1>1, CoprimeProduct
  <2>2. a * a \in Int /\ a * a >= 0 /\ b * b \in Nat \ {0}
    BY <1>1
  <2>3. Coprime(b, a * a)
    BY <2>1, <2>2, <1>1, CoprimeSymmetric
  <2>4. Coprime(b * b, a * a)
    BY <2>3, <2>2, <1>1, CoprimeProduct
  <2>. QED  BY <2>4, <2>2, CoprimeSymmetric
<1>3. <<a * a, b * b>> \in Fraction
  BY <1>2, Fractions
<1>4. Square(p) \in Fraction /\ Is(Square(p), a * a, b * b)
  BY <1>1, TimesParts DEF Square
<1>5. Is(<<a * a, b * b>>, a * a, b * b)
  BY DEF Is
<1>6. Square(p) = <<a * a, b * b>>
  BY <1>2, <1>3, <1>4, <1>5, Same
<1>. QED  BY <1>1, <1>6, WholeFinds DEF Root

\* Newton's method stays among the positive numbers.
LEMMA IsqrtType ==
  ASSUME NEW k \in Nat \ {0}
  PROVE  \A g \in Nat : g # 0 => Isqrt[<<k, g>>] \in Nat
<1>. DEFINE S == {g \in Nat : g # 0 => Isqrt[<<k, g>>] \in Nat}
<1>1. ASSUME NEW g \in Nat, \A j \in Nat : j < g => j \in S
      PROVE  g \in S
  <2>1. SUFFICES ASSUME g # 0 PROVE Isqrt[<<k, g>>] \in Nat
    OBVIOUS
  <2>. DEFINE d == k \div g
              next == (g + d) \div 2
  <2>2. d \in Nat /\ k = (g * d) + (k % g) /\ k % g \in 0..(g - 1)
    BY <2>1, Remainder
  <2>3. Isqrt[<<k, g>>] = IF next >= g THEN g ELSE Isqrt[<<k, next>>]
    BY <2>1, IsqrtStep
  <2>. HIDE DEF d
  <2>4. next \in Nat
    BY <2>2
  <2>5. next # 0
    <3>1. g + d >= 2
      <4>1. CASE g = 1
        <5>1. k % g = 0
          BY <4>1, <2>2
        <5>2. k = d
          BY <4>1, <5>1, <2>2
        <5>. QED  BY <4>1, <5>2
      <4>2. CASE g # 1
        BY <4>2, <2>1, <2>2
      <4>. QED  BY <4>1, <4>2
    <3>. QED  BY <3>1, <2>2
  <2>. HIDE DEF next
  <2>6. next < g => next \in S
    BY <2>4, <1>1
  <2>. QED  BY <2>3, <2>4, <2>5, <2>6
<1>. HIDE DEF S
<1>2. \A g \in Nat : g \in S
  BY <1>1, SetInduction
<1>. QED  BY <1>2 DEF S

\* What passes for a square is one, and Root finds its root.
LEMMA SquareRoots ==
  ASSUME NEW p \in Fraction, ~Negative(p), IsSquare(p)
  PROVE  Root(p) \in Fraction /\ ~Negative(Root(p)) /\ Square(Root(p)) = p
<1>1. p[1] \in Nat /\ p[2] \in Nat \ {0} /\ p = <<p[1], p[2]>> /\ Coprime(p[1], p[2])
  BY FractionParts, Fractions DEF Negative
<1>2. \A k \in Nat : Whole(k) \in Nat
  <2>1. SUFFICES ASSUME NEW k \in Nat PROVE Whole(k) \in Nat
    OBVIOUS
  <2>2. (k + 1) \div 2 + 1 \in Nat /\ (k + 1) \div 2 + 1 # 0
    OBVIOUS
  <2>3. k # 0 => Isqrt[<<k, (k + 1) \div 2 + 1>>] \in Nat
    BY <2>2, IsqrtType
  <2>. QED  BY <2>3 DEF Whole
<1>. DEFINE a == Whole(p[1])
            b == Whole(p[2])
<1>3. a \in Nat /\ b \in Nat /\ a * a = p[1] /\ b * b = p[2]
  BY <1>1, <1>2 DEF IsSquare
<1>4. Root(p) = <<a, b>>
  BY DEF Root
<1>. HIDE DEF a, b
<1>5. b # 0
  BY <1>1, <1>3
<1>6. Coprime(a, b)
  BY <1>1, <1>3, CoprimeParts
<1>7. <<a, b>> \in Fraction
  BY <1>3, <1>5, <1>6, Fractions
<1>8. Square(<<a, b>>) \in Fraction /\ Is(Square(<<a, b>>), a * a, b * b)
  BY <1>7, TimesParts DEF Square
<1>9. Is(p, a * a, b * b)
  BY <1>1, <1>3 DEF Is
<1>10. Square(<<a, b>>) = p
  BY <1>1, <1>3, <1>8, <1>9, Same
<1>. QED  BY <1>3, <1>4, <1>7, <1>10 DEF Negative

-----------------------------------------------------------------------------
(* The foot, how it moves with the joints, and where it moves in all directions. *)

\* The three joint angles of a leg.
Joints == [1..3 -> Angles]

\* The parts of an angle.
LEMMA AngleParts ==
  ASSUME NEW a \in Angles
  PROVE  /\ a.c \in Fraction /\ a.s \in Fraction /\ Plus(Square(a.c), Square(a.s)) = One
         /\ a = Angle(a.c, a.s)
BY DEF Angles, Angle

\* The links, with their signs.
LEMMA LinksAre ==
  /\ l2 \in Fraction /\ l3 = l2 /\ Negative(l2)
  /\ \A leg : /\ l1(leg) \in Fraction /\ Square(l1(leg)) = Square(abadLinkLength)
              /\ Positive(Square(l1(leg)))
<1>1. /\ abadLinkLength \in Fraction /\ Positive(abadLinkLength)
      /\ hipLinkLength \in Fraction /\ Positive(hipLinkLength) /\ kneeLinkLength = hipLinkLength
  BY LinkAssumption
<1>2. l2 \in Fraction /\ l3 = l2
  BY <1>1, Closed DEF l2, l3
<1>3. Negative(l2)
  <2>1. Less(Zero, hipLinkLength)
    BY <1>1, LessLaws, Closed
  <2>2. Less(hipLinkLength, Zero) <=> Positive(Minus(Zero, hipLinkLength))
    BY <1>1, LessLaws, Closed
  <2>3. Less(Zero, hipLinkLength) <=> Negative(Minus(Zero, hipLinkLength))
    BY <1>1, LessLaws, Closed
  <2>. QED  BY <2>1, <2>3 DEF l2
<1>4. <<-1, 1>> \in Fraction
  BY WholeIs
<1>5. ASSUME NEW leg
      PROVE  /\ l1(leg) \in Fraction /\ Square(l1(leg)) = Square(abadLinkLength)
             /\ Positive(Square(l1(leg)))
  <2>1. sideSign(leg) = <<-1, 1>> \/ sideSign(leg) = One
    BY DEF sideSign
  <2>2. sideSign(leg) \in Fraction /\ l1(leg) \in Fraction
    BY <2>1, <1>1, <1>4, Closed DEF l1
  <2>3. Times(sideSign(leg), sideSign(leg)) = One
    <3>1. Is(Times(<<-1, 1>>, <<-1, 1>>), 1, 1) /\ Times(<<-1, 1>>, <<-1, 1>>) \in Fraction
      BY <1>4, WholeIs, TimesIs, Closed
    <3>2. Times(<<-1, 1>>, <<-1, 1>>) = One
      BY <3>1, ZeroIs, Same
    <3>3. Times(One, One) = One
      BY Closed, TimesLaws
    <3>. QED  BY <2>1, <3>2, <3>3
  <2>4. Times(l1(leg), l1(leg)) = Times(abadLinkLength, abadLinkLength)
    <3>. DEFINE s == sideSign(leg) a == abadLinkLength
    <3>1. Times(Times(s, a), Times(s, a)) = Times(s, Times(a, Times(s, a)))
      BY <1>1, <2>2, Closed, TimesLaws
    <3>2. Times(a, Times(s, a)) = Times(s, Times(a, a))
      BY <1>1, <2>2, Closed, TimesLaws
    <3>3. Times(s, Times(s, Times(a, a))) = Times(Times(s, s), Times(a, a))
      BY <1>1, <2>2, Closed, TimesLaws
    <3>4. Times(One, Times(a, a)) = Times(a, a)
      BY <1>1, Closed, TimesLaws
    <3>. QED  BY <2>3, <3>1, <3>2, <3>3, <3>4 DEF l1
  <2>5. Positive(Times(abadLinkLength, abadLinkLength))
    BY <1>1, SignLaws
  <2>. QED  BY <2>2, <2>4, <2>5 DEF Square
<1>. QED  BY <1>2, <1>3, <1>5

\* The numbers a leg's places and moves are made of.
LEMMA LegParts ==
  ASSUME NEW q \in Joints
  PROVE  /\ \A i \in 1..3 : q[i] \in Angles /\ q[i].c \in Fraction /\ q[i].s \in Fraction
         /\ Sum23(q).c \in Fraction /\ Sum23(q).s \in Fraction
         /\ Times(l3, Sum23(q).c) \in Fraction /\ Times(l3, Sum23(q).s) \in Fraction
         /\ Times(l2, q[2].c) \in Fraction /\ Times(l2, q[2].s) \in Fraction
         /\ Down(q) \in Fraction /\ Fore(q) \in Fraction
<1>1. \A i \in 1..3 : q[i] \in Angles /\ q[i].c \in Fraction /\ q[i].s \in Fraction
  BY AngleParts DEF Joints
<1>2. Sum23(q).c \in Fraction /\ Sum23(q).s \in Fraction
  BY <1>1, Closed DEF Sum23, Angle
<1>3. l2 \in Fraction /\ l3 \in Fraction
  BY LinksAre
<1>4. /\ Times(l3, Sum23(q).c) \in Fraction /\ Times(l3, Sum23(q).s) \in Fraction
      /\ Times(l2, q[2].c) \in Fraction /\ Times(l2, q[2].s) \in Fraction
  BY <1>1, <1>2, <1>3, Closed
<1>. QED  BY <1>1, <1>2, <1>4, Closed DEF Down, Fore

\* Where the foot is.
LEMMA FootIs ==
  ASSUME NEW leg \in Legs, NEW q \in Joints
  PROVE  /\ calcPEe2H(leg, q) \in Vec /\ calcPEe2B(leg, q) \in Vec /\ pHip2B[leg] \in Vec
         /\ calcPEe2H(leg, q)[1] = Fore(q)
         /\ calcPEe2H(leg, q)[2] = Minus(Times(l1(leg), q[1].c), Times(q[1].s, Down(q)))
         /\ calcPEe2H(leg, q)[3] = Plus(Times(l1(leg), q[1].s), Times(q[1].c, Down(q)))
<1>1. /\ q[1].c \in Fraction /\ q[1].s \in Fraction /\ Down(q) \in Fraction
      /\ Fore(q) \in Fraction
      /\ l1(leg) \in Fraction
  BY LegParts, LinksAre
<1>2. /\ Minus(Times(l1(leg), q[1].c), Times(q[1].s, Down(q))) \in Fraction
      /\ Plus(Times(l1(leg), q[1].s), Times(q[1].c, Down(q))) \in Fraction
  BY <1>1, Closed
<1>3. calcPEe2H(leg, q) \in Vec
  BY <1>1, <1>2, VecParts DEF calcPEe2H
<1>4. pHip2B[leg] \in Vec
  BY LegTasksAssumption DEF Vec
<1>. QED  BY <1>3, <1>4, VecOps, Closed DEF calcPEe2H, calcPEe2B

\* What a foot at (fore, L c - s down, L s + c down) does about the axes of its joints.
LEMMA Columns ==
  ASSUME NEW c, NEW s, NEW L, NEW down, NEW fore, NEW a, NEW b, NEW g, NEW h,
         Numbers(<<c, s, L, down, fore, a, b, g, h>>),
         Plus(Square(c), Square(s)) = One,
         down = Plus(a, g),
         fore = Plus(b, h)
  PROVE  /\ Opposite(Plus(Times(L, s), Times(c, down)))
              = Minus(Opposite(Times(c, down)), Times(L, s))
         /\ Minus(Times(L, c), Times(s, down)) = Plus(Opposite(Times(s, down)), Times(L, c))
         /\ Minus(Times(c, Plus(Times(L, s), Times(c, down))),
              Times(s, Minus(Times(L, c), Times(s, down)))) = down
         /\ Minus(fore, h) = b
         /\ Minus(Times(c,
              Minus(Plus(Times(L, s), Times(c, down)), Plus(Times(L, s), Times(c, g)))),
                Times(s,
                  Minus(Minus(Times(L, c), Times(s, down)), Minus(Times(L, c), Times(s, g))))) = a
<1>. DEFINE f == <<c, s, L, down, fore, a, b, g, h>>
<1>1. f \in [1..9 -> Fraction] /\ 9 \in Nat
  BY DEF Numbers
<1>2. PICK D \in Nat \ {0}, k \in [1..9 -> Int] : \A i \in 1..9 : Val(f[i], k[i], D)
  <2>. HIDE DEF f
  <2>. QED  BY <1>1, Values
<1>. DEFINE c0 == k[1]
            s0 == k[2]
            L0 == k[3]
            down0 == k[4]
            fore0 == k[5]
            a0 == k[6]
            b0 == k[7]
            g0 == k[8]
            h0 == k[9]
            D2 == D * D
            D3 == D * D2
<1>3. /\ D \in Nat \ {0}
      /\ D2 \in Nat \ {0} /\ D2 = D * D
      /\ D3 \in Nat \ {0} /\ D3 = D * D2
      /\ D2 * D = D3
  BY Powers
<1>4. /\ c0 \in Int /\ Val(c, c0, D)
      /\ s0 \in Int /\ Val(s, s0, D)
      /\ L0 \in Int /\ Val(L, L0, D)
      /\ down0 \in Int /\ Val(down, down0, D)
      /\ fore0 \in Int /\ Val(fore, fore0, D)
      /\ a0 \in Int /\ Val(a, a0, D)
      /\ b0 \in Int /\ Val(b, b0, D)
      /\ g0 \in Int /\ Val(g, g0, D)
      /\ h0 \in Int /\ Val(h, h0, D)
  BY <1>2
<1>. HIDE DEF f, c0, s0, L0, down0, fore0, a0, b0, g0, h0, D2, D3
<1>5. Val(Plus(Square(c), Square(s)), ((c0 * c0) + (s0 * s0)), D2)
  BY <1>3, <1>4, ValSum, ValTimes DEF Square
<1>6. Val(One, D2, D2)
  BY <1>3, ValNumbers
<1>7. ((c0 * c0) + (s0 * s0)) = D2
  BY <1>5, <1>6, ValSame
<1>8. Val(Plus(a, g), (a0 + g0), D)
  BY <1>3, <1>4, ValSum
<1>9. down0 = (a0 + g0)
  BY <1>4, <1>8, ValSame
<1>10. Val(Plus(b, h), (b0 + h0), D)
  BY <1>3, <1>4, ValSum
<1>11. fore0 = (b0 + h0)
  BY <1>4, <1>10, ValSame
<1>12. Val(Opposite(Plus(Times(L, s), Times(c, down))), (0 - ((L0 * s0) + (c0 * down0))), D2)
  BY <1>3, <1>4, ValNumbers, ValSum, ValTimes DEF Opposite
<1>13. Val(Minus(Opposite(Times(c, down)), Times(L, s)), ((0 - (c0 * down0)) - (L0 * s0)), D2)
  BY <1>3, <1>4, ValNumbers, ValSum, ValTimes DEF Opposite
<1>14. (0 - ((L0 * s0) + (c0 * down0))) = ((0 - (c0 * down0)) - (L0 * s0))
  BY <1>3, <1>4
<1>15. Opposite(Plus(Times(L, s), Times(c, down))) = Minus(Opposite(Times(c, down)), Times(L, s))
  BY <1>12, <1>13, <1>14, ValSame
<1>16. Val(Minus(Times(L, c), Times(s, down)), ((L0 * c0) - (s0 * down0)), D2)
  BY <1>3, <1>4, ValSum, ValTimes
<1>17. Val(Plus(Opposite(Times(s, down)), Times(L, c)), ((0 - (s0 * down0)) + (L0 * c0)), D2)
  BY <1>3, <1>4, ValNumbers, ValSum, ValTimes DEF Opposite
<1>18. ((L0 * c0) - (s0 * down0)) = ((0 - (s0 * down0)) + (L0 * c0))
  BY <1>3, <1>4
<1>19. Minus(Times(L, c), Times(s, down)) = Plus(Opposite(Times(s, down)), Times(L, c))
  BY <1>16, <1>17, <1>18, ValSame
<1>20. Val(Minus(Times(c, Plus(Times(L, s), Times(c, down))),
         Times(s, Minus(Times(L, c), Times(s, down)))),
           ((c0 * ((L0 * s0) + (c0 * down0))) - (s0 * ((L0 * c0) - (s0 * down0)))), D3)
  BY <1>3, <1>4, <1>16, ValSum, ValTimes
<1>21. Val(down, (down0 * D2), D3)
  BY <1>3, <1>4, ValWide
<1>22. ((c0 * ((L0 * s0) + (c0 * down0))) - (s0 * ((L0 * c0) - (s0 * down0)))) - (down0 * D2)
         = ((down0) * (((c0 * c0) + (s0 * s0)) - D2))
  BY <1>3, <1>4
<1>23. ((c0 * ((L0 * s0) + (c0 * down0))) - (s0 * ((L0 * c0) - (s0 * down0)))) = (down0 * D2)
  BY <1>3, <1>4, <1>7, <1>22
<1>24. Minus(Times(c, Plus(Times(L, s), Times(c, down))),
         Times(s, Minus(Times(L, c), Times(s, down)))) = down
  BY <1>20, <1>21, <1>23, ValSame
<1>25. Val(Minus(fore, h), (fore0 - h0), D)
  BY <1>3, <1>4, ValSum
<1>26. (fore0 - h0) - b0 = ((1) * (fore0 - (b0 + h0)))
  BY <1>3, <1>4
<1>27. (fore0 - h0) = b0
  BY <1>3, <1>4, <1>11, <1>26
<1>28. Minus(fore, h) = b
  BY <1>4, <1>25, <1>27, ValSame
<1>29. Val(Minus(Plus(Times(L, s), Times(c, down)), Plus(Times(L, s), Times(c, g))),
         (((L0 * s0) + (c0 * down0)) - ((L0 * s0) + (c0 * g0))), D2)
  BY <1>3, <1>4, ValSum, ValTimes
<1>30. Val(Minus(Times(c,
         Minus(Plus(Times(L, s), Times(c, down)), Plus(Times(L, s), Times(c, g)))),
           Times(s, Minus(Minus(Times(L, c), Times(s, down)), Minus(Times(L, c), Times(s, g))))),
             ((c0 * (((L0 * s0) + (c0 * down0)) - ((L0 * s0) + (c0 * g0))))
               - (s0 * (((L0 * c0) - (s0 * down0)) - ((L0 * c0) - (s0 * g0))))), D3)
  BY <1>3, <1>4, <1>16, <1>29, ValSum, ValTimes
<1>31. Val(a, (a0 * D2), D3)
  BY <1>3, <1>4, ValWide
<1>32. ((c0 * (((L0 * s0) + (c0 * down0)) - ((L0 * s0) + (c0 * g0))))
         - (s0 * (((L0 * c0) - (s0 * down0)) - ((L0 * c0) - (s0 * g0))))) - (a0 * D2)
           = ((down0 - g0) * (((c0 * c0) + (s0 * s0)) - D2)) + ((D2) * (down0 - (a0 + g0)))
  BY <1>3, <1>4
<1>33. ((c0 * (((L0 * s0) + (c0 * down0)) - ((L0 * s0) + (c0 * g0))))
         - (s0 * (((L0 * c0) - (s0 * down0)) - ((L0 * c0) - (s0 * g0))))) = (a0 * D2)
  BY <1>3, <1>4, <1>7, <1>9, <1>32
<1>34. Minus(Times(c, Minus(Plus(Times(L, s), Times(c, down)), Plus(Times(L, s), Times(c, g)))),
         Times(s, Minus(Minus(Times(L, c), Times(s, down)), Minus(Times(L, c), Times(s, g))))) = a
  BY <1>30, <1>31, <1>33, ValSame
<1>. QED  BY <1>15, <1>19, <1>24, <1>28, <1>34

\* The columns of the Jacobian are the foot's moves with one joint alone.
LEMMA MovesAre ==
  ASSUME NEW leg \in Legs, NEW q \in Joints
  PROVE  /\ calcJaco(leg, q) \in Mat3 /\ JointMoves(leg, q) \in Mat3
         /\ Transpose(JointMoves(leg, q)) = calcJaco(leg, q)
<1>. DEFINE c == q[1].c
            s == q[1].s
            L == l1(leg)
            down == Down(q)
            fore == Fore(q)
            a == Times(l3, Sum23(q).c)
            b == Times(l3, Sum23(q).s)
            g == Times(l2, q[2].c)
            h == Times(l2, q[2].s)
            foot == calcPEe2H(leg, q)
            axis == <<One, Zero, Zero>>
            across == <<Zero, c, s>>
            arm == VMinus(foot, Knee(leg, q))
            J == calcJaco(leg, q)
            M == JointMoves(leg, q)
<1>1. /\ c \in Fraction /\ s \in Fraction /\ L \in Fraction /\ down \in Fraction
      /\ fore \in Fraction
      /\ a \in Fraction /\ b \in Fraction /\ g \in Fraction /\ h \in Fraction
      /\ l3 \in Fraction /\ Sum23(q).c \in Fraction /\ Sum23(q).s \in Fraction
  BY LegParts, LinksAre
<1>2. /\ Plus(Square(c), Square(s)) = One /\ down = Plus(a, g) /\ fore = Plus(b, h)
      /\ Numbers(<<c, s, L, down, fore, a, b, g, h>>)
  <2>1. q[1] \in Angles
    BY LegParts
  <2>. QED  BY <1>1, <2>1, AngleParts DEF Down, Fore, Numbers
<1>3. /\ foot \in Vec /\ foot[1] = fore /\ foot[2] = Minus(Times(L, c), Times(s, down))
      /\ foot[3] = Plus(Times(L, s), Times(c, down))
  BY FootIs
<1>4. /\ axis \in Vec /\ across \in Vec /\ across = Across(q)
      /\ axis[1] = One /\ axis[2] = Zero /\ axis[3] = Zero
      /\ across[1] = Zero /\ across[2] = c /\ across[3] = s
  BY <1>1, VecParts, Closed DEF Across
<1>5. /\ Times(s, b) = Times(l3, Times(s, Sum23(q).s)) /\ Times(c, b)
           = Times(l3, Times(c, Sum23(q).s))
  BY <1>1, Swapped
<1>6. /\ J[1][1] = Zero /\ J[1][2] = down /\ J[1][3] = a
      /\ J[2][1] = Minus(Opposite(Times(c, down)), Times(L, s)) /\ J[2][2] = Times(s, fore)
      /\ J[2][3] = Times(s, b)
      /\ J[3][1] = Plus(Opposite(Times(s, down)), Times(L, c)) /\ J[3][2]
           = Opposite(Times(c, fore))
      /\ J[3][3] = Opposite(Times(c, b))
      /\ J = <<J[1], J[2], J[3]>> /\ J[1] = <<J[1][1], J[1][2], J[1][3]>>
      /\ J[2] = <<J[2][1], J[2][2], J[2][3]>> /\ J[3] = <<J[3][1], J[3][2], J[3][3]>>
  BY <1>5 DEF calcJaco
<1>7. Knee(leg, q) = <<h, Minus(Times(L, c), Times(s, g)), Plus(Times(L, s), Times(c, g))>>
  BY DEF Knee
<1>8. M = <<cross(axis, foot), cross(across, foot), cross(across, arm)>>
  BY <1>4 DEF JointMoves
<1>. HIDE DEF c, s, L, down, fore, a, b, g, h, foot, axis, across, arm, J, M
<1>9. J \in Mat3
  <2>1. J[1] \in Vec /\ J[2] \in Vec /\ J[3] \in Vec
    BY <1>1, <1>6, Closed, MoreClosed, VecParts
  <2>. QED  BY <1>6, <2>1 DEF Mat3
<1>10. /\ arm \in Vec /\ arm[1] = Minus(fore, h)
       /\ arm[2] = Minus(foot[2], Minus(Times(L, c), Times(s, g)))
       /\ arm[3] = Minus(foot[3], Plus(Times(L, s), Times(c, g)))
  <2>1. /\ Knee(leg, q) \in Vec /\ Knee(leg, q)[1] = h /\ Knee(leg, q)[2]
             = Minus(Times(L, c), Times(s, g))
        /\ Knee(leg, q)[3] = Plus(Times(L, s), Times(c, g))
    BY <1>1, <1>7, Closed, VecParts
  <2>. QED  BY <1>3, <2>1, VecOps, Closed DEF arm
<1>11. /\ M \in Mat3 /\ M[1] = cross(axis, foot) /\ M[2] = cross(across, foot)
       /\ M[3] = cross(across, arm)
  <2>1. cross(axis, foot) \in Vec /\ cross(across, foot) \in Vec /\ cross(across, arm) \in Vec
    BY <1>3, <1>4, <1>10, CrossIs
  <2>. QED  BY <1>8, <2>1 DEF Mat3
<1>12. /\ Opposite(foot[3]) = Minus(Opposite(Times(c, down)), Times(L, s))
       /\ foot[2] = Plus(Opposite(Times(s, down)), Times(L, c))
       /\ Minus(Times(c, foot[3]), Times(s, foot[2])) = down
       /\ arm[1] = b
       /\ Minus(Times(c, arm[3]), Times(s, arm[2])) = a
  BY <1>2, <1>3, <1>10, Columns
<1>13. foot[1] \in Fraction /\ foot[2] \in Fraction /\ foot[3] \in Fraction
       /\ arm[1] \in Fraction /\ arm[2] \in Fraction /\ arm[3] \in Fraction
  BY <1>3, <1>10, VecParts
<1>14. \A p \in Fraction : /\ Times(Zero, p) = Zero /\ Times(p, Zero) = Zero /\ Times(One, p) = p
                          /\ Minus(p, Zero) = p /\ Minus(Zero, p) = Opposite(p)
                          /\ Minus(Zero, Zero) = Zero
  BY Neutral, Closed DEF Opposite
<1>15. M[1][1] = Zero /\ M[1][2] = Opposite(foot[3]) /\ M[1][3] = foot[2]
  <2>1. /\ M[1][1] = Minus(Times(Zero, foot[3]), Times(Zero, foot[2]))
        /\ M[1][2] = Minus(Times(Zero, foot[1]), Times(One, foot[3]))
        /\ M[1][3] = Minus(Times(One, foot[2]), Times(Zero, foot[1]))
    BY <1>3, <1>4, <1>11, CrossIs
  <2>2. Times(Zero, foot[3]) = Zero /\ Times(Zero, foot[2]) = Zero /\ Times(Zero, foot[1]) = Zero
        /\ Times(One, foot[3]) = foot[3] /\ Times(One, foot[2]) = foot[2]
    BY <1>13, <1>14
  <2>. QED  BY <1>13, <1>14, <2>1, <2>2
<1>16. ASSUME NEW v \in Vec
       PROVE  /\ cross(across, v)[1] = Minus(Times(c, v[3]), Times(s, v[2]))
              /\ cross(across, v)[2] = Times(s, v[1])
              /\ cross(across, v)[3] = Opposite(Times(c, v[1]))
  <2>0. v[1] \in Fraction /\ v[2] \in Fraction /\ v[3] \in Fraction
    BY VecParts
  <2>1. /\ cross(across, v)[1] = Minus(Times(c, v[3]), Times(s, v[2]))
        /\ cross(across, v)[2] = Minus(Times(s, v[1]), Times(Zero, v[3]))
        /\ cross(across, v)[3] = Minus(Times(Zero, v[2]), Times(c, v[1]))
    BY <1>4, CrossIs
  <2>2. Times(Zero, v[3]) = Zero /\ Times(Zero, v[2]) = Zero /\ Times(s, v[1]) \in Fraction
        /\ Times(c, v[1]) \in Fraction
    BY <1>1, <2>0, <1>14, Closed
  <2>. QED  BY <2>1, <2>2, <1>14
<1>17. M[2][1] = down /\ M[2][2] = Times(s, fore) /\ M[2][3] = Opposite(Times(c, fore))
  BY <1>3, <1>11, <1>12, <1>16
<1>18. M[3][1] = a /\ M[3][2] = Times(s, b) /\ M[3][3] = Opposite(Times(c, b))
  BY <1>10, <1>11, <1>12, <1>16
<1>19. \A i, j \in 1..3 : M[j][i] = J[i][j]
  BY <1>6, <1>12, <1>15, <1>18, <1>17, Cases3
<1>20. Transpose(M) = J
  BY <1>9, <1>11, <1>19, TransposeIs, EqualMat
<1>. QED  BY <1>9, <1>11, <1>20 DEF J, M

\* The determinant of the Jacobian; its first element is zero.
LEMMA DetJaco ==
  ASSUME NEW c, NEW s, NEW L, NEW down, NEW fore, NEW a, NEW b,
         Numbers(<<c, s, L, down, fore, a, b>>),
         Plus(Square(c), Square(s)) = One
  PROVE  Plus(Times(down,
           Minus(Times(Times(s, b), Plus(Opposite(Times(s, down)), Times(L, c))),
             Times(Minus(Opposite(Times(c, down)), Times(L, s)), Opposite(Times(c, b))))),
               Times(a,
                 Minus(Times(Minus(Opposite(Times(c, down)), Times(L, s)),
                   Opposite(Times(c, fore))),
                     Times(Times(s, fore), Plus(Opposite(Times(s, down)), Times(L, c))))))
                       = Times(down, Minus(Times(a, fore), Times(b, down)))
<1>. DEFINE f == <<c, s, L, down, fore, a, b>>
<1>1. f \in [1..7 -> Fraction] /\ 7 \in Nat
  BY DEF Numbers
<1>2. PICK D \in Nat \ {0}, num \in [1..7 -> Int] : \A i \in 1..7 : Val(f[i], num[i], D)
  <2>. HIDE DEF f
  <2>. QED  BY <1>1, Values
<1>. DEFINE c0 == num[1]
            s0 == num[2]
            L0 == num[3]
            down0 == num[4]
            fore0 == num[5]
            a0 == num[6]
            b0 == num[7]
            D2 == D * D
            D3 == D * D2
            D4 == D * D3
            D5 == D * D4
<1>3. /\ D \in Nat \ {0}
      /\ D2 \in Nat \ {0} /\ D2 = D * D
      /\ D3 \in Nat \ {0} /\ D3 = D * D2
      /\ D4 \in Nat \ {0} /\ D4 = D * D3
      /\ D5 \in Nat \ {0} /\ D5 = D * D4
      /\ D2 * D = D3
      /\ D2 * D2 = D4
      /\ D2 * D3 = D5
      /\ D3 * D = D4
      /\ D3 * D2 = D5
      /\ D4 * D = D5
  <2>2. D2 \in Nat \ {0}
    BY Factors
  <2>3. D3 \in Nat \ {0}
    BY <2>2, Factors
  <2>4. D4 \in Nat \ {0}
    BY <2>3, Factors
  <2>5. D5 \in Nat \ {0}
    BY <2>4, Factors
  <2>. QED  BY <2>2, <2>3, <2>4, <2>5
<1>4. /\ c0 \in Int /\ Val(c, c0, D)
      /\ s0 \in Int /\ Val(s, s0, D)
      /\ L0 \in Int /\ Val(L, L0, D)
      /\ down0 \in Int /\ Val(down, down0, D)
      /\ fore0 \in Int /\ Val(fore, fore0, D)
      /\ a0 \in Int /\ Val(a, a0, D)
      /\ b0 \in Int /\ Val(b, b0, D)
  BY <1>2
<1>. HIDE DEF f, c0, s0, L0, down0, fore0, a0, b0, D2, D3, D4, D5
<1>5. Val(Square(c), (c0 * c0), D2)
  BY <1>3, <1>4, ValTimes DEF Square
<1>6. Val(Square(s), (s0 * s0), D2)
  BY <1>3, <1>4, ValTimes DEF Square
<1>7. Val(Plus(Square(c), Square(s)), ((c0 * c0) + (s0 * s0)), D2)
  BY <1>3, <1>5, <1>6, ValSum
<1>8. Val(One, D2, D2)
  BY <1>3, ValNumbers
<1>9. ((c0 * c0) + (s0 * s0)) = D2
  BY <1>7, <1>8, ValSame
<1>10. Val(Times(s, b), (s0 * b0), D2)
  BY <1>3, <1>4, ValTimes
<1>11. Val(Times(s, down), (s0 * down0), D2)
  BY <1>3, <1>4, ValTimes
<1>12. Val(Opposite(Times(s, down)), (0 - (s0 * down0)), D2)
  BY <1>3, <1>11, ValNumbers, ValSum DEF Opposite
<1>13. Val(Times(L, c), (L0 * c0), D2)
  BY <1>3, <1>4, ValTimes
<1>14. Val(Plus(Opposite(Times(s, down)), Times(L, c)), ((0 - (s0 * down0)) + (L0 * c0)), D2)
  BY <1>3, <1>12, <1>13, ValSum
<1>15. Val(Times(Times(s, b), Plus(Opposite(Times(s, down)), Times(L, c))),
         ((s0 * b0) * ((0 - (s0 * down0)) + (L0 * c0))), D4)
  BY <1>3, <1>10, <1>14, ValTimes
<1>16. Val(Times(c, down), (c0 * down0), D2)
  BY <1>3, <1>4, ValTimes
<1>17. Val(Opposite(Times(c, down)), (0 - (c0 * down0)), D2)
  BY <1>3, <1>16, ValNumbers, ValSum DEF Opposite
<1>18. Val(Times(L, s), (L0 * s0), D2)
  BY <1>3, <1>4, ValTimes
<1>19. Val(Minus(Opposite(Times(c, down)), Times(L, s)), ((0 - (c0 * down0)) - (L0 * s0)), D2)
  BY <1>3, <1>17, <1>18, ValSum
<1>20. Val(Times(c, b), (c0 * b0), D2)
  BY <1>3, <1>4, ValTimes
<1>21. Val(Opposite(Times(c, b)), (0 - (c0 * b0)), D2)
  BY <1>3, <1>20, ValNumbers, ValSum DEF Opposite
<1>22. Val(Times(Minus(Opposite(Times(c, down)), Times(L, s)), Opposite(Times(c, b))),
         (((0 - (c0 * down0)) - (L0 * s0)) * (0 - (c0 * b0))), D4)
  BY <1>3, <1>19, <1>21, ValTimes
<1>23. Val(Minus(Times(Times(s, b), Plus(Opposite(Times(s, down)), Times(L, c))),
         Times(Minus(Opposite(Times(c, down)), Times(L, s)), Opposite(Times(c, b)))),
           (((s0 * b0) * ((0 - (s0 * down0)) + (L0 * c0)))
             - (((0 - (c0 * down0)) - (L0 * s0)) * (0 - (c0 * b0)))), D4)
  BY <1>3, <1>15, <1>22, ValSum
<1>24. Val(Times(down,
         Minus(Times(Times(s, b), Plus(Opposite(Times(s, down)), Times(L, c))),
           Times(Minus(Opposite(Times(c, down)), Times(L, s)), Opposite(Times(c, b))))),
             (down0
               * (((s0 * b0) * ((0 - (s0 * down0)) + (L0 * c0)))
                 - (((0 - (c0 * down0)) - (L0 * s0)) * (0 - (c0 * b0))))), D5)
  BY <1>3, <1>4, <1>23, ValTimes, ZenonT(60)
<1>25. Val(Times(c, fore), (c0 * fore0), D2)
  BY <1>3, <1>4, ValTimes
<1>26. Val(Opposite(Times(c, fore)), (0 - (c0 * fore0)), D2)
  BY <1>3, <1>25, ValNumbers, ValSum DEF Opposite
<1>27. Val(Times(Minus(Opposite(Times(c, down)), Times(L, s)), Opposite(Times(c, fore))),
         (((0 - (c0 * down0)) - (L0 * s0)) * (0 - (c0 * fore0))), D4)
  BY <1>3, <1>19, <1>26, ValTimes
<1>28. Val(Times(s, fore), (s0 * fore0), D2)
  BY <1>3, <1>4, ValTimes
<1>29. Val(Times(Times(s, fore), Plus(Opposite(Times(s, down)), Times(L, c))),
         ((s0 * fore0) * ((0 - (s0 * down0)) + (L0 * c0))), D4)
  BY <1>3, <1>14, <1>28, ValTimes
<1>30. Val(Minus(Times(Minus(Opposite(Times(c, down)), Times(L, s)), Opposite(Times(c, fore))),
         Times(Times(s, fore), Plus(Opposite(Times(s, down)), Times(L, c)))),
           ((((0 - (c0 * down0)) - (L0 * s0)) * (0 - (c0 * fore0)))
             - ((s0 * fore0) * ((0 - (s0 * down0)) + (L0 * c0)))), D4)
  BY <1>3, <1>27, <1>29, ValSum
<1>31. Val(Times(a,
         Minus(Times(Minus(Opposite(Times(c, down)), Times(L, s)), Opposite(Times(c, fore))),
           Times(Times(s, fore), Plus(Opposite(Times(s, down)), Times(L, c))))),
             (a0 * ((((0 - (c0 * down0)) - (L0 * s0)) * (0 - (c0 * fore0)))
               - ((s0 * fore0) * ((0 - (s0 * down0)) + (L0 * c0))))), D5)
  BY <1>3, <1>4, <1>30, ValTimes, ZenonT(60)
<1>32. Val(Plus(Times(down,
         Minus(Times(Times(s, b), Plus(Opposite(Times(s, down)), Times(L, c))),
           Times(Minus(Opposite(Times(c, down)), Times(L, s)), Opposite(Times(c, b))))),
             Times(a,
               Minus(Times(Minus(Opposite(Times(c, down)), Times(L, s)),
                 Opposite(Times(c, fore))),
                   Times(Times(s, fore), Plus(Opposite(Times(s, down)), Times(L, c)))))),
                     ((down0
                       * (((s0 * b0) * ((0 - (s0 * down0)) + (L0 * c0)))
                         - (((0 - (c0 * down0)) - (L0 * s0)) * (0 - (c0 * b0)))))
                           + (a0
                             * ((((0 - (c0 * down0)) - (L0 * s0)) * (0 - (c0 * fore0)))
                               - ((s0 * fore0) * ((0 - (s0 * down0)) + (L0 * c0)))))), D5)
  BY <1>3, <1>24, <1>31, ValSum
<1>33. Val(Times(a, fore), (a0 * fore0), D2)
  BY <1>3, <1>4, ValTimes
<1>34. Val(Times(b, down), (b0 * down0), D2)
  BY <1>3, <1>4, ValTimes
<1>35. Val(Minus(Times(a, fore), Times(b, down)), ((a0 * fore0) - (b0 * down0)), D2)
  BY <1>3, <1>33, <1>34, ValSum
<1>36. Val(Times(down, Minus(Times(a, fore), Times(b, down))),
         (down0 * ((a0 * fore0) - (b0 * down0))), D3)
  BY <1>3, <1>4, <1>35, ValTimes
<1>37. Val(Times(down, Minus(Times(a, fore), Times(b, down))),
         ((down0 * ((a0 * fore0) - (b0 * down0))) * D2), D5)
  BY <1>3, <1>36, ValWide
<1>38. ((down0
         * (((s0 * b0) * ((0 - (s0 * down0)) + (L0 * c0)))
           - (((0 - (c0 * down0)) - (L0 * s0)) * (0 - (c0 * b0)))))
             + (a0
               * ((((0 - (c0 * down0)) - (L0 * s0)) * (0 - (c0 * fore0)))
                 - ((s0 * fore0) * ((0 - (s0 * down0)) + (L0 * c0))))))
                   - ((down0 * ((a0 * fore0) - (b0 * down0))) * D2)
                     = (((((a0 * fore0) * down0) - ((down0 * down0) * b0)))
                       * (((c0 * c0) + (s0 * s0)) - D2))
  BY <1>3, <1>4
<1>39. ((down0
         * (((s0 * b0) * ((0 - (s0 * down0)) + (L0 * c0)))
           - (((0 - (c0 * down0)) - (L0 * s0)) * (0 - (c0 * b0)))))
             + (a0
               * ((((0 - (c0 * down0)) - (L0 * s0)) * (0 - (c0 * fore0)))
                 - ((s0 * fore0) * ((0 - (s0 * down0)) + (L0 * c0))))))
                   = ((down0 * ((a0 * fore0) - (b0 * down0))) * D2)
  BY <1>3, <1>4, <1>9, <1>38
<1>40. Plus(Times(down,
         Minus(Times(Times(s, b), Plus(Opposite(Times(s, down)), Times(L, c))),
           Times(Minus(Opposite(Times(c, down)), Times(L, s)), Opposite(Times(c, b))))),
             Times(a,
               Minus(Times(Minus(Opposite(Times(c, down)), Times(L, s)),
                 Opposite(Times(c, fore))),
                   Times(Times(s, fore), Plus(Opposite(Times(s, down)), Times(L, c))))))
                     = Times(down, Minus(Times(a, fore), Times(b, down)))
  BY <1>32, <1>37, <1>39, ValSame
<1>. QED  BY <1>40

\* What thigh and shank span.
LEMMA KneeArea ==
  ASSUME NEW c, NEW s, NEW c3, NEW s3, NEW k,
         Numbers(<<c, s, c3, s3, k>>),
         Plus(Square(c), Square(s)) = One
  PROVE  Minus(Times(Times(k, Minus(Times(c, c3), Times(s, s3))),
           Plus(Times(k, Plus(Times(s, c3), Times(c, s3))), Times(k, s))),
             Times(Times(k, Plus(Times(s, c3), Times(c, s3))),
               Plus(Times(k, Minus(Times(c, c3), Times(s, s3))), Times(k, c))))
                 = Opposite(Times(Times(k, k), s3))
<1>. DEFINE f == <<c, s, c3, s3, k>>
<1>1. f \in [1..5 -> Fraction] /\ 5 \in Nat
  BY DEF Numbers
<1>2. PICK D \in Nat \ {0}, num \in [1..5 -> Int] : \A i \in 1..5 : Val(f[i], num[i], D)
  <2>. HIDE DEF f
  <2>. QED  BY <1>1, Values
<1>. DEFINE c0 == num[1]
            s0 == num[2]
            c30 == num[3]
            s30 == num[4]
            k0 == num[5]
            D2 == D * D
            D3 == D * D2
            D4 == D * D3
            D5 == D * D4
            D6 == D * D5
<1>3. /\ D \in Nat \ {0}
      /\ D2 \in Nat \ {0} /\ D2 = D * D
      /\ D3 \in Nat \ {0} /\ D3 = D * D2
      /\ D4 \in Nat \ {0} /\ D4 = D * D3
      /\ D5 \in Nat \ {0} /\ D5 = D * D4
      /\ D6 \in Nat \ {0} /\ D6 = D * D5
      /\ D2 * D = D3
      /\ D2 * D2 = D4
      /\ D2 * D3 = D5
      /\ D2 * D4 = D6
      /\ D3 * D = D4
      /\ D3 * D2 = D5
      /\ D3 * D3 = D6
      /\ D4 * D = D5
      /\ D4 * D2 = D6
      /\ D5 * D = D6
  <2>2. D2 \in Nat \ {0}
    BY Factors
  <2>3. D3 \in Nat \ {0}
    BY <2>2, Factors
  <2>4. D4 \in Nat \ {0}
    BY <2>3, Factors
  <2>5. D5 \in Nat \ {0}
    BY <2>4, Factors
  <2>6. D6 \in Nat \ {0}
    BY <2>5, Factors
  <2>. QED  BY <2>2, <2>3, <2>4, <2>5, <2>6
<1>4. /\ c0 \in Int /\ Val(c, c0, D)
      /\ s0 \in Int /\ Val(s, s0, D)
      /\ c30 \in Int /\ Val(c3, c30, D)
      /\ s30 \in Int /\ Val(s3, s30, D)
      /\ k0 \in Int /\ Val(k, k0, D)
  BY <1>2
<1>. HIDE DEF f, c0, s0, c30, s30, k0, D2, D3, D4, D5, D6
<1>5. Val(Square(c), (c0 * c0), D2)
  BY <1>3, <1>4, ValTimes DEF Square
<1>6. Val(Square(s), (s0 * s0), D2)
  BY <1>3, <1>4, ValTimes DEF Square
<1>7. Val(Plus(Square(c), Square(s)), ((c0 * c0) + (s0 * s0)), D2)
  BY <1>3, <1>5, <1>6, ValSum
<1>8. Val(One, D2, D2)
  BY <1>3, ValNumbers
<1>9. ((c0 * c0) + (s0 * s0)) = D2
  BY <1>7, <1>8, ValSame
<1>10. Val(Times(c, c3), (c0 * c30), D2)
  BY <1>3, <1>4, ValTimes
<1>11. Val(Times(s, s3), (s0 * s30), D2)
  BY <1>3, <1>4, ValTimes
<1>12. Val(Minus(Times(c, c3), Times(s, s3)), ((c0 * c30) - (s0 * s30)), D2)
  BY <1>3, <1>10, <1>11, ValSum
<1>13. Val(Times(k, Minus(Times(c, c3), Times(s, s3))), (k0 * ((c0 * c30) - (s0 * s30))), D3)
  BY <1>3, <1>4, <1>12, ValTimes
<1>14. Val(Times(s, c3), (s0 * c30), D2)
  BY <1>3, <1>4, ValTimes
<1>15. Val(Times(c, s3), (c0 * s30), D2)
  BY <1>3, <1>4, ValTimes
<1>16. Val(Plus(Times(s, c3), Times(c, s3)), ((s0 * c30) + (c0 * s30)), D2)
  BY <1>3, <1>14, <1>15, ValSum
<1>17. Val(Times(k, Plus(Times(s, c3), Times(c, s3))), (k0 * ((s0 * c30) + (c0 * s30))), D3)
  BY <1>3, <1>4, <1>16, ValTimes
<1>18. Val(Times(k, s), (k0 * s0), D2)
  BY <1>3, <1>4, ValTimes
<1>19. Val(Times(k, s), ((k0 * s0) * D), D3)
  BY <1>3, <1>18, ValWide
<1>20. Val(Plus(Times(k, Plus(Times(s, c3), Times(c, s3))), Times(k, s)),
         ((k0 * ((s0 * c30) + (c0 * s30))) + ((k0 * s0) * D)), D3)
  BY <1>3, <1>17, <1>19, ValSum
<1>21. Val(Times(Times(k, Minus(Times(c, c3), Times(s, s3))),
         Plus(Times(k, Plus(Times(s, c3), Times(c, s3))), Times(k, s))),
           ((k0 * ((c0 * c30) - (s0 * s30)))
             * ((k0 * ((s0 * c30) + (c0 * s30))) + ((k0 * s0) * D))), D6)
  BY <1>3, <1>13, <1>20, ValTimes
<1>22. Val(Times(k, c), (k0 * c0), D2)
  BY <1>3, <1>4, ValTimes
<1>23. Val(Times(k, c), ((k0 * c0) * D), D3)
  BY <1>3, <1>22, ValWide
<1>24. Val(Plus(Times(k, Minus(Times(c, c3), Times(s, s3))), Times(k, c)),
         ((k0 * ((c0 * c30) - (s0 * s30))) + ((k0 * c0) * D)), D3)
  BY <1>3, <1>13, <1>23, ValSum
<1>25. Val(Times(Times(k, Plus(Times(s, c3), Times(c, s3))),
         Plus(Times(k, Minus(Times(c, c3), Times(s, s3))), Times(k, c))),
           ((k0 * ((s0 * c30) + (c0 * s30)))
             * ((k0 * ((c0 * c30) - (s0 * s30))) + ((k0 * c0) * D))), D6)
  BY <1>3, <1>17, <1>24, ValTimes
<1>26. Val(Minus(Times(Times(k, Minus(Times(c, c3), Times(s, s3))),
         Plus(Times(k, Plus(Times(s, c3), Times(c, s3))), Times(k, s))),
           Times(Times(k, Plus(Times(s, c3), Times(c, s3))),
             Plus(Times(k, Minus(Times(c, c3), Times(s, s3))), Times(k, c)))),
               (((k0 * ((c0 * c30) - (s0 * s30)))
                 * ((k0 * ((s0 * c30) + (c0 * s30))) + ((k0 * s0) * D)))
                   - ((k0 * ((s0 * c30) + (c0 * s30)))
                     * ((k0 * ((c0 * c30) - (s0 * s30))) + ((k0 * c0) * D)))), D6)
  BY <1>3, <1>21, <1>25, ValSum
<1>27. Val(Times(k, k), (k0 * k0), D2)
  BY <1>3, <1>4, ValTimes
<1>28. Val(Times(Times(k, k), s3), ((k0 * k0) * s30), D3)
  BY <1>3, <1>4, <1>27, ValTimes
<1>29. Val(Opposite(Times(Times(k, k), s3)), (0 - ((k0 * k0) * s30)), D3)
  BY <1>3, <1>28, ValNumbers, ValSum DEF Opposite
<1>30. Val(Opposite(Times(Times(k, k), s3)), ((0 - ((k0 * k0) * s30)) * D3), D6)
  BY <1>3, <1>29, ValWide, ZenonT(60)
<1>31. (((k0 * ((c0 * c30) - (s0 * s30))) * ((k0 * ((s0 * c30) + (c0 * s30))) + ((k0 * s0) * D)))
         - ((k0 * ((s0 * c30) + (c0 * s30)))
           * ((k0 * ((c0 * c30) - (s0 * s30))) + ((k0 * c0) * D))))
             - ((0 - ((k0 * k0) * s30)) * D3)
               = ((((-(k0 * k0)) * s30) * D) * (((c0 * c0) + (s0 * s0)) - D2))
  BY <1>3, <1>4
<1>32. (((k0 * ((c0 * c30) - (s0 * s30))) * ((k0 * ((s0 * c30) + (c0 * s30))) + ((k0 * s0) * D)))
         - ((k0 * ((s0 * c30) + (c0 * s30)))
           * ((k0 * ((c0 * c30) - (s0 * s30))) + ((k0 * c0) * D))))
             = ((0 - ((k0 * k0) * s30)) * D3)
  BY <1>3, <1>4, <1>9, <1>31
<1>33. Minus(Times(Times(k, Minus(Times(c, c3), Times(s, s3))),
         Plus(Times(k, Plus(Times(s, c3), Times(c, s3))), Times(k, s))),
           Times(Times(k, Plus(Times(s, c3), Times(c, s3))),
             Plus(Times(k, Minus(Times(c, c3), Times(s, s3))), Times(k, c))))
               = Opposite(Times(Times(k, k), s3))
  BY <1>26, <1>30, <1>32, ValSame
<1>. QED  BY <1>33

\* Opposite terms are taken away.
LEMMA OppositeTerms ==
  ASSUME NEW x \in Fraction, NEW y \in Fraction, NEW u \in Fraction, NEW v \in Fraction
  PROVE  /\ Plus(Times(Opposite(x), y), Times(u, v)) = Minus(Times(u, v), Times(x, y))
         /\ Plus(Times(u, v), Times(Opposite(x), y)) = Minus(Times(u, v), Times(x, y))
<1>. DEFINE f == <<x, y, u, v>>
<1>1. f \in [1..4 -> Fraction] /\ 4 \in Nat
  OBVIOUS
<1>2. PICK D \in Nat \ {0}, num \in [1..4 -> Int] : \A i \in 1..4 : Val(f[i], num[i], D)
  <2>. HIDE DEF f
  <2>. QED  BY <1>1, Values
<1>. DEFINE x0 == num[1]
            y0 == num[2]
            u0 == num[3]
            v0 == num[4]
            D2 == D * D
<1>3. /\ D \in Nat \ {0}
      /\ D2 \in Nat \ {0} /\ D2 = D * D
  BY Powers
<1>4. /\ x0 \in Int /\ Val(x, x0, D)
      /\ y0 \in Int /\ Val(y, y0, D)
      /\ u0 \in Int /\ Val(u, u0, D)
      /\ v0 \in Int /\ Val(v, v0, D)
  BY <1>2
<1>. HIDE DEF f, x0, y0, u0, v0, D2
<1>5. Val(Plus(Times(Opposite(x), y), Times(u, v)), (((0 - x0) * y0) + (u0 * v0)), D2)
  BY <1>3, <1>4, ValNumbers, ValSum, ValTimes DEF Opposite
<1>6. Val(Minus(Times(u, v), Times(x, y)), ((u0 * v0) - (x0 * y0)), D2)
  BY <1>3, <1>4, ValSum, ValTimes
<1>7. (((0 - x0) * y0) + (u0 * v0)) = ((u0 * v0) - (x0 * y0))
  BY <1>3, <1>4
<1>8. Plus(Times(Opposite(x), y), Times(u, v)) = Minus(Times(u, v), Times(x, y))
  BY <1>5, <1>6, <1>7, ValSame
<1>9. Val(Plus(Times(u, v), Times(Opposite(x), y)), ((u0 * v0) + ((0 - x0) * y0)), D2)
  BY <1>3, <1>4, ValNumbers, ValSum, ValTimes DEF Opposite
<1>10. ((u0 * v0) + ((0 - x0) * y0)) = ((u0 * v0) - (x0 * y0))
  BY <1>3, <1>4
<1>11. Plus(Times(u, v), Times(Opposite(x), y)) = Minus(Times(u, v), Times(x, y))
  BY <1>6, <1>9, <1>10, ValSame
<1>. QED  BY <1>8, <1>11

\* The same of all terms at once: how the cross product's terms and its matrix's agree.
LEMMA TurnTerms ==
  \A x, y, u, v \in Fraction : /\ Plus(Times(Opposite(x), y), Times(u, v))
                                    = Minus(Times(u, v), Times(x, y))
                              /\ Plus(Times(u, v), Times(Opposite(x), y))
                                   = Minus(Times(u, v), Times(x, y))
BY OppositeTerms

\* A leg's Jacobian is regular where the foot is below the hip's axis and the knee is bent.
LEMMA Regular ==
  ASSUME NEW leg \in Legs, NEW q \in Joints, Negative(Down(q)), q[3].s # Zero
  PROVE  calcJaco(leg, q) \in Mat3 /\ det(calcJaco(leg, q)) # Zero
<1>. DEFINE c == q[1].c
            s == q[1].s
            L == l1(leg)
            down == Down(q)
            fore == Fore(q)
            a == Times(l3, Sum23(q).c)
            b == Times(l3, Sum23(q).s)
            J == calcJaco(leg, q)
            area == Minus(Times(a, fore), Times(b, down))
<1>1. /\ c \in Fraction /\ s \in Fraction /\ L \in Fraction /\ down \in Fraction
      /\ fore \in Fraction
      /\ a \in Fraction /\ b \in Fraction /\ l3 \in Fraction /\ l2 = l3 /\ Negative(l2)
      /\ Sum23(q).c \in Fraction /\ Sum23(q).s \in Fraction
  BY LegParts, LinksAre
<1>2. \A i \in 1..3 : /\ q[i] \in Angles /\ q[i].c \in Fraction /\ q[i].s \in Fraction
                      /\ Plus(Square(q[i].c), Square(q[i].s)) = One
  BY LegParts, AngleParts
<1>3. J \in Mat3
  BY MovesAre
<1>4. /\ J[1][1] = Zero /\ J[1][2] = down /\ J[1][3] = a
      /\ J[2][1] = Minus(Opposite(Times(c, down)), Times(L, s)) /\ J[2][2] = Times(s, fore)
      /\ J[2][3] = Times(s, b)
      /\ J[3][1] = Plus(Opposite(Times(s, down)), Times(L, c)) /\ J[3][2]
           = Opposite(Times(c, fore))
      /\ J[3][3] = Opposite(Times(c, b))
  <2>1. /\ Times(s, b) = Times(l3, Times(s, Sum23(q).s)) /\ Times(c, b)
             = Times(l3, Times(c, Sum23(q).s))
    BY <1>1, Swapped
  <2>. QED  BY <2>1 DEF calcJaco
<1>5. area = Opposite(Times(Times(l3, l3), q[3].s))
  <2>1. /\ Sum23(q).c = Minus(Times(q[2].c, q[3].c), Times(q[2].s, q[3].s))
        /\ Sum23(q).s = Plus(Times(q[2].s, q[3].c), Times(q[2].c, q[3].s))
    BY DEF Sum23, Angle
  <2>2. down = Plus(Times(l3, Sum23(q).c), Times(l3, q[2].c))
        /\ fore = Plus(Times(l3, Sum23(q).s), Times(l3, q[2].s))
    BY <1>1 DEF Down, Fore
  <2>3. Numbers(<<q[2].c, q[2].s, q[3].c, q[3].s, l3>>)
    BY <1>1, <1>2 DEF Numbers
  <2>4. Plus(Square(q[2].c), Square(q[2].s)) = One
    BY <1>2
  <2>. QED  BY <2>1, <2>2, <2>3, <2>4, KneeArea
<1>6. down # Zero /\ area # Zero /\ area \in Fraction
  <2>1. l3 # Zero /\ down # Zero
    BY <1>1, Neutral
  <2>2. Times(l3, l3) \in Fraction /\ Times(l3, l3) # Zero
    BY <1>1, <2>1, NoZeros, Closed
  <2>3. Times(Times(l3, l3), q[3].s) # Zero /\ Times(Times(l3, l3), q[3].s) \in Fraction
    BY <1>2, <2>2, NoZeros, Closed
  <2>4. Minus(Zero, Times(Times(l3, l3), q[3].s)) # Zero
    <3>1. Plus(Minus(Zero, Times(Times(l3, l3), q[3].s)), Times(Times(l3, l3), q[3].s)) = Zero
      BY <2>3, PlusLaws, Closed
    <3>. QED  BY <3>1, <2>3, Neutral
  <2>5. area \in Fraction
    BY <1>1, Closed
  <2>. QED  BY <1>5, <2>1, <2>4, <2>5 DEF Opposite
<1>7. Plus(Square(c), Square(s)) = One /\ Numbers(<<c, s, L, down, fore, a, b>>)
  BY <1>1, <1>2 DEF Numbers
<1>. HIDE DEF c, s, L, down, fore, a, b, J
<1>8. det(J) = Times(down, area)
  <2>. DEFINE x == cross(J[2], J[3])
  <2>1. J[1] \in Vec /\ J[2] \in Vec /\ J[3] \in Vec /\ x \in Vec
    BY <1>3, MatParts, CrossIs
  <2>2. /\ x[1] \in Fraction
        /\ x[2] = Minus(Times(J[2][3], J[3][1]), Times(J[2][1], J[3][3])) /\ x[2] \in Fraction
        /\ x[3] = Minus(Times(J[2][1], J[3][2]), Times(J[2][2], J[3][1])) /\ x[3] \in Fraction
    BY <2>1, CrossIs, VecParts
  <2>. HIDE DEF x
  <2>3. Dot(J[1], x) = Plus(Plus(Times(Zero, x[1]), Times(down, x[2])), Times(a, x[3]))
    BY <1>4, <2>1, DotIs
  <2>4. Times(Zero, x[1]) = Zero /\ Times(down, x[2]) \in Fraction
    BY <1>1, <2>2, Neutral, Closed
  <2>5. Dot(J[1], x) = Plus(Times(down, x[2]), Times(a, x[3]))
    BY <2>3, <2>4, Neutral
  <2>6. Plus(Times(down, x[2]), Times(a, x[3])) = Times(down, area)
    BY <1>4, <1>7, <2>2, DetJaco
  <2>. QED  BY <1>3, <2>5, <2>6, DetIs DEF x
<1>. QED  BY <1>1, <1>3, <1>6, <1>8, NoZeros DEF J

\* A body that turns with the rate w moves a place as the cross product says.
LEMMA SkewIs ==
  ASSUME NEW w \in Vec, NEW p \in Vec
  PROVE  skew(w) \in Mat3 /\ Apply(skew(w), p) = cross(w, p)
<1>1. /\ w[1] \in Fraction /\ w[2] \in Fraction /\ w[3] \in Fraction
      /\ p[1] \in Fraction /\ p[2] \in Fraction /\ p[3] \in Fraction
  BY VecParts
<1>2. /\ \A x \in Fraction : Opposite(x) \in Fraction /\ Times(Zero, x) = Zero /\ Plus(Zero, x)
           = x /\ Plus(x, Zero) = x
      /\ Zero \in Fraction
  BY MoreClosed, Neutral, Closed
<1>. DEFINE M == skew(w)
<1>3. M[1] \in Vec /\ M[2] \in Vec /\ M[3] \in Vec
      /\ M[1][1] = Zero /\ M[1][2] = Opposite(w[3]) /\ M[1][3] = w[2]
      /\ M[2][1] = w[3] /\ M[2][2] = Zero /\ M[2][3] = Opposite(w[1])
      /\ M[3][1] = Opposite(w[2]) /\ M[3][2] = w[1] /\ M[3][3] = Zero
  BY <1>1, <1>2, VecParts DEF skew
<1>4. M \in Mat3
  BY <1>3 DEF skew, Mat3
<1>. HIDE DEF M
<1>5. \A x, y, u, v \in Fraction : /\ Plus(Times(Opposite(x), y), Times(u, v))
                                        = Minus(Times(u, v), Times(x, y))
                                  /\ Plus(Times(u, v), Times(Opposite(x), y))
                                       = Minus(Times(u, v), Times(x, y))
  BY TurnTerms
<1>6. /\ Apply(M, p) \in Vec
      /\ \A i \in 1..3 : Apply(M, p)[i]
           = Plus(Plus(Times(M[i][1], p[1]), Times(M[i][2], p[2])), Times(M[i][3], p[3]))
  BY <1>3, <1>4, ApplyIs, DotIs, Cases3
<1>7. /\ Times(Opposite(w[3]), p[2]) \in Fraction /\ Times(w[3], p[1]) \in Fraction
      /\ Times(Opposite(w[2]), p[1]) \in Fraction /\ Times(w[1], p[2]) \in Fraction
      /\ Plus(Times(Opposite(w[2]), p[1]), Times(w[1], p[2])) \in Fraction
  BY <1>1, <1>2, Closed
<1>8. Apply(M, p)[1] = cross(w, p)[1]
  <2>1. Apply(M, p)[1]
          = Plus(Plus(Times(Zero, p[1]), Times(Opposite(w[3]), p[2])), Times(w[2], p[3]))
    BY <1>3, <1>6
  <2>2. Plus(Times(Zero, p[1]), Times(Opposite(w[3]), p[2])) = Times(Opposite(w[3]), p[2])
    BY <1>1, <1>2, <1>7
  <2>3. Plus(Times(Opposite(w[3]), p[2]), Times(w[2], p[3]))
          = Minus(Times(w[2], p[3]), Times(w[3], p[2]))
    BY <1>1, <1>5
  <2>. QED  BY <2>1, <2>2, <2>3, CrossIs
<1>9. Apply(M, p)[2] = cross(w, p)[2]
  <2>1. Apply(M, p)[2]
          = Plus(Plus(Times(w[3], p[1]), Times(Zero, p[2])), Times(Opposite(w[1]), p[3]))
    BY <1>3, <1>6
  <2>2. Plus(Times(w[3], p[1]), Times(Zero, p[2])) = Times(w[3], p[1])
    BY <1>1, <1>2, <1>7
  <2>3. Plus(Times(w[3], p[1]), Times(Opposite(w[1]), p[3]))
          = Minus(Times(w[3], p[1]), Times(w[1], p[3]))
    BY <1>1, <1>5
  <2>. QED  BY <2>1, <2>2, <2>3, CrossIs
<1>10. Apply(M, p)[3] = cross(w, p)[3]
  <2>1. Apply(M, p)[3]
          = Plus(Plus(Times(Opposite(w[2]), p[1]), Times(w[1], p[2])), Times(Zero, p[3]))
    BY <1>3, <1>6
  <2>2. Times(Zero, p[3]) = Zero
    BY <1>1, <1>2
  <2>3. Plus(Times(Opposite(w[2]), p[1]), Times(w[1], p[2]))
          = Minus(Times(w[1], p[2]), Times(w[2], p[1]))
    BY <1>1, <1>5
  <2>. QED  BY <2>1, <2>2, <2>3, <1>2, <1>7, CrossIs
<1>11. cross(w, p) \in Vec
  BY CrossIs
<1>. QED  BY <1>4, <1>6, <1>8, <1>9, <1>10, <1>11, Equal3 DEF M, Vec

\* What cancels, cancels.
LEMMA Undone ==
  ASSUME NEW v \in Vec, NEW t \in Vec
  PROVE  /\ VPlus(VPlus(Scaled(<<-1, 1>>, VPlus(v, t)), t), v) = Null3
         /\ Scaled(<<-1, 1>>, VPlus(v, NullV)) = VMinus(NullV, v)
<1>1. <<-1, 1>> \in Fraction
  BY WholeIs
<1>. DEFINE x == VPlus(VPlus(Scaled(<<-1, 1>>, VPlus(v, t)), t), v)
<1>2. VPlus(v, t) \in Vec /\ Scaled(<<-1, 1>>, VPlus(v, t)) \in Vec
  BY <1>1, VecOps
<1>. DEFINE y == Scaled(<<-1, 1>>, VPlus(v, t))
            z == VPlus(y, t)
<1>3. \A i \in 1..3 : y[i] = Times(<<-1, 1>>, Plus(v[i], t[i]))
  BY <1>1, <1>2, VecOps
<1>. HIDE DEF y
<1>4. z \in Vec /\ \A i \in 1..3 : z[i] = Plus(y[i], t[i])
  BY <1>1, <1>2, VecOps DEF y
<1>. HIDE DEF z
<1>5. x \in Vec /\ \A i \in 1..3 : x[i]
        = Plus(Plus(Times(<<-1, 1>>, Plus(v[i], t[i])), t[i]), v[i])
  <2>1. VPlus(z, v) \in Vec /\ \A i \in 1..3 : VPlus(z, v)[i] = Plus(z[i], v[i])
    BY <1>1, <1>4, VecOps
  <2>. QED  BY <1>3, <1>4, <2>1 DEF z, y
<1>6. \A i \in 1..3 : v[i] \in Fraction /\ t[i] \in Fraction
  BY DEF Vec
<1>7. \A i \in 1..3 : x[i] = Zero
  BY <1>5, <1>6, MinusTerms
<1>8. Null3 \in Vec /\ NullV = Null3 /\ NullV \in Vec /\ Null3[1] = Zero /\ Null3[2] = Zero
      /\ Null3[3] = Zero
  BY VecParts DEF Null3, NullV
<1>9. VPlus(v, NullV) = v /\ Scaled(<<-1, 1>>, v) \in Vec /\ VMinus(NullV, v) \in Vec
  BY <1>1, <1>8, VecOps, NullLaws
<1>10. \A i \in 1..3 : NullV[i] = Zero
  BY <1>8, Cases3
<1>11. \A i \in 1..3 : Scaled(<<-1, 1>>, v)[i] = VMinus(NullV, v)[i]
  <2>1. \A i \in 1..3 : Scaled(<<-1, 1>>, v)[i] = Times(<<-1, 1>>, v[i]) /\ VMinus(NullV, v)[i]
          = Minus(Zero, v[i])
    BY <1>1, <1>8, <1>10, VecOps
  <2>. QED  BY <2>1, <1>6, MinusTerms
<1>. QED  BY <1>5, <1>7, <1>8, <1>9, <1>11, Equal3 DEF Vec

-----------------------------------------------------------------------------
(* The attitude *)
\* The numerators of a unit quaternion's matrix.
LEMMA QuatHolds ==
  ASSUME NEW e \in Attitudes
  PROVE  /\ quatToRotMat(e) \in Mat3
         /\ \E D \in Nat \ {0}, a, b, c, d \in Int :
              /\ D * D = ((a * a) + (b * b)) + ((c * c) + (d * d))
              /\ Holds(quatToRotMat(e)[1],
                   <<((a * a) + (b * b)) - ((c * c) + (d * d)), 2 * ((b * c) - (a * d)),
                     2 * ((b * d) + (a * c))>>, D * D)
              /\ Holds(quatToRotMat(e)[2],
                   <<2 * ((b * c) + (a * d)), ((a * a) + (c * c)) - ((b * b) + (d * d)),
                     2 * ((c * d) - (a * b))>>, D * D)
              /\ Holds(quatToRotMat(e)[3],
                   <<2 * ((b * d) - (a * c)), 2 * ((c * d) + (a * b)), ((a * a) + (d * d))
                     - ((b * b) + (c * c))>>, D * D)
<1>1. e \in [1..4 -> Fraction]
      /\ Plus(Plus(Square(e[1]), Square(e[2])), Plus(Square(e[3]), Square(e[4]))) = One
  BY LegTasksAssumption
<1>2. PICK D \in Nat \ {0}, n \in [1..4 -> Int] : \A i \in 1..4 : Val(e[i], n[i], D)
  BY <1>1, Values
<1>. DEFINE a == n[1]
            b == n[2]
            c == n[3]
            d == n[4]
            E == D * D
            m == [i \in 0..3 |-> [j \in 0..3 |-> Times(Two, Times(e[i + 1], e[j + 1]))]]
            R == quatToRotMat(e)
<1>3. a \in Int /\ b \in Int /\ c \in Int /\ d \in Int /\ E \in Nat \ {0}
  BY Factors
<1>4. ASSUME NEW i \in 0..3, NEW j \in 0..3
      PROVE  Val(m[i][j], 2 * (n[i + 1] * n[j + 1]), E)
  <2>1. Val(Times(e[i + 1], e[j + 1]), n[i + 1] * n[j + 1], E)
    BY <1>2, ValTimes
  <2>2. Times(Two, Times(e[i + 1], e[j + 1]))
          = Plus(Times(e[i + 1], e[j + 1]), Times(e[i + 1], e[j + 1]))
    BY <2>1, Quotients, Closed, Neutral DEF Val, Two
  <2>3. Val(Plus(Times(e[i + 1], e[j + 1]), Times(e[i + 1], e[j + 1])), (n[i + 1] * n[j + 1])
          + (n[i + 1] * n[j + 1]), E)
    BY <2>1, ValSum
  <2>4. (n[i + 1] * n[j + 1]) + (n[i + 1] * n[j + 1]) = 2 * (n[i + 1] * n[j + 1])
    BY <1>2
  <2>. QED  BY <2>2, <2>3, <2>4
<1>5. ((a * a) + (b * b)) + ((c * c) + (d * d)) = E
  <2>1. Val(Square(e[1]), a * a, E) /\ Val(Square(e[2]), b * b, E) /\ Val(Square(e[3]), c * c, E)
        /\ Val(Square(e[4]), d * d, E)
    BY <1>2, ValTimes DEF Square
  <2>2. Val(Plus(Square(e[1]), Square(e[2])), (a * a) + (b * b), E)
        /\ Val(Plus(Square(e[3]), Square(e[4])), (c * c) + (d * d), E)
    BY <2>1, ValSum
  <2>3. Val(One, ((a * a) + (b * b)) + ((c * c) + (d * d)), E)
    BY <1>1, <2>2, ValSum
  <2>. QED  BY <1>3, <2>3, ValNumbers, ValSame
<1>6. /\ Val(m[1][1], 2 * (b * b), E) /\ Val(m[2][2], 2 * (c * c), E)
      /\ Val(m[3][3], 2 * (d * d), E)
      /\ Val(m[1][2], 2 * (b * c), E) /\ Val(m[1][3], 2 * (b * d), E)
      /\ Val(m[2][3], 2 * (c * d), E)
      /\ Val(m[0][1], 2 * (a * b), E) /\ Val(m[0][2], 2 * (a * c), E)
      /\ Val(m[0][3], 2 * (a * d), E)
  BY <1>4
<1>7. R = << << Minus(One, Plus(m[2][2], m[3][3])), Minus(m[1][2], m[0][3]),
        Plus(m[1][3], m[0][2]) >>,
             << Plus(m[1][2], m[0][3]), Minus(One, Plus(m[1][1], m[3][3])),
               Minus(m[2][3], m[0][1]) >>,
             << Minus(m[1][3], m[0][2]), Plus(m[2][3], m[0][1]),
               Minus(One, Plus(m[1][1], m[2][2])) >> >>
  BY DEF quatToRotMat, RotMat
<1>. HIDE DEF a, b, c, d, m, R, E
<1>8. /\ Val(Plus(m[2][2], m[3][3]), (2 * (c * c)) + (2 * (d * d)), E)
      /\ Val(Plus(m[1][1], m[3][3]), (2 * (b * b)) + (2 * (d * d)), E)
      /\ Val(Plus(m[1][1], m[2][2]), (2 * (b * b)) + (2 * (c * c)), E)
      /\ Val(One, E, E)
  BY <1>3, <1>6, ValSum, ValNumbers
<1>9. /\ Val(R[1][1], E - ((2 * (c * c)) + (2 * (d * d))), E)
      /\ Val(R[2][2], E - ((2 * (b * b)) + (2 * (d * d))), E)
      /\ Val(R[3][3], E - ((2 * (b * b)) + (2 * (c * c))), E)
  BY <1>7, <1>8, ValSum
<1>10. /\ Val(R[1][2], (2 * (b * c)) - (2 * (a * d)), E)
       /\ Val(R[1][3], (2 * (b * d)) + (2 * (a * c)), E)
       /\ Val(R[2][1], (2 * (b * c)) + (2 * (a * d)), E)
       /\ Val(R[2][3], (2 * (c * d)) - (2 * (a * b)), E)
       /\ Val(R[3][1], (2 * (b * d)) - (2 * (a * c)), E)
       /\ Val(R[3][2], (2 * (c * d)) + (2 * (a * b)), E)
  BY <1>6, <1>7, ValSum
<1>11. R \in Mat3
  <2>1. R[1] \in Vec /\ R[2] \in Vec /\ R[3] \in Vec /\ R = <<R[1], R[2], R[3]>>
    BY <1>7, <1>9, <1>10, VecParts DEF Val
  <2>. QED  BY <2>1 DEF Mat3
<1>12. /\ E - ((2 * (c * c)) + (2 * (d * d))) = ((a * a) + (b * b)) - ((c * c) + (d * d))
       /\ E - ((2 * (b * b)) + (2 * (d * d))) = ((a * a) + (c * c)) - ((b * b) + (d * d))
       /\ E - ((2 * (b * b)) + (2 * (c * c))) = ((a * a) + (d * d)) - ((b * b) + (c * c))
       /\ (2 * (b * c)) - (2 * (a * d)) = 2 * ((b * c) - (a * d)) /\ (2 * (b * d)) + (2 * (a * c))
            = 2 * ((b * d) + (a * c))
       /\ (2 * (b * c)) + (2 * (a * d)) = 2 * ((b * c) + (a * d)) /\ (2 * (c * d)) - (2 * (a * b))
            = 2 * ((c * d) - (a * b))
       /\ (2 * (b * d)) - (2 * (a * c)) = 2 * ((b * d) - (a * c)) /\ (2 * (c * d)) + (2 * (a * b))
            = 2 * ((c * d) + (a * b))
  BY <1>3, <1>5
<1>13. /\ Holds(R[1],
            <<((a * a) + (b * b)) - ((c * c) + (d * d)), 2 * ((b * c) - (a * d)),
              2 * ((b * d) + (a * c))>>, E)
       /\ Holds(R[2],
            <<2 * ((b * c) + (a * d)), ((a * a) + (c * c)) - ((b * b) + (d * d)),
              2 * ((c * d) - (a * b))>>, E)
       /\ Holds(R[3],
            <<2 * ((b * d) - (a * c)), 2 * ((c * d) + (a * b)), ((a * a) + (d * d))
              - ((b * b) + (c * c))>>, E)
  BY <1>9, <1>10, <1>12 DEF Holds, Val
<1>. QED  BY <1>3, <1>5, <1>11, <1>13 DEF R, E

\* The attitude's matrix turns, and turns cross products along.
LEMMA QuatTurns ==
  ASSUME NEW e \in Attitudes
  PROVE  /\ Turns(quatToRotMat(e))
         /\ \A w, x \in Vec : Apply(quatToRotMat(e), cross(w, x))
                                = cross(Apply(quatToRotMat(e), w), Apply(quatToRotMat(e), x))
<1>. DEFINE R == quatToRotMat(e)
            N == Transpose(R)
<1>1. PICK D \in Nat \ {0}, a, b, c, d \in Int :
        /\ D * D = ((a * a) + (b * b)) + ((c * c) + (d * d))
        /\ Holds(R[1],
             <<((a * a) + (b * b)) - ((c * c) + (d * d)), 2 * ((b * c) - (a * d)),
               2 * ((b * d) + (a * c))>>, D * D)
        /\ Holds(R[2],
             <<2 * ((b * c) + (a * d)), ((a * a) + (c * c)) - ((b * b) + (d * d)),
               2 * ((c * d) - (a * b))>>, D * D)
        /\ Holds(R[3],
             <<2 * ((b * d) - (a * c)), 2 * ((c * d) + (a * b)), ((a * a) + (d * d))
               - ((b * b) + (c * c))>>, D * D)
  BY QuatHolds
<1>. DEFINE E == D * D
            x1 == ((a * a) + (b * b)) - ((c * c) + (d * d))
            x2 == 2 * ((b * c) - (a * d))
            x3 == 2 * ((b * d) + (a * c))
            y1 == 2 * ((b * c) + (a * d))
            y2 == ((a * a) + (c * c)) - ((b * b) + (d * d))
            y3 == 2 * ((c * d) - (a * b))
            z1 == 2 * ((b * d) - (a * c))
            z2 == 2 * ((c * d) + (a * b))
            z3 == ((a * a) + (d * d)) - ((b * b) + (c * c))
<1>2. R \in Mat3 /\ N \in Mat3 /\ E \in Nat \ {0} /\ \A i, j \in 1..3 : N[i][j] = R[j][i]
  BY QuatHolds, TransposeIs, Factors
<1>3. /\ x1 \in Int /\ x2 \in Int /\ x3 \in Int /\ y1 \in Int /\ y2 \in Int /\ y3 \in Int
      /\ z1 \in Int /\ z2 \in Int /\ z3 \in Int
  OBVIOUS
<1>4. /\ ((x1 * x1) + (y1 * y1)) + (z1 * z1) = E * E /\ ((x1 * x2) + (y1 * y2)) + (z1 * z2) = 0
      /\ ((x2 * x2) + (y2 * y2)) + (z2 * z2) = E * E /\ ((x1 * x3) + (y1 * y3)) + (z1 * z3) = 0
      /\ ((x3 * x3) + (y3 * y3)) + (z3 * z3) = E * E /\ ((x2 * x3) + (y2 * y3)) + (z2 * z3) = 0
  BY <1>1, SMTT(30)
<1>5. /\ (y2 * z3) - (y3 * z2) = x1 * E /\ (y3 * z1) - (y1 * z3) = x2 * E /\ (y1 * z2) - (y2 * z1)
           = x3 * E
      /\ (z2 * x3) - (z3 * x2) = y1 * E /\ (z3 * x1) - (z1 * x3) = y2 * E /\ (z1 * x2) - (z2 * x1)
           = y3 * E
      /\ (x2 * y3) - (x3 * y2) = z1 * E /\ (x3 * y1) - (x1 * y3) = z2 * E /\ (x1 * y2) - (x2 * y1)
           = z3 * E
  <2>0. E = ((a * a) + (b * b)) + ((c * c) + (d * d))
    BY <1>1
  <2>. HIDE DEF E
  <2>1. (y2 * z3) - (y3 * z2) = x1 * E
    BY <2>0
  <2>2. (y3 * z1) - (y1 * z3) = x2 * E
    BY <2>0
  <2>3. (y1 * z2) - (y2 * z1) = x3 * E
    BY <2>0
  <2>4. (z2 * x3) - (z3 * x2) = y1 * E
    BY <2>0
  <2>5. (z3 * x1) - (z1 * x3) = y2 * E
    BY <2>0
  <2>6. (z1 * x2) - (z2 * x1) = y3 * E
    BY <2>0
  <2>7. (x2 * y3) - (x3 * y2) = z1 * E
    BY <2>0
  <2>8. (x3 * y1) - (x1 * y3) = z2 * E
    BY <2>0
  <2>9. (x1 * y2) - (x2 * y1) = z3 * E
    BY <2>0
  <2>. QED  BY <2>1, <2>2, <2>3, <2>4, <2>5, <2>6, <2>7, <2>8, <2>9
<1>6. Holds(R[1], <<x1, x2, x3>>, E) /\ Holds(R[2], <<y1, y2, y3>>, E)
      /\ Holds(R[3], <<z1, z2, z3>>, E)
  BY <1>1
<1>. HIDE DEF R, N, E, x1, x2, x3, y1, y2, y3, z1, z2, z3
<1>7. /\ Val(R[1][1], x1, E) /\ Val(R[1][2], x2, E) /\ Val(R[1][3], x3, E)
      /\ Val(R[2][1], y1, E) /\ Val(R[2][2], y2, E) /\ Val(R[2][3], y3, E)
      /\ Val(R[3][1], z1, E) /\ Val(R[3][2], z2, E) /\ Val(R[3][3], z3, E)
  BY <1>2, <1>3, <1>6, MatParts DEF Holds, Val
<1>8. E * E \in Nat \ {0} /\ Val(One, E * E, E * E) /\ Val(Zero, 0, E * E)
  BY <1>2, Factors, ValNumbers
<1>9. \A i, j \in 1..3 : Dot(N[i], N[j]) = IF i = j THEN One ELSE Zero
  <2>1. /\ Dot(N[1], N[1]) = One /\ Dot(N[2], N[2]) = One /\ Dot(N[3], N[3]) = One
        /\ Dot(N[1], N[2]) = Zero /\ Dot(N[1], N[3]) = Zero /\ Dot(N[2], N[3]) = Zero
    <3>. DEFINE u == <<x1, y1, z1>>
                v == <<x2, y2, z2>>
                w == <<x3, y3, z3>>
    <3>1. /\ u \in NumVec /\ v \in NumVec /\ w \in NumVec
          /\ Holds(N[1], u, E) /\ Holds(N[2], v, E) /\ Holds(N[3], w, E)
          /\ N[1] \in Vec /\ N[2] \in Vec /\ N[3] \in Vec
      BY <1>2, <1>3, <1>7, MatParts DEF Holds, Val, NumVec
    <3>2. /\ IntDot(u, u) = ((x1 * x1) + (y1 * y1)) + (z1 * z1) /\ IntDot(u, v)
               = ((x1 * x2) + (y1 * y2)) + (z1 * z2)
          /\ IntDot(v, v) = ((x2 * x2) + (y2 * y2)) + (z2 * z2) /\ IntDot(u, w)
               = ((x1 * x3) + (y1 * y3)) + (z1 * z3)
          /\ IntDot(w, w) = ((x3 * x3) + (y3 * y3)) + (z3 * z3) /\ IntDot(v, w)
               = ((x2 * x3) + (y2 * y3)) + (z2 * z3)
      BY DEF IntDot
    <3>. HIDE DEF u, v, w
    <3>3. \A f, g \in Vec : \A m, n \in NumVec :
            Holds(f, m, E) /\ Holds(g, n, E) => Val(Dot(f, g), IntDot(m, n), E * E)
      BY <1>2, DotOver, DotIs DEF Val
    <3>4. /\ Val(Dot(N[1], N[1]), E * E, E * E) /\ Val(Dot(N[1], N[2]), 0, E * E)
          /\ Val(Dot(N[2], N[2]), E * E, E * E) /\ Val(Dot(N[1], N[3]), 0, E * E)
          /\ Val(Dot(N[3], N[3]), E * E, E * E) /\ Val(Dot(N[2], N[3]), 0, E * E)
      BY <1>4, <3>1, <3>2, <3>3
    <3>. QED  BY <1>8, <3>4, ValSame
  <2>2. \A i, j \in 1..3 : Dot(N[i], N[j]) = Dot(N[j], N[i])
    BY <1>2, MatParts, DotLaws, Closed, ZenonT(60)
  <2>. QED  BY <2>1, <2>2, Cases3
<1>10. Turns(R)
  BY <1>2, <1>9, TurnsIf DEF N
<1>11. cross(R[2], R[3]) = R[1] /\ cross(R[3], R[1]) = R[2] /\ cross(R[1], R[2]) = R[3]
  <2>2. ASSUME NEW f, NEW g, NEW h, NEW k, NEW l, NEW p, NEW q, NEW r, NEW s, NEW t,
               Val(f, p, E), Val(g, q, E), Val(h, r, E), Val(k, s, E), Val(l, t, E),
                 (p * q) - (r * s) = t * E
        PROVE  Minus(Times(f, g), Times(h, k)) = l
    <3>1. Val(Times(f, g), p * q, E * E) /\ Val(Times(h, k), r * s, E * E)
      BY <2>2, ValTimes
    <3>2. Val(Minus(Times(f, g), Times(h, k)), t * E, E * E)
      BY <2>2, <3>1, ValSum
    <3>3. Val(l, t * E, E * E)
      BY <1>2, <2>2, ValWide
    <3>. QED  BY <3>2, <3>3, ValSame
  <2>3. R[1] \in Vec /\ R[2] \in Vec /\ R[3] \in Vec
    BY <1>2, MatParts
  <2>4. /\ Minus(Times(R[2][2], R[3][3]), Times(R[2][3], R[3][2])) = R[1][1]
        /\ Minus(Times(R[2][3], R[3][1]), Times(R[2][1], R[3][3])) = R[1][2]
        /\ Minus(Times(R[2][1], R[3][2]), Times(R[2][2], R[3][1])) = R[1][3]
    BY <1>5, <1>7, <2>2
  <2>5. /\ Minus(Times(R[3][2], R[1][3]), Times(R[3][3], R[1][2])) = R[2][1]
        /\ Minus(Times(R[3][3], R[1][1]), Times(R[3][1], R[1][3])) = R[2][2]
        /\ Minus(Times(R[3][1], R[1][2]), Times(R[3][2], R[1][1])) = R[2][3]
    BY <1>5, <1>7, <2>2
  <2>6. /\ Minus(Times(R[1][2], R[2][3]), Times(R[1][3], R[2][2])) = R[3][1]
        /\ Minus(Times(R[1][3], R[2][1]), Times(R[1][1], R[2][3])) = R[3][2]
        /\ Minus(Times(R[1][1], R[2][2]), Times(R[1][2], R[2][1])) = R[3][3]
    BY <1>5, <1>7, <2>2
  <2>7. /\ cross(R[2], R[3]) \in Vec /\ cross(R[3], R[1]) \in Vec /\ cross(R[1], R[2]) \in Vec
    BY <2>3, CrossIs
  <2>8. cross(R[2], R[3]) = R[1]
    BY <2>3, <2>4, <2>7, CrossIs, Equal3 DEF Vec
  <2>9. cross(R[3], R[1]) = R[2]
    BY <2>3, <2>5, <2>7, CrossIs, Equal3 DEF Vec
  <2>10. cross(R[1], R[2]) = R[3]
    BY <2>3, <2>6, <2>7, CrossIs, Equal3 DEF Vec
  <2>. QED  BY <2>8, <2>9, <2>10
<1>12. ASSUME NEW w \in Vec, NEW x \in Vec
       PROVE  Apply(R, cross(w, x)) = cross(Apply(R, w), Apply(R, x))
  <2>. DEFINE y == Apply(R, w)
              z == Apply(R, x)
              u == cross(w, x)
  <2>1. /\ R[1] \in Vec /\ R[2] \in Vec /\ R[3] \in Vec /\ u \in Vec
        /\ y \in Vec /\ y[1] = Dot(R[1], w) /\ y[2] = Dot(R[2], w) /\ y[3] = Dot(R[3], w)
        /\ z \in Vec /\ z[1] = Dot(R[1], x) /\ z[2] = Dot(R[2], x) /\ z[3] = Dot(R[3], x)
        /\ Apply(R, u) \in Vec /\ Apply(R, u)[1] = Dot(R[1], u) /\ Apply(R, u)[2] = Dot(R[2], u)
        /\ Apply(R, u)[3] = Dot(R[3], u)
    BY <1>2, MatParts, ApplyIs, CrossIs
  <2>. HIDE DEF y, z
  <2>2. \A p, q \in Vec : Minus(Times(Dot(p, w), Dot(q, x)), Times(Dot(q, w), Dot(p, x)))
          = Dot(cross(p, q), u)
    BY BinetCauchy
  <2>3. /\ cross(y, z) \in Vec /\ cross(y, z)[1] = Minus(Times(y[2], z[3]), Times(y[3], z[2]))
        /\ cross(y, z)[2] = Minus(Times(y[3], z[1]), Times(y[1], z[3]))
        /\ cross(y, z)[3] = Minus(Times(y[1], z[2]), Times(y[2], z[1]))
    BY <2>1, CrossIs
  <2>. HIDE DEF u
  <2>4. cross(y, z)[1] = Apply(R, u)[1] /\ cross(y, z)[2] = Apply(R, u)[2] /\ cross(y, z)[3]
          = Apply(R, u)[3]
    BY <1>11, <2>1, <2>2, <2>3
  <2>. QED  BY <2>1, <2>3, <2>4, Equal3 DEF Vec, y, z, u
<1>. QED  BY <1>10, <1>12 DEF R

\* What the elements of a turn about an axis give.
LEMMA AngleTerms ==
  ASSUME NEW c \in Fraction, NEW s \in Fraction,
         Plus(Square(c), Square(s)) = One
  PROVE  /\ Plus(Times(c, c), Times(Opposite(s), Opposite(s))) = One
         /\ Plus(Times(s, s), Times(c, c)) = One
         /\ Plus(Times(Opposite(s), Opposite(s)), Times(c, c)) = One
         /\ Plus(Times(c, c), Times(s, s)) = One
         /\ Plus(Times(c, s), Times(Opposite(s), c)) = Zero
         /\ Plus(Times(c, Opposite(s)), Times(s, c)) = Zero
<1>. DEFINE f == <<c, s>>
<1>1. f \in [1..2 -> Fraction] /\ 2 \in Nat
  OBVIOUS
<1>2. PICK D \in Nat \ {0}, num \in [1..2 -> Int] : \A i \in 1..2 : Val(f[i], num[i], D)
  <2>. HIDE DEF f
  <2>. QED  BY <1>1, Values
<1>. DEFINE c0 == num[1]
            s0 == num[2]
            D2 == D * D
<1>3. /\ D \in Nat \ {0}
      /\ D2 \in Nat \ {0} /\ D2 = D * D
  BY Powers
<1>4. /\ c0 \in Int /\ Val(c, c0, D)
      /\ s0 \in Int /\ Val(s, s0, D)
  BY <1>2
<1>. HIDE DEF f, c0, s0, D2
<1>5. Val(Plus(Square(c), Square(s)), ((c0 * c0) + (s0 * s0)), D2)
  BY <1>3, <1>4, ValSum, ValTimes DEF Square
<1>6. Val(One, D2, D2)
  BY <1>3, ValNumbers
<1>7. ((c0 * c0) + (s0 * s0)) = D2
  BY <1>5, <1>6, ValSame
<1>8. Val(Plus(Times(c, c), Times(Opposite(s), Opposite(s))), ((c0 * c0) + ((0 - s0) * (0 - s0))),
        D2)
  BY <1>3, <1>4, ValNumbers, ValSum, ValTimes DEF Opposite
<1>9. Val(One, D2, D2)
  BY <1>3, ValNumbers
<1>10. ((c0 * c0) + ((0 - s0) * (0 - s0))) - D2 = ((1) * (((c0 * c0) + (s0 * s0)) - D2))
  BY <1>3, <1>4
<1>11. ((c0 * c0) + ((0 - s0) * (0 - s0))) = D2
  BY <1>3, <1>4, <1>7, <1>10
<1>12. Plus(Times(c, c), Times(Opposite(s), Opposite(s))) = One
  BY <1>8, <1>9, <1>11, ValSame
<1>13. Val(Plus(Times(s, s), Times(c, c)), ((s0 * s0) + (c0 * c0)), D2)
  BY <1>3, <1>4, ValSum, ValTimes
<1>14. Val(One, D2, D2)
  BY <1>3, ValNumbers
<1>15. ((s0 * s0) + (c0 * c0)) - D2 = ((1) * (((c0 * c0) + (s0 * s0)) - D2))
  BY <1>3, <1>4
<1>16. ((s0 * s0) + (c0 * c0)) = D2
  BY <1>3, <1>4, <1>7, <1>15
<1>17. Plus(Times(s, s), Times(c, c)) = One
  BY <1>13, <1>14, <1>16, ValSame
<1>18. Val(Plus(Times(Opposite(s), Opposite(s)), Times(c, c)),
         (((0 - s0) * (0 - s0)) + (c0 * c0)), D2)
  BY <1>3, <1>4, ValNumbers, ValSum, ValTimes DEF Opposite
<1>19. Val(One, D2, D2)
  BY <1>3, ValNumbers
<1>20. (((0 - s0) * (0 - s0)) + (c0 * c0)) - D2 = ((1) * (((c0 * c0) + (s0 * s0)) - D2))
  BY <1>3, <1>4
<1>21. (((0 - s0) * (0 - s0)) + (c0 * c0)) = D2
  BY <1>3, <1>4, <1>7, <1>20
<1>22. Plus(Times(Opposite(s), Opposite(s)), Times(c, c)) = One
  BY <1>18, <1>19, <1>21, ValSame
<1>23. Val(Plus(Times(c, c), Times(s, s)), ((c0 * c0) + (s0 * s0)), D2)
  BY <1>3, <1>4, ValSum, ValTimes
<1>24. Val(One, D2, D2)
  BY <1>3, ValNumbers
<1>25. ((c0 * c0) + (s0 * s0)) - D2 = ((1) * (((c0 * c0) + (s0 * s0)) - D2))
  BY <1>3, <1>4
<1>26. ((c0 * c0) + (s0 * s0)) = D2
  BY <1>3, <1>4, <1>7, <1>25
<1>27. Plus(Times(c, c), Times(s, s)) = One
  BY <1>23, <1>24, <1>26, ValSame
<1>28. Val(Plus(Times(c, s), Times(Opposite(s), c)), ((c0 * s0) + ((0 - s0) * c0)), D2)
  BY <1>3, <1>4, ValNumbers, ValSum, ValTimes DEF Opposite
<1>29. Val(Zero, 0, D2)
  BY <1>3, ValNumbers
<1>30. ((c0 * s0) + ((0 - s0) * c0)) = 0
  BY <1>3, <1>4
<1>31. Plus(Times(c, s), Times(Opposite(s), c)) = Zero
  BY <1>28, <1>29, <1>30, ValSame
<1>32. Val(Plus(Times(c, Opposite(s)), Times(s, c)), ((c0 * (0 - s0)) + (s0 * c0)), D2)
  BY <1>3, <1>4, ValNumbers, ValSum, ValTimes DEF Opposite
<1>33. Val(Zero, 0, D2)
  BY <1>3, ValNumbers
<1>34. ((c0 * (0 - s0)) + (s0 * c0)) = 0
  BY <1>3, <1>4
<1>35. Plus(Times(c, Opposite(s)), Times(s, c)) = Zero
  BY <1>32, <1>33, <1>34, ValSame
<1>. QED  BY <1>12, <1>17, <1>22, <1>27, <1>31, <1>35

\* The turn about the axis ahead.
LEMMA RotxTurns ==
  ASSUME NEW a \in Angles
  PROVE  /\ rotx(a) \in Mat3 /\ Turns(Transpose(rotx(a)))
         /\ a = Angle(One, Zero) => \A v \in Vec : Apply(rotx(a), v) = v
<1>. DEFINE c == a.c
            s == a.s
            M == rotx(a)
<1>1. /\ c \in Fraction /\ s \in Fraction /\ Opposite(s) \in Fraction /\ Zero \in Fraction
      /\ One \in Fraction
      /\ Plus(Square(c), Square(s)) = One
  BY AngleParts, MoreClosed, Closed
<1>2. /\ M[1] = <<One, Zero, Zero>> /\ M[1][1] = One /\ M[1][2] = Zero /\ M[1][3] = Zero
      /\ M[2] = <<Zero, c, Opposite(s)>> /\ M[2][1] = Zero /\ M[2][2] = c /\ M[2][3] = Opposite(s)
      /\ M[3] = <<Zero, s, c>> /\ M[3][1] = Zero /\ M[3][2] = s /\ M[3][3] = c
  BY DEF rotx
<1>3. M = <<M[1], M[2], M[3]>>
  BY DEF rotx
<1>. HIDE DEF c, s, M
<1>4. /\ M[1] \in Vec /\ M[2] \in Vec /\ M[3] \in Vec
  BY <1>1, <1>2, VecParts
<1>5. M \in Mat3
  BY <1>3, <1>4 DEF Mat3
<1>6. \A p \in Fraction : /\ Times(Zero, p) = Zero /\ Times(p, Zero) = Zero /\ Times(One, p) = p
                               /\ Times(p, One) = p
                          /\ Plus(p, Zero) = p /\ Plus(Zero, p) = p
  BY Neutral
<1>7. /\ Plus(Times(c, c), Times(Opposite(s), Opposite(s))) = One
      /\ Plus(Times(s, s), Times(c, c)) = One
      /\ Plus(Times(Opposite(s), Opposite(s)), Times(c, c)) = One
      /\ Plus(Times(c, c), Times(s, s)) = One
      /\ Plus(Times(c, s), Times(Opposite(s), c)) = Zero
      /\ Plus(Times(c, Opposite(s)), Times(s, c)) = Zero
      /\ \A p, q \in Fraction : Times(p, q) \in Fraction
  BY <1>1, AngleTerms, Closed
<1>8. Dot(M[1], M[1]) = One
  <2>1. Dot(M[1], M[1]) = Plus(Plus(Times(One, One), Times(Zero, Zero)), Times(Zero, Zero))
    BY <1>2, <1>4, DotIs
  <2>. QED  BY <1>1, <1>6, <1>7, <2>1
<1>9. Dot(M[1], M[2]) = Zero
  <2>1. Dot(M[1], M[2]) = Plus(Plus(Times(One, Zero), Times(Zero, c)), Times(Zero, Opposite(s)))
    BY <1>2, <1>4, DotIs
  <2>. QED  BY <1>1, <1>6, <1>7, <2>1
<1>10. Dot(M[1], M[3]) = Zero
  <2>1. Dot(M[1], M[3]) = Plus(Plus(Times(One, Zero), Times(Zero, s)), Times(Zero, c))
    BY <1>2, <1>4, DotIs
  <2>. QED  BY <1>1, <1>6, <1>7, <2>1
<1>11. Dot(M[2], M[2]) = One
  <2>1. Dot(M[2], M[2])
          = Plus(Plus(Times(Zero, Zero), Times(c, c)), Times(Opposite(s), Opposite(s)))
    BY <1>2, <1>4, DotIs
  <2>. QED  BY <1>1, <1>6, <1>7, <2>1
<1>12. Dot(M[2], M[3]) = Zero
  <2>1. Dot(M[2], M[3]) = Plus(Plus(Times(Zero, Zero), Times(c, s)), Times(Opposite(s), c))
    BY <1>2, <1>4, DotIs
  <2>. QED  BY <1>1, <1>6, <1>7, <2>1
<1>13. Dot(M[3], M[3]) = One
  <2>1. Dot(M[3], M[3]) = Plus(Plus(Times(Zero, Zero), Times(s, s)), Times(c, c))
    BY <1>2, <1>4, DotIs
  <2>. QED  BY <1>1, <1>6, <1>7, <2>1
<1>14. \A i, j \in 1..3 : Dot(M[i], M[j]) = IF i = j THEN One ELSE Zero
  <2>1. \A i, j \in 1..3 : Dot(M[i], M[j]) = Dot(M[j], M[i])
    BY <1>5, MatParts, DotLaws, Closed
  <2>. QED  BY <2>1, <1>8, <1>9, <1>10, <1>11, <1>12, <1>13, Cases3
<1>15. Turns(Transpose(M))
  <2>1. Transpose(M) \in Mat3 /\ Transpose(Transpose(M)) = M
    BY <1>5, TransposeIs
  <2>. QED  BY <1>14, <2>1, TurnsIf
<1>16. ASSUME a = Angle(One, Zero), NEW v \in Vec
       PROVE  Apply(M, v) = v
  <2>1. c = One /\ s = Zero /\ Opposite(s) = Zero
    BY <1>16, Neutral, Closed DEF Angle, c, s, Opposite
  <2>2. M[1] = <<One, Zero, Zero>> /\ M[2] = <<Zero, One, Zero>> /\ M[3] = <<Zero, Zero, One>>
    BY <1>2, <2>1
  <2>3. /\ v[1] \in Fraction /\ v[2] \in Fraction /\ v[3] \in Fraction
        /\ Apply(M, v) \in Vec
        /\ Apply(M, v)[1] = Plus(Plus(Times(One, v[1]), Times(Zero, v[2])), Times(Zero, v[3]))
        /\ Apply(M, v)[2] = Plus(Plus(Times(Zero, v[1]), Times(One, v[2])), Times(Zero, v[3]))
        /\ Apply(M, v)[3] = Plus(Plus(Times(Zero, v[1]), Times(Zero, v[2])), Times(One, v[3]))
    <3>1. /\ Apply(M, v) \in Vec /\ Apply(M, v)[1] = Dot(M[1], v) /\ Apply(M, v)[2] = Dot(M[2], v)
          /\ Apply(M, v)[3] = Dot(M[3], v)
      BY <1>5, ApplyIs
    <3>. QED  BY <3>1, <1>4, <2>2, DotIs, VecParts
  <2>4. Apply(M, v)[1] = v[1] /\ Apply(M, v)[2] = v[2] /\ Apply(M, v)[3] = v[3]
    BY <1>1, <1>6, <2>3
  <2>. QED  BY <2>3, <2>4, Equal3 DEF Vec
<1>. QED  BY <1>5, <1>15, <1>16 DEF M

\* The turn about the axis to the left.
LEMMA RotyTurns ==
  ASSUME NEW a \in Angles
  PROVE  /\ roty(a) \in Mat3 /\ Turns(Transpose(roty(a)))
         /\ a = Angle(One, Zero) => \A v \in Vec : Apply(roty(a), v) = v
<1>. DEFINE c == a.c
            s == a.s
            M == roty(a)
<1>1. /\ c \in Fraction /\ s \in Fraction /\ Opposite(s) \in Fraction /\ Zero \in Fraction
      /\ One \in Fraction
      /\ Plus(Square(c), Square(s)) = One
  BY AngleParts, MoreClosed, Closed
<1>2. /\ M[1] = <<c, Zero, s>> /\ M[1][1] = c /\ M[1][2] = Zero /\ M[1][3] = s
      /\ M[2] = <<Zero, One, Zero>> /\ M[2][1] = Zero /\ M[2][2] = One /\ M[2][3] = Zero
      /\ M[3] = <<Opposite(s), Zero, c>> /\ M[3][1] = Opposite(s) /\ M[3][2] = Zero /\ M[3][3] = c
  BY DEF roty
<1>3. M = <<M[1], M[2], M[3]>>
  BY DEF roty
<1>. HIDE DEF c, s, M
<1>4. /\ M[1] \in Vec /\ M[2] \in Vec /\ M[3] \in Vec
  BY <1>1, <1>2, VecParts
<1>5. M \in Mat3
  BY <1>3, <1>4 DEF Mat3
<1>6. \A p \in Fraction : /\ Times(Zero, p) = Zero /\ Times(p, Zero) = Zero /\ Times(One, p) = p
                               /\ Times(p, One) = p
                          /\ Plus(p, Zero) = p /\ Plus(Zero, p) = p
  BY Neutral
<1>7. /\ Plus(Times(c, c), Times(Opposite(s), Opposite(s))) = One
      /\ Plus(Times(s, s), Times(c, c)) = One
      /\ Plus(Times(Opposite(s), Opposite(s)), Times(c, c)) = One
      /\ Plus(Times(c, c), Times(s, s)) = One
      /\ Plus(Times(c, s), Times(Opposite(s), c)) = Zero
      /\ Plus(Times(c, Opposite(s)), Times(s, c)) = Zero
      /\ \A p, q \in Fraction : Times(p, q) \in Fraction
  BY <1>1, AngleTerms, Closed
<1>8. Dot(M[1], M[1]) = One
  <2>1. Dot(M[1], M[1]) = Plus(Plus(Times(c, c), Times(Zero, Zero)), Times(s, s))
    BY <1>2, <1>4, DotIs
  <2>. QED  BY <1>1, <1>6, <1>7, <2>1
<1>9. Dot(M[1], M[2]) = Zero
  <2>1. Dot(M[1], M[2]) = Plus(Plus(Times(c, Zero), Times(Zero, One)), Times(s, Zero))
    BY <1>2, <1>4, DotIs
  <2>. QED  BY <1>1, <1>6, <1>7, <2>1
<1>10. Dot(M[1], M[3]) = Zero
  <2>1. Dot(M[1], M[3]) = Plus(Plus(Times(c, Opposite(s)), Times(Zero, Zero)), Times(s, c))
    BY <1>2, <1>4, DotIs
  <2>. QED  BY <1>1, <1>6, <1>7, <2>1
<1>11. Dot(M[2], M[2]) = One
  <2>1. Dot(M[2], M[2]) = Plus(Plus(Times(Zero, Zero), Times(One, One)), Times(Zero, Zero))
    BY <1>2, <1>4, DotIs
  <2>. QED  BY <1>1, <1>6, <1>7, <2>1
<1>12. Dot(M[2], M[3]) = Zero
  <2>1. Dot(M[2], M[3]) = Plus(Plus(Times(Zero, Opposite(s)), Times(One, Zero)), Times(Zero, c))
    BY <1>2, <1>4, DotIs
  <2>. QED  BY <1>1, <1>6, <1>7, <2>1
<1>13. Dot(M[3], M[3]) = One
  <2>1. Dot(M[3], M[3])
          = Plus(Plus(Times(Opposite(s), Opposite(s)), Times(Zero, Zero)), Times(c, c))
    BY <1>2, <1>4, DotIs
  <2>. QED  BY <1>1, <1>6, <1>7, <2>1
<1>14. \A i, j \in 1..3 : Dot(M[i], M[j]) = IF i = j THEN One ELSE Zero
  <2>1. \A i, j \in 1..3 : Dot(M[i], M[j]) = Dot(M[j], M[i])
    BY <1>5, MatParts, DotLaws, Closed
  <2>. QED  BY <2>1, <1>8, <1>9, <1>10, <1>11, <1>12, <1>13, Cases3
<1>15. Turns(Transpose(M))
  <2>1. Transpose(M) \in Mat3 /\ Transpose(Transpose(M)) = M
    BY <1>5, TransposeIs
  <2>. QED  BY <1>14, <2>1, TurnsIf
<1>16. ASSUME a = Angle(One, Zero), NEW v \in Vec
       PROVE  Apply(M, v) = v
  <2>1. c = One /\ s = Zero /\ Opposite(s) = Zero
    BY <1>16, Neutral, Closed DEF Angle, c, s, Opposite
  <2>2. M[1] = <<One, Zero, Zero>> /\ M[2] = <<Zero, One, Zero>> /\ M[3] = <<Zero, Zero, One>>
    BY <1>2, <2>1
  <2>3. /\ v[1] \in Fraction /\ v[2] \in Fraction /\ v[3] \in Fraction
        /\ Apply(M, v) \in Vec
        /\ Apply(M, v)[1] = Plus(Plus(Times(One, v[1]), Times(Zero, v[2])), Times(Zero, v[3]))
        /\ Apply(M, v)[2] = Plus(Plus(Times(Zero, v[1]), Times(One, v[2])), Times(Zero, v[3]))
        /\ Apply(M, v)[3] = Plus(Plus(Times(Zero, v[1]), Times(Zero, v[2])), Times(One, v[3]))
    <3>1. /\ Apply(M, v) \in Vec /\ Apply(M, v)[1] = Dot(M[1], v) /\ Apply(M, v)[2] = Dot(M[2], v)
          /\ Apply(M, v)[3] = Dot(M[3], v)
      BY <1>5, ApplyIs
    <3>. QED  BY <3>1, <1>4, <2>2, DotIs, VecParts
  <2>4. Apply(M, v)[1] = v[1] /\ Apply(M, v)[2] = v[2] /\ Apply(M, v)[3] = v[3]
    BY <1>1, <1>6, <2>3
  <2>. QED  BY <2>3, <2>4, Equal3 DEF Vec
<1>. QED  BY <1>5, <1>15, <1>16 DEF M

\* The turn about the axis upwards.
LEMMA RotzTurns ==
  ASSUME NEW a \in Angles
  PROVE  /\ rotz(a) \in Mat3 /\ Turns(Transpose(rotz(a)))
         /\ a = Angle(One, Zero) => \A v \in Vec : Apply(rotz(a), v) = v
<1>. DEFINE c == a.c
            s == a.s
            M == rotz(a)
<1>1. /\ c \in Fraction /\ s \in Fraction /\ Opposite(s) \in Fraction /\ Zero \in Fraction
      /\ One \in Fraction
      /\ Plus(Square(c), Square(s)) = One
  BY AngleParts, MoreClosed, Closed
<1>2. /\ M[1] = <<c, Opposite(s), Zero>> /\ M[1][1] = c /\ M[1][2] = Opposite(s) /\ M[1][3] = Zero
      /\ M[2] = <<s, c, Zero>> /\ M[2][1] = s /\ M[2][2] = c /\ M[2][3] = Zero
      /\ M[3] = <<Zero, Zero, One>> /\ M[3][1] = Zero /\ M[3][2] = Zero /\ M[3][3] = One
  BY DEF rotz
<1>3. M = <<M[1], M[2], M[3]>>
  BY DEF rotz
<1>. HIDE DEF c, s, M
<1>4. /\ M[1] \in Vec /\ M[2] \in Vec /\ M[3] \in Vec
  BY <1>1, <1>2, VecParts
<1>5. M \in Mat3
  BY <1>3, <1>4 DEF Mat3
<1>6. \A p \in Fraction : /\ Times(Zero, p) = Zero /\ Times(p, Zero) = Zero /\ Times(One, p) = p
                               /\ Times(p, One) = p
                          /\ Plus(p, Zero) = p /\ Plus(Zero, p) = p
  BY Neutral
<1>7. /\ Plus(Times(c, c), Times(Opposite(s), Opposite(s))) = One
      /\ Plus(Times(s, s), Times(c, c)) = One
      /\ Plus(Times(Opposite(s), Opposite(s)), Times(c, c)) = One
      /\ Plus(Times(c, c), Times(s, s)) = One
      /\ Plus(Times(c, s), Times(Opposite(s), c)) = Zero
      /\ Plus(Times(c, Opposite(s)), Times(s, c)) = Zero
      /\ \A p, q \in Fraction : Times(p, q) \in Fraction
  BY <1>1, AngleTerms, Closed
<1>8. Dot(M[1], M[1]) = One
  <2>1. Dot(M[1], M[1])
          = Plus(Plus(Times(c, c), Times(Opposite(s), Opposite(s))), Times(Zero, Zero))
    BY <1>2, <1>4, DotIs
  <2>. QED  BY <1>1, <1>6, <1>7, <2>1
<1>9. Dot(M[1], M[2]) = Zero
  <2>1. Dot(M[1], M[2]) = Plus(Plus(Times(c, s), Times(Opposite(s), c)), Times(Zero, Zero))
    BY <1>2, <1>4, DotIs
  <2>. QED  BY <1>1, <1>6, <1>7, <2>1
<1>10. Dot(M[1], M[3]) = Zero
  <2>1. Dot(M[1], M[3]) = Plus(Plus(Times(c, Zero), Times(Opposite(s), Zero)), Times(Zero, One))
    BY <1>2, <1>4, DotIs
  <2>. QED  BY <1>1, <1>6, <1>7, <2>1
<1>11. Dot(M[2], M[2]) = One
  <2>1. Dot(M[2], M[2]) = Plus(Plus(Times(s, s), Times(c, c)), Times(Zero, Zero))
    BY <1>2, <1>4, DotIs
  <2>. QED  BY <1>1, <1>6, <1>7, <2>1
<1>12. Dot(M[2], M[3]) = Zero
  <2>1. Dot(M[2], M[3]) = Plus(Plus(Times(s, Zero), Times(c, Zero)), Times(Zero, One))
    BY <1>2, <1>4, DotIs
  <2>. QED  BY <1>1, <1>6, <1>7, <2>1
<1>13. Dot(M[3], M[3]) = One
  <2>1. Dot(M[3], M[3]) = Plus(Plus(Times(Zero, Zero), Times(Zero, Zero)), Times(One, One))
    BY <1>2, <1>4, DotIs
  <2>. QED  BY <1>1, <1>6, <1>7, <2>1
<1>14. \A i, j \in 1..3 : Dot(M[i], M[j]) = IF i = j THEN One ELSE Zero
  <2>1. \A i, j \in 1..3 : Dot(M[i], M[j]) = Dot(M[j], M[i])
    BY <1>5, MatParts, DotLaws, Closed
  <2>. QED  BY <2>1, <1>8, <1>9, <1>10, <1>11, <1>12, <1>13, Cases3
<1>15. Turns(Transpose(M))
  <2>1. Transpose(M) \in Mat3 /\ Transpose(Transpose(M)) = M
    BY <1>5, TransposeIs
  <2>. QED  BY <1>14, <2>1, TurnsIf
<1>16. ASSUME a = Angle(One, Zero), NEW v \in Vec
       PROVE  Apply(M, v) = v
  <2>1. c = One /\ s = Zero /\ Opposite(s) = Zero
    BY <1>16, Neutral, Closed DEF Angle, c, s, Opposite
  <2>2. M[1] = <<One, Zero, Zero>> /\ M[2] = <<Zero, One, Zero>> /\ M[3] = <<Zero, Zero, One>>
    BY <1>2, <2>1
  <2>3. /\ v[1] \in Fraction /\ v[2] \in Fraction /\ v[3] \in Fraction
        /\ Apply(M, v) \in Vec
        /\ Apply(M, v)[1] = Plus(Plus(Times(One, v[1]), Times(Zero, v[2])), Times(Zero, v[3]))
        /\ Apply(M, v)[2] = Plus(Plus(Times(Zero, v[1]), Times(One, v[2])), Times(Zero, v[3]))
        /\ Apply(M, v)[3] = Plus(Plus(Times(Zero, v[1]), Times(Zero, v[2])), Times(One, v[3]))
    <3>1. /\ Apply(M, v) \in Vec /\ Apply(M, v)[1] = Dot(M[1], v) /\ Apply(M, v)[2] = Dot(M[2], v)
          /\ Apply(M, v)[3] = Dot(M[3], v)
      BY <1>5, ApplyIs
    <3>. QED  BY <3>1, <1>4, <2>2, DotIs, VecParts
  <2>4. Apply(M, v)[1] = v[1] /\ Apply(M, v)[2] = v[2] /\ Apply(M, v)[3] = v[3]
    BY <1>1, <1>6, <2>3
  <2>. QED  BY <2>3, <2>4, Equal3 DEF Vec
<1>. QED  BY <1>5, <1>15, <1>16 DEF M

\* The turn the stick asks for; no stick, no turn.
LEMMA RpyTurns ==
  ASSUME NEW row \in Angles, NEW pitch \in Angles, NEW yaw \in Angles
  PROVE  /\ rpyToRotMat(row, pitch, yaw) \in Mat3
         /\ Turns(Transpose(rpyToRotMat(row, pitch, yaw)))
         /\ row = Angle(One, Zero) /\ pitch = Angle(One, Zero) /\ yaw = Angle(One, Zero)
              => \A v \in Vec : Apply(Transpose(rpyToRotMat(row, pitch, yaw)), v) = v
<1>. DEFINE X == rotx(row)
            Y == roty(pitch)
            W == rotz(yaw)
            P == Product(Y, X)
            M == Product(W, P)
<1>1. /\ X \in Mat3 /\ Y \in Mat3 /\ W \in Mat3
      /\ Turns(Transpose(X)) /\ Turns(Transpose(Y)) /\ Turns(Transpose(W))
      /\ Transpose(Transpose(X)) = X /\ Transpose(Transpose(Y)) = Y /\ Transpose(Transpose(W)) = W
  BY RotxTurns, RotyTurns, RotzTurns, TransposeIs
<1>2. /\ row = Angle(One, Zero) => \A v \in Vec : Apply(X, v) = v
      /\ pitch = Angle(One, Zero) => \A v \in Vec : Apply(Y, v) = v
      /\ yaw = Angle(One, Zero) => \A v \in Vec : Apply(W, v) = v
  BY RotxTurns, RotyTurns, RotzTurns
<1>. HIDE DEF X, Y, W
<1>3. P \in Mat3 /\ M \in Mat3
  BY <1>1, ProductIs
<1>4. Turns(Product(Transpose(X), Transpose(Y))) /\ Transpose(Product(Transpose(X), Transpose(Y)))
        = P
  BY <1>1, TurnsProduct
<1>5. Product(Transpose(X), Transpose(Y)) = Transpose(P)
  <2>1. Product(Transpose(X), Transpose(Y)) \in Mat3
    BY <1>4 DEF Turns
  <2>. QED  BY <1>4, <2>1, TransposeIs
<1>. HIDE DEF P
<1>6. Turns(Product(Transpose(P), Transpose(W))) /\ Transpose(Product(Transpose(P), Transpose(W)))
        = M
  <2>1. Turns(Transpose(P)) /\ Transpose(Transpose(P)) = P
    BY <1>3, <1>4, <1>5, TransposeIs
  <2>. QED  BY <1>1, <2>1, TurnsProduct
<1>7. Turns(Transpose(M))
  <2>1. Product(Transpose(P), Transpose(W)) \in Mat3
    BY <1>6 DEF Turns
  <2>2. Product(Transpose(P), Transpose(W)) = Transpose(M)
    BY <1>6, <2>1, TransposeIs
  <2>. QED  BY <1>6, <2>2
<1>8. ASSUME row = Angle(One, Zero), pitch = Angle(One, Zero), yaw = Angle(One, Zero),
               NEW v \in Vec
      PROVE  Apply(Transpose(M), v) = v
  <2>1. \A u \in Vec : Apply(M, u) = u
    <3>1. ASSUME NEW u \in Vec PROVE Apply(M, u) = u
      <4>1. Apply(P, u) = Apply(Y, Apply(X, u))
        BY <1>1, ProductApply DEF P
      <4>2. Apply(P, u) = u
        BY <4>1, <1>2, <1>8
      <4>3. Apply(M, u) = Apply(W, Apply(P, u))
        BY <1>1, <1>3, ProductApply
      <4>. QED  BY <4>2, <4>3, <1>2, <1>8
    <3>. QED  BY <3>1
  <2>2. Transpose(M) \in Mat3 /\ Apply(Transpose(M), v) \in Vec
    BY <1>3, TransposeIs, ApplyIs
  <2>3. \A u \in Vec : Dot(u, Apply(Transpose(M), v)) = Dot(u, v)
    BY <1>3, <2>1, Adjoint
  <2>. QED  BY <2>2, <2>3, KnownByProducts
<1>. QED  BY <1>3, <1>7, <1>8 DEF rpyToRotMat, M, P, X, Y, W

-----------------------------------------------------------------------------
(* Feet that stand. *)

\* The joint angles that are measured.
LEMMA PosturesAre ==
  ASSUME NEW q \in Postures
  PROVE  q \in Joints /\ Negative(Down(q)) /\ Negative(q[3].s)
BY LegTasksAssumption DEF Joints

\* The body's motions.
LEMMA MotionsAre ==
  ASSUME NEW motion \in Motions
  PROVE  motion.v \in Vec /\ motion.w \in Vec
BY LegTasksAssumption DEF Vec

\* With the rates that hold it, a foot moves against the body.
LEMMA HoldingIs ==
  ASSUME NEW leg \in Legs, NEW q \in Postures, NEW motion \in Motions
  PROVE  /\ Holding(leg, q, motion) \in Vec
         /\ Holding(leg, q, motion)
              = Solved(calcJaco(leg, q),
                Scaled(<<-1, 1>>, VPlus(motion.v, cross(motion.w, calcPEe2B(leg, q)))))
         /\ Apply(calcJaco(leg, q), Holding(leg, q, motion))
              = Scaled(<<-1, 1>>, VPlus(motion.v, cross(motion.w, calcPEe2B(leg, q))))
<1>1. q \in Joints /\ Negative(Down(q)) /\ q[3].s \in Fraction /\ q[3].s # Zero
  <2>1. q \in Joints /\ Negative(Down(q)) /\ Negative(q[3].s)
    BY PosturesAre
  <2>2. q[3].s \in Fraction
    BY <2>1, LegParts
  <2>. QED  BY <2>1, <2>2, Neutral, Closed
<1>2. calcJaco(leg, q) \in Mat3 /\ det(calcJaco(leg, q)) # Zero
  BY <1>1, Regular
<1>3. Scaled(<<-1, 1>>, VPlus(motion.v, cross(motion.w, calcPEe2B(leg, q)))) \in Vec
  <2>1. motion.v \in Vec /\ motion.w \in Vec /\ calcPEe2B(leg, q) \in Vec
        /\ <<-1, 1>> \in Fraction
    BY <1>1, MotionsAre, FootIs, WholeIs
  <2>2. cross(motion.w, calcPEe2B(leg, q)) \in Vec
    BY <2>1, CrossIs
  <2>3. VPlus(motion.v, cross(motion.w, calcPEe2B(leg, q))) \in Vec
    BY <2>1, <2>2, VecOps
  <2>. QED  BY <2>1, <2>3, VecOps
<1>4. Holding(leg, q, motion)
        = Solved(calcJaco(leg, q),
          Scaled(<<-1, 1>>, VPlus(motion.v, cross(motion.w, calcPEe2B(leg, q)))))
  BY <1>1, MovesAre DEF Holding
<1>. QED  BY <1>2, <1>3, <1>4, SolvedFits

\* To the estimate that foot stands still.
LEMMA StandsStill ==
  ASSUME NEW leg \in Legs, NEW q \in Postures, NEW motion \in Motions, NEW e \in Attitudes
  PROVE  VPlus(Apply(quatToRotMat(e),
                     VPlus(calcVEe(leg, q, Holding(leg, q, motion)),
                       Apply(skew(motion.w), calcPEe2B(leg, q)))),
               Apply(quatToRotMat(e), motion.v)) = Null3
<1>. DEFINE R == quatToRotMat(e)
            P == calcPEe2B(leg, q)
            t == cross(motion.w, P)
            x == Scaled(<<-1, 1>>, VPlus(motion.v, t))
            v == motion.v
<1>1. R \in Mat3 /\ v \in Vec /\ motion.w \in Vec /\ P \in Vec /\ t \in Vec
      /\ <<-1, 1>> \in Fraction
  <2>1. R \in Mat3 /\ v \in Vec /\ motion.w \in Vec /\ P \in Vec /\ <<-1, 1>> \in Fraction
    BY QuatHolds, MotionsAre, PosturesAre, FootIs, WholeIs
  <2>. QED  BY <2>1, CrossIs
<1>2. VPlus(v, t) \in Vec
  BY <1>1, VecOps
<1>3. x \in Vec
  BY <1>1, <1>2, VecOps
<1>4. calcVEe(leg, q, Holding(leg, q, motion)) = x
  BY HoldingIs DEF calcVEe
<1>5. Apply(skew(motion.w), P) = t
  BY <1>1, SkewIs
<1>6. VPlus(VPlus(x, t), v) = Null3
  BY <1>1, Undone
<1>. HIDE DEF x, t, v, R, P
<1>7. VPlus(x, t) \in Vec
  BY <1>1, <1>3, VecOps
<1>8. VPlus(Apply(R, VPlus(x, t)), Apply(R, v)) = Apply(R, VPlus(VPlus(x, t), v))
  BY <1>1, <1>7, ApplyLaws
<1>9. Apply(R, Null3) = Null3
  BY <1>1, NullStays DEF NullV, Null3
<1>. QED  BY <1>4, <1>5, <1>6, <1>8, <1>9 DEF R, P, v

\* The torques of a foot's force do on the leg what the force does on the body.
LEMMA WorkIs ==
  ASSUME NEW leg \in Legs, NEW q \in Postures, NEW motion \in Motions, NEW e \in Attitudes,
               NEW F \in Vec
  PROVE  Dot(calcTau(leg, q, Apply(Transpose(quatToRotMat(e)), Scaled(<<-1, 1>>, F))),
           Holding(leg, q, motion))
           = Dot(F, VPlus(Apply(quatToRotMat(e), motion.v),
                          cross(Apply(quatToRotMat(e), motion.w),
                            Apply(quatToRotMat(e), calcPEe2B(leg, q)))))
<1>. DEFINE R == quatToRotMat(e)
            N == Transpose(R)
            J == calcJaco(leg, q)
            P == calcPEe2B(leg, q)
            t == cross(motion.w, P)
            y == VPlus(motion.v, t)
            v == motion.v
            w == motion.w
            d == Holding(leg, q, motion)
            m == <<-1, 1>>
            G == Scaled(m, F)
<1>1. R \in Mat3 /\ v \in Vec /\ w \in Vec /\ P \in Vec /\ t \in Vec /\ m \in Fraction
      /\ N \in Mat3
  BY QuatHolds, MotionsAre, PosturesAre, FootIs, CrossIs, WholeIs, TransposeIs
<1>2. y \in Vec /\ G \in Vec
  BY <1>1, VecOps
<1>3. J \in Mat3 /\ d \in Vec /\ Apply(J, d) = Scaled(m, y)
  BY PosturesAre, MovesAre, HoldingIs
<1>4. Apply(R, t) = cross(Apply(R, w), Apply(R, P))
  BY <1>1, QuatTurns
<1>. HIDE DEF R, N, J, P, t, y, v, w, d, m, G
<1>5. Apply(R, y) = VPlus(Apply(R, v), Apply(R, t)) /\ Apply(R, y) \in Vec
  BY <1>1, <1>2, ApplyLaws, ApplyIs DEF y, v
<1>6. Apply(N, G) \in Vec /\ Apply(J, d) \in Vec
  BY <1>1, <1>2, <1>3, ApplyIs
<1>7. Dot(Apply(Transpose(J), Apply(N, G)), d) = Dot(Apply(N, G), Apply(J, d))
  BY <1>3, <1>6, Adjoint
<1>8. Dot(Apply(N, G), Apply(J, d)) = Dot(G, Apply(R, Scaled(m, y)))
  BY <1>1, <1>2, <1>3, <1>6, Adjoint DEF N
<1>9. Apply(R, Scaled(m, y)) = Scaled(m, Apply(R, y))
  BY <1>1, <1>2, ApplyLaws
<1>10. Dot(G, Scaled(m, Apply(R, y))) = Times(m, Times(m, Dot(F, Apply(R, y))))
  <2>1. Dot(G, Scaled(m, Apply(R, y))) = Times(m, Dot(G, Apply(R, y)))
    BY <1>1, <1>2, <1>5, DotLaws
  <2>2. Dot(G, Apply(R, y)) = Times(m, Dot(F, Apply(R, y)))
    BY <1>1, <1>2, <1>5, DotLaws DEF G
  <2>. QED  BY <2>1, <2>2
<1>11. Times(m, Times(m, Dot(F, Apply(R, y)))) = Dot(F, Apply(R, y))
  <2>1. Dot(F, Apply(R, y)) \in Fraction
    BY <1>5, DotIs
  <2>2. \A p \in Fraction : Times(m, Times(m, p)) = p
    <3>1. ASSUME NEW p \in Fraction PROVE Times(m, Times(m, p)) = p
      <4>1. Times(m, p) = Minus(Zero, p) /\ Minus(Zero, p) \in Fraction
            /\ Times(m, Minus(Zero, p)) = Minus(Zero, Minus(Zero, p))
        BY MinusTerms, Closed DEF m
      <4>2. Minus(Zero, Minus(Zero, p)) = p
        BY Twice
      <4>. QED  BY <4>1, <4>2
    <3>. QED  BY <3>1
  <2>. QED  BY <2>1, <2>2
<1>. QED  BY <1>4, <1>5, <1>7, <1>8, <1>9, <1>10, <1>11 DEF calcTau, R, N, J, P, v, w, d, m, G

\* While the body does not turn, the rates that take its velocity from a foot hold the foot.
LEMMA RatesAre ==
  ASSUME NEW leg \in Legs, NEW q \in Postures, NEW motion \in Motions, NEW e \in Attitudes,
               motion.w = Null3
  PROVE  calcQd(leg, q,
           Apply(Transpose(quatToRotMat(e)), VMinus(Null3, Apply(quatToRotMat(e), motion.v))))
           = Holding(leg, q, motion)
<1>. DEFINE R == quatToRotMat(e)
            N == Transpose(R)
            v == motion.v
            P == calcPEe2B(leg, q)
<1>1. R \in Mat3 /\ N \in Mat3 /\ v \in Vec /\ P \in Vec /\ Turns(R) /\ NullV = Null3
      /\ NullV \in Vec
  BY QuatHolds, QuatTurns, MotionsAre, PosturesAre, FootIs, TransposeIs, VecParts DEF NullV, Null3
<1>2. cross(motion.w, P) = Null3
  <2>1. P[1] \in Fraction /\ P[2] \in Fraction /\ P[3] \in Fraction /\ Zero \in Fraction
    BY <1>1, VecParts, Closed
  <2>2. Null3[1] = Zero /\ Null3[2] = Zero /\ Null3[3] = Zero /\ Null3 \in Vec
    BY <1>1 DEF Null3
  <2>. HIDE DEF P
  <2>3. cross(Null3, P) \in Vec /\ cross(Null3, P)[1]
          = Minus(Times(Zero, P[3]), Times(Zero, P[2]))
        /\ cross(Null3, P)[2] = Minus(Times(Zero, P[1]), Times(Zero, P[3]))
        /\ cross(Null3, P)[3] = Minus(Times(Zero, P[2]), Times(Zero, P[1]))
    BY <1>1, <2>2, CrossIs
  <2>4. cross(Null3, P)[1] = Zero /\ cross(Null3, P)[2] = Zero /\ cross(Null3, P)[3] = Zero
    BY <2>1, <2>3, Neutral
  <2>. QED  BY <2>2, <2>3, <2>4, Equal3 DEF Vec
<1>3. Scaled(<<-1, 1>>, VPlus(v, cross(motion.w, P))) = VMinus(Null3, v)
  BY <1>1, <1>2, Undone
<1>. HIDE DEF R, N, v, P
<1>4. Apply(R, v) \in Vec
  BY <1>1, ApplyIs
<1>5. Apply(N, VMinus(Null3, Apply(R, v))) = VMinus(Apply(N, Null3), Apply(N, Apply(R, v)))
  BY <1>1, <1>4, ApplyLaws, Closed
<1>6. Apply(N, Null3) = Null3 /\ Apply(N, Apply(R, v)) = v
  BY <1>1, NullStays DEF Turns, N
<1>. QED  BY <1>3, <1>5, <1>6, HoldingIs DEF calcQd, R, N, v, P

-----------------------------------------------------------------------------
(* The angle from one vector to another. *)

\* Turns multiply squares of lengths.
LEMMA TurnNorm ==
  ASSUME NEW u \in Fraction, NEW v \in Fraction, NEW X \in Fraction, NEW Y \in Fraction
  PROVE  Plus(Square(Plus(Times(X, u), Times(Y, v))), Square(Minus(Times(Y, u), Times(X, v))))
           = Times(Plus(Square(u), Square(v)), Plus(Square(X), Square(Y)))
<1>. DEFINE f == <<u, v, X, Y>>
<1>1. f \in [1..4 -> Fraction] /\ 4 \in Nat
  OBVIOUS
<1>2. PICK D \in Nat \ {0}, num \in [1..4 -> Int] : \A i \in 1..4 : Val(f[i], num[i], D)
  <2>. HIDE DEF f
  <2>. QED  BY <1>1, Values
<1>. DEFINE u0 == num[1]
            v0 == num[2]
            X0 == num[3]
            Y0 == num[4]
            D2 == D * D
            D3 == D * D2
            D4 == D * D3
<1>3. /\ D \in Nat \ {0}
      /\ D2 \in Nat \ {0} /\ D2 = D * D
      /\ D3 \in Nat \ {0} /\ D3 = D * D2
      /\ D4 \in Nat \ {0} /\ D4 = D * D3
      /\ D2 * D = D3
      /\ D2 * D2 = D4
      /\ D3 * D = D4
  BY Powers
<1>4. /\ u0 \in Int /\ Val(u, u0, D)
      /\ v0 \in Int /\ Val(v, v0, D)
      /\ X0 \in Int /\ Val(X, X0, D)
      /\ Y0 \in Int /\ Val(Y, Y0, D)
  BY <1>2
<1>. HIDE DEF f, u0, v0, X0, Y0, D2, D3, D4
<1>5. Val(Plus(Times(X, u), Times(Y, v)), ((X0 * u0) + (Y0 * v0)), D2)
  BY <1>3, <1>4, ValSum, ValTimes
<1>6. Val(Minus(Times(Y, u), Times(X, v)), ((Y0 * u0) - (X0 * v0)), D2)
  BY <1>3, <1>4, ValSum, ValTimes
<1>7. Val(Plus(Square(Plus(Times(X, u), Times(Y, v))), Square(Minus(Times(Y, u), Times(X, v)))),
        ((((X0 * u0) + (Y0 * v0)) * ((X0 * u0) + (Y0 * v0)))
          + (((Y0 * u0) - (X0 * v0)) * ((Y0 * u0) - (X0 * v0)))), D4)
  BY <1>3, <1>5, <1>6, ValSum, ValTimes DEF Square
<1>8. Val(Plus(Square(u), Square(v)), ((u0 * u0) + (v0 * v0)), D2)
  BY <1>3, <1>4, ValSum, ValTimes DEF Square
<1>9. Val(Plus(Square(X), Square(Y)), ((X0 * X0) + (Y0 * Y0)), D2)
  BY <1>3, <1>4, ValSum, ValTimes DEF Square
<1>10. Val(Times(Plus(Square(u), Square(v)), Plus(Square(X), Square(Y))),
         (((u0 * u0) + (v0 * v0)) * ((X0 * X0) + (Y0 * Y0))), D4)
  BY <1>3, <1>8, <1>9, ValTimes
<1>11. ((((X0 * u0) + (Y0 * v0)) * ((X0 * u0) + (Y0 * v0)))
         + (((Y0 * u0) - (X0 * v0)) * ((Y0 * u0) - (X0 * v0))))
           = (((u0 * u0) + (v0 * v0)) * ((X0 * X0) + (Y0 * Y0)))
  BY <1>3, <1>4
<1>12. Plus(Square(Plus(Times(X, u), Times(Y, v))), Square(Minus(Times(Y, u), Times(X, v))))
         = Times(Plus(Square(u), Square(v)), Plus(Square(X), Square(Y)))
  BY <1>7, <1>10, <1>11, ValSame
<1>. QED  BY <1>12

\* An angle is known by what it does to one vector.
LEMMA TurnBack ==
  ASSUME NEW c \in Fraction, NEW s \in Fraction, NEW u \in Fraction, NEW v \in Fraction
  PROVE  /\ Times(Plus(Square(u), Square(v)), c)
              = Plus(Times(Minus(Times(c, u), Times(s, v)), u),
                Times(Plus(Times(s, u), Times(c, v)), v))
         /\ Times(Plus(Square(u), Square(v)), s)
              = Minus(Times(Plus(Times(s, u), Times(c, v)), u),
                Times(Minus(Times(c, u), Times(s, v)), v))
<1>. DEFINE f == <<c, s, u, v>>
<1>1. f \in [1..4 -> Fraction] /\ 4 \in Nat
  OBVIOUS
<1>2. PICK D \in Nat \ {0}, num \in [1..4 -> Int] : \A i \in 1..4 : Val(f[i], num[i], D)
  <2>. HIDE DEF f
  <2>. QED  BY <1>1, Values
<1>. DEFINE c0 == num[1]
            s0 == num[2]
            u0 == num[3]
            v0 == num[4]
            D2 == D * D
            D3 == D * D2
<1>3. /\ D \in Nat \ {0}
      /\ D2 \in Nat \ {0} /\ D2 = D * D
      /\ D3 \in Nat \ {0} /\ D3 = D * D2
      /\ D2 * D = D3
  BY Powers
<1>4. /\ c0 \in Int /\ Val(c, c0, D)
      /\ s0 \in Int /\ Val(s, s0, D)
      /\ u0 \in Int /\ Val(u, u0, D)
      /\ v0 \in Int /\ Val(v, v0, D)
  BY <1>2
<1>. HIDE DEF f, c0, s0, u0, v0, D2, D3
<1>5. Val(Plus(Square(u), Square(v)), ((u0 * u0) + (v0 * v0)), D2)
  BY <1>3, <1>4, ValSum, ValTimes DEF Square
<1>6. Val(Minus(Times(c, u), Times(s, v)), ((c0 * u0) - (s0 * v0)), D2)
  BY <1>3, <1>4, ValSum, ValTimes
<1>7. Val(Plus(Times(s, u), Times(c, v)), ((s0 * u0) + (c0 * v0)), D2)
  BY <1>3, <1>4, ValSum, ValTimes
<1>8. Val(Plus(Times(Minus(Times(c, u), Times(s, v)), u),
        Times(Plus(Times(s, u), Times(c, v)), v)),
          ((((c0 * u0) - (s0 * v0)) * u0) + (((s0 * u0) + (c0 * v0)) * v0)), D3)
  BY <1>3, <1>4, <1>6, <1>7, ValSum, ValTimes
<1>9. Val(Times(Plus(Square(u), Square(v)), c), (((u0 * u0) + (v0 * v0)) * c0), D3)
  BY <1>3, <1>4, <1>5, ValTimes
<1>10. (((u0 * u0) + (v0 * v0)) * c0)
         = ((((c0 * u0) - (s0 * v0)) * u0) + (((s0 * u0) + (c0 * v0)) * v0))
  BY <1>3, <1>4
<1>11. Times(Plus(Square(u), Square(v)), c)
         = Plus(Times(Minus(Times(c, u), Times(s, v)), u),
           Times(Plus(Times(s, u), Times(c, v)), v))
  BY <1>8, <1>9, <1>10, ValSame
<1>12. Val(Minus(Times(Plus(Times(s, u), Times(c, v)), u),
         Times(Minus(Times(c, u), Times(s, v)), v)),
           ((((s0 * u0) + (c0 * v0)) * u0) - (((c0 * u0) - (s0 * v0)) * v0)), D3)
  BY <1>3, <1>4, <1>6, <1>7, ValSum, ValTimes
<1>13. Val(Times(Plus(Square(u), Square(v)), s), (((u0 * u0) + (v0 * v0)) * s0), D3)
  BY <1>3, <1>4, <1>5, ValTimes
<1>14. (((u0 * u0) + (v0 * v0)) * s0)
         = ((((s0 * u0) + (c0 * v0)) * u0) - (((c0 * u0) - (s0 * v0)) * v0))
  BY <1>3, <1>4
<1>15. Times(Plus(Square(u), Square(v)), s)
         = Minus(Times(Plus(Times(s, u), Times(c, v)), u),
           Times(Minus(Times(c, u), Times(s, v)), v))
  BY <1>12, <1>13, <1>14, ValSame
<1>. QED  BY <1>11, <1>15

\* What the angle between two vectors of one length does to the first.
LEMMA TurnDone ==
  ASSUME NEW c, NEW s, NEW u, NEW v, NEW X, NEW Y, NEW N,
         Numbers(<<c, s, u, v, X, Y, N>>),
         Times(N, c) = Plus(Times(X, u), Times(Y, v)),
         Times(N, s) = Minus(Times(Y, u), Times(X, v)),
         N = Plus(Square(u), Square(v))
  PROVE  /\ Times(N, Minus(Times(c, u), Times(s, v))) = Times(N, X)
         /\ Times(N, Plus(Times(s, u), Times(c, v))) = Times(N, Y)
<1>. DEFINE f == <<c, s, u, v, X, Y, N>>
<1>1. f \in [1..7 -> Fraction] /\ 7 \in Nat
  BY DEF Numbers
<1>2. PICK D \in Nat \ {0}, num \in [1..7 -> Int] : \A i \in 1..7 : Val(f[i], num[i], D)
  <2>. HIDE DEF f
  <2>. QED  BY <1>1, Values
<1>. DEFINE c0 == num[1]
            s0 == num[2]
            u0 == num[3]
            v0 == num[4]
            X0 == num[5]
            Y0 == num[6]
            N0 == num[7]
            D2 == D * D
            D3 == D * D2
<1>3. /\ D \in Nat \ {0}
      /\ D2 \in Nat \ {0} /\ D2 = D * D
      /\ D3 \in Nat \ {0} /\ D3 = D * D2
      /\ D2 * D = D3
  BY Powers
<1>4. /\ c0 \in Int /\ Val(c, c0, D)
      /\ s0 \in Int /\ Val(s, s0, D)
      /\ u0 \in Int /\ Val(u, u0, D)
      /\ v0 \in Int /\ Val(v, v0, D)
      /\ X0 \in Int /\ Val(X, X0, D)
      /\ Y0 \in Int /\ Val(Y, Y0, D)
      /\ N0 \in Int /\ Val(N, N0, D)
  BY <1>2
<1>. HIDE DEF f, c0, s0, u0, v0, X0, Y0, N0, D2, D3
<1>5. Val(Plus(Times(X, u), Times(Y, v)), ((X0 * u0) + (Y0 * v0)), D2)
  BY <1>3, <1>4, ValSum, ValTimes
<1>6. Val(Times(N, c), (N0 * c0), D2)
  BY <1>3, <1>4, ValTimes
<1>7. (N0 * c0) = ((X0 * u0) + (Y0 * v0))
  BY <1>5, <1>6, ValSame
<1>8. Val(Minus(Times(Y, u), Times(X, v)), ((Y0 * u0) - (X0 * v0)), D2)
  BY <1>3, <1>4, ValSum, ValTimes
<1>9. Val(Times(N, s), (N0 * s0), D2)
  BY <1>3, <1>4, ValTimes
<1>10. (N0 * s0) = ((Y0 * u0) - (X0 * v0))
  BY <1>8, <1>9, ValSame
<1>11. Val(Plus(Square(u), Square(v)), ((u0 * u0) + (v0 * v0)), D2)
  BY <1>3, <1>4, ValSum, ValTimes DEF Square
<1>12. Val(N, (N0 * D), D2)
  BY <1>3, <1>4, ValWide
<1>13. (N0 * D) = ((u0 * u0) + (v0 * v0))
  BY <1>11, <1>12, ValSame
<1>14. Val(Minus(Times(c, u), Times(s, v)), ((c0 * u0) - (s0 * v0)), D2)
  BY <1>3, <1>4, ValSum, ValTimes
<1>15. Val(Times(N, Minus(Times(c, u), Times(s, v))), (N0 * ((c0 * u0) - (s0 * v0))), D3)
  BY <1>3, <1>4, <1>14, ValTimes
<1>16. Val(Times(N, X), ((N0 * X0) * D), D3)
  BY <1>3, <1>4, ValTimes, ValWide
<1>17. (N0 * ((c0 * u0) - (s0 * v0))) - ((N0 * X0) * D)
         = ((u0) * ((N0 * c0) - ((X0 * u0) + (Y0 * v0))))
           + ((-v0) * ((N0 * s0) - ((Y0 * u0) - (X0 * v0))))
             + ((-X0) * ((N0 * D) - ((u0 * u0) + (v0 * v0))))
  BY <1>3, <1>4
<1>18. (N0 * ((c0 * u0) - (s0 * v0))) = ((N0 * X0) * D)
  BY <1>3, <1>4, <1>7, <1>10, <1>13, <1>17
<1>19. Times(N, Minus(Times(c, u), Times(s, v))) = Times(N, X)
  BY <1>15, <1>16, <1>18, ValSame
<1>20. Val(Plus(Times(s, u), Times(c, v)), ((s0 * u0) + (c0 * v0)), D2)
  BY <1>3, <1>4, ValSum, ValTimes
<1>21. Val(Times(N, Plus(Times(s, u), Times(c, v))), (N0 * ((s0 * u0) + (c0 * v0))), D3)
  BY <1>3, <1>4, <1>20, ValTimes
<1>22. Val(Times(N, Y), ((N0 * Y0) * D), D3)
  BY <1>3, <1>4, ValTimes, ValWide
<1>23. (N0 * ((s0 * u0) + (c0 * v0))) - ((N0 * Y0) * D)
         = ((u0) * ((N0 * s0) - ((Y0 * u0) - (X0 * v0))))
           + ((v0) * ((N0 * c0) - ((X0 * u0) + (Y0 * v0))))
             + ((-Y0) * ((N0 * D) - ((u0 * u0) + (v0 * v0))))
  BY <1>3, <1>4
<1>24. (N0 * ((s0 * u0) + (c0 * v0))) = ((N0 * Y0) * D)
  BY <1>3, <1>4, <1>7, <1>10, <1>13, <1>23
<1>25. Times(N, Plus(Times(s, u), Times(c, v))) = Times(N, Y)
  BY <1>21, <1>22, <1>24, ValSame
<1>. QED  BY <1>19, <1>25

\* The squares of multiples.
LEMMA SquaresOf ==
  ASSUME NEW r \in Fraction, NEW c \in Fraction, NEW s \in Fraction
  PROVE  Plus(Square(Times(r, c)), Square(Times(r, s)))
           = Times(Square(r), Plus(Square(c), Square(s)))
<1>. DEFINE f == <<r, c, s>>
<1>1. f \in [1..3 -> Fraction] /\ 3 \in Nat
  OBVIOUS
<1>2. PICK D \in Nat \ {0}, num \in [1..3 -> Int] : \A i \in 1..3 : Val(f[i], num[i], D)
  <2>. HIDE DEF f
  <2>. QED  BY <1>1, Values
<1>. DEFINE r0 == num[1]
            c0 == num[2]
            s0 == num[3]
            D2 == D * D
            D3 == D * D2
            D4 == D * D3
<1>3. /\ D \in Nat \ {0}
      /\ D2 \in Nat \ {0} /\ D2 = D * D
      /\ D3 \in Nat \ {0} /\ D3 = D * D2
      /\ D4 \in Nat \ {0} /\ D4 = D * D3
      /\ D2 * D = D3
      /\ D2 * D2 = D4
      /\ D3 * D = D4
  BY Powers
<1>4. /\ r0 \in Int /\ Val(r, r0, D)
      /\ c0 \in Int /\ Val(c, c0, D)
      /\ s0 \in Int /\ Val(s, s0, D)
  BY <1>2
<1>. HIDE DEF f, r0, c0, s0, D2, D3, D4
<1>5. Val(Plus(Square(Times(r, c)), Square(Times(r, s))),
        (((r0 * c0) * (r0 * c0)) + ((r0 * s0) * (r0 * s0))), D4)
  BY <1>3, <1>4, ValSum, ValTimes DEF Square
<1>6. Val(Times(Square(r), Plus(Square(c), Square(s))), ((r0 * r0) * ((c0 * c0) + (s0 * s0))), D4)
  BY <1>3, <1>4, ValSum, ValTimes, ZenonT(60) DEF Square
<1>7. (((r0 * c0) * (r0 * c0)) + ((r0 * s0) * (r0 * s0))) = ((r0 * r0) * ((c0 * c0) + (s0 * s0)))
  BY <1>3, <1>4
<1>8. Plus(Square(Times(r, c)), Square(Times(r, s)))
        = Times(Square(r), Plus(Square(c), Square(s)))
  BY <1>5, <1>6, <1>7, ValSame
<1>. QED  BY <1>8

\* The angle of a straight leg.
LEMMA StraightIs == Angle(One, Zero) \in Angles
<1>1. Square(One) = One /\ Square(Zero) = Zero /\ Plus(One, Zero) = One
  BY Neutral, Closed DEF Square
<1>. QED  BY <1>1, Closed DEF Angles, Angle

\* The angle of a vector whose length is r.
LEMMA Atan2Is ==
  ASSUME NEW x \in Fraction, NEW y \in Fraction, NEW r \in Fraction, ~Negative(r),
         Square(r) = Plus(Square(x), Square(y))
  PROVE  /\ atan2(y, x) \in Angles
         /\ Times(r, atan2(y, x).c) = x /\ Times(r, atan2(y, x).s) = y
         /\ r = Zero => atan2(y, x) = Angle(One, Zero)
<1>1. Root(Plus(Square(x), Square(y))) = r
  BY RootOfSquare
<1>2. CASE r = Zero
  <2>1. atan2(y, x) = Angle(One, Zero)
    BY <1>1, <1>2 DEF atan2
  <2>2. x = Zero /\ y = Zero
    <3>1. Square(Zero) = Zero
      BY Neutral, Closed DEF Square
    <3>. QED  BY <1>2, <3>1, SquaresNull
  <2>3. Angle(One, Zero) \in Angles
    BY StraightIs
  <2>4. Angle(One, Zero).c = One /\ Angle(One, Zero).s = Zero /\ Times(Zero, One) = Zero
        /\ Times(Zero, Zero) = Zero
    BY Neutral, Closed DEF Angle
  <2>. QED  BY <1>2, <2>1, <2>2, <2>3, <2>4
<1>3. CASE r # Zero
  <2>. DEFINE c == Over(x, r)
              s == Over(y, r)
  <2>1. /\ atan2(y, x) = Angle(c, s) /\ c \in Fraction /\ s \in Fraction
        /\ Times(r, c) = x /\ Times(r, s) = y
    BY <1>1, <1>3, OverIs DEF atan2
  <2>. HIDE DEF c, s
  <2>2. Plus(Square(Times(r, c)), Square(Times(r, s)))
          = Times(Square(r), Plus(Square(c), Square(s)))
    BY <2>1, SquaresOf
  <2>3. Times(Square(r), Plus(Square(c), Square(s))) = Times(Square(r), One) /\ Square(r) # Zero
    BY <1>3, <2>1, <2>2, MoreClosed, Neutral, NoZeros DEF Square
  <2>4. Plus(Square(c), Square(s)) = One
    BY <2>1, <2>3, CancelTimes, MoreClosed, Closed
  <2>5. Angle(c, s) \in Angles /\ Angle(c, s).c = c /\ Angle(c, s).s = s
    BY <2>1, <2>4 DEF Angles, Angle
  <2>. QED  BY <1>3, <2>1, <2>5
<1>. QED  BY <1>2, <1>3

\* The angle that atan2 finds between two vectors of one length turns the first into the
\* second, and no other does.
LEMMA TurnsTo ==
  ASSUME NEW u \in Fraction, NEW v \in Fraction, NEW X \in Fraction, NEW Y \in Fraction,
         Plus(Square(u), Square(v)) = Plus(Square(X), Square(Y)),
         NEW x, NEW y, x = Plus(Times(X, u), Times(Y, v)), y = Minus(Times(Y, u), Times(X, v))
  PROVE  /\ atan2(y, x) \in Angles
         /\ Minus(Times(atan2(y, x).c, u), Times(atan2(y, x).s, v)) = X
         /\ Plus(Times(atan2(y, x).s, u), Times(atan2(y, x).c, v)) = Y
         /\ \A b \in Angles : /\ Plus(Square(u), Square(v)) # Zero
                              /\ Minus(Times(b.c, u), Times(b.s, v)) = X
                              /\ Plus(Times(b.s, u), Times(b.c, v)) = Y
                              => b = atan2(y, x)
<1>. DEFINE N == Plus(Square(u), Square(v))
            a == atan2(y, x)
<1>1. x \in Fraction /\ y \in Fraction /\ N \in Fraction /\ ~Negative(N)
  BY Closed, SquaresNull
<1>2. Square(N) = Plus(Square(x), Square(y))
  BY TurnNorm DEF Square
<1>3. N = Plus(Square(u), Square(v)) /\ N = Plus(Square(X), Square(Y))
  OBVIOUS
<1>. HIDE DEF N
<1>4. a \in Angles /\ Times(N, a.c) = x /\ Times(N, a.s) = y /\ (N = Zero => a = Angle(One, Zero))
  BY <1>1, <1>2, Atan2Is
<1>5. a.c \in Fraction /\ a.s \in Fraction
  BY <1>4, AngleParts
<1>. HIDE DEF a
<1>6. Minus(Times(a.c, u), Times(a.s, v)) = X /\ Plus(Times(a.s, u), Times(a.c, v)) = Y
  <2>1. CASE N = Zero
    <3>1. u = Zero /\ v = Zero /\ X = Zero /\ Y = Zero
      BY <1>3, <2>1, SquaresNull
    <3>2. Times(a.c, Zero) = Zero /\ Times(a.s, Zero) = Zero /\ Minus(Zero, Zero) = Zero
          /\ Plus(Zero, Zero) = Zero
      BY <1>5, Neutral, Closed
    <3>. QED  BY <3>1, <3>2
  <2>2. CASE N # Zero
    <3>. DEFINE p == Minus(Times(a.c, u), Times(a.s, v))
                q == Plus(Times(a.s, u), Times(a.c, v))
    <3>1. Numbers(<<a.c, a.s, u, v, X, Y, N>>)
      BY <1>1, <1>5 DEF Numbers
    <3>2. Times(N, p) = Times(N, X) /\ Times(N, q) = Times(N, Y)
      BY <1>3, <1>4, <3>1, TurnDone
    <3>3. p \in Fraction /\ q \in Fraction
      BY <1>5, Closed
    <3>. HIDE DEF p, q
    <3>4. p = X /\ q = Y
      BY <1>1, <2>2, <3>2, <3>3, CancelTimes
    <3>. QED  BY <3>4 DEF p, q
  <2>. QED  BY <2>1, <2>2
<1>7. ASSUME NEW b \in Angles, N # Zero, Minus(Times(b.c, u), Times(b.s, v))
                   = X, Plus(Times(b.s, u), Times(b.c, v)) = Y
      PROVE  b = a
  <2>1. b.c \in Fraction /\ b.s \in Fraction /\ b = Angle(b.c, b.s) /\ a = Angle(a.c, a.s)
    BY <1>4, AngleParts
  <2>2. Times(N, b.c) = x /\ Times(N, b.s) = y
    BY <1>3, <1>7, <2>1, TurnBack
  <2>3. b.c = a.c /\ b.s = a.s
    BY <1>1, <1>4, <1>5, <1>7, <2>1, <2>2, CancelTimes
  <2>. QED  BY <2>1, <2>3
<1>. QED  BY <1>4, <1>6, <1>7 DEF N, a

-----------------------------------------------------------------------------
(* The leg as a triangle of thigh, shank and reach. *)

\* By the law of cosines.
LEMMA KneeSpan ==
  ASSUME NEW c \in Fraction, NEW s \in Fraction, NEW k \in Fraction,
         Plus(Square(c), Square(s)) = One
  PROVE  Plus(Square(Times(k, s)), Square(Plus(k, Times(k, c))))
           = Minus(Plus(Times(k, k), Times(k, k)),
             Times(Plus(Times(k, k), Times(k, k)), Opposite(c)))
<1>. DEFINE f == <<c, s, k>>
<1>1. f \in [1..3 -> Fraction] /\ 3 \in Nat
  OBVIOUS
<1>2. PICK D \in Nat \ {0}, num \in [1..3 -> Int] : \A i \in 1..3 : Val(f[i], num[i], D)
  <2>. HIDE DEF f
  <2>. QED  BY <1>1, Values
<1>. DEFINE c0 == num[1]
            s0 == num[2]
            k0 == num[3]
            D2 == D * D
            D3 == D * D2
            D4 == D * D3
<1>3. /\ D \in Nat \ {0}
      /\ D2 \in Nat \ {0} /\ D2 = D * D
      /\ D3 \in Nat \ {0} /\ D3 = D * D2
      /\ D4 \in Nat \ {0} /\ D4 = D * D3
      /\ D2 * D = D3
      /\ D2 * D2 = D4
      /\ D3 * D = D4
  BY Powers
<1>4. /\ c0 \in Int /\ Val(c, c0, D)
      /\ s0 \in Int /\ Val(s, s0, D)
      /\ k0 \in Int /\ Val(k, k0, D)
  BY <1>2
<1>. HIDE DEF f, c0, s0, k0, D2, D3, D4
<1>5. Val(Plus(Square(c), Square(s)), ((c0 * c0) + (s0 * s0)), D2)
  BY <1>3, <1>4, ValSum, ValTimes DEF Square
<1>6. Val(One, D2, D2)
  BY <1>3, ValNumbers
<1>7. ((c0 * c0) + (s0 * s0)) = D2
  BY <1>5, <1>6, ValSame
<1>8. Val(Plus(k, Times(k, c)), ((k0 * D) + (k0 * c0)), D2)
  BY <1>3, <1>4, ValSum, ValTimes, ValWide
<1>9. Val(Plus(Square(Times(k, s)), Square(Plus(k, Times(k, c)))),
        (((k0 * s0) * (k0 * s0)) + (((k0 * D) + (k0 * c0)) * ((k0 * D) + (k0 * c0)))), D4)
  BY <1>3, <1>4, <1>8, ValSum, ValTimes DEF Square
<1>10. Val(Plus(Times(k, k), Times(k, k)), ((k0 * k0) + (k0 * k0)), D2)
  BY <1>3, <1>4, ValSum, ValTimes
<1>11. Val(Times(Plus(Times(k, k), Times(k, k)), Opposite(c)),
         (((k0 * k0) + (k0 * k0)) * (0 - c0)), D3)
  BY <1>3, <1>4, <1>10, ValNumbers, ValSum, ValTimes DEF Opposite
<1>12. Val(Minus(Plus(Times(k, k), Times(k, k)),
         Times(Plus(Times(k, k), Times(k, k)), Opposite(c))),
           (((((k0 * k0) + (k0 * k0)) * D) - (((k0 * k0) + (k0 * k0)) * (0 - c0))) * D), D4)
  BY <1>3, <1>10, <1>11, ValSum, ValWide, ZenonT(60)
<1>13. (((k0 * s0) * (k0 * s0)) + (((k0 * D) + (k0 * c0)) * ((k0 * D) + (k0 * c0))))
         - (((((k0 * k0) + (k0 * k0)) * D) - (((k0 * k0) + (k0 * k0)) * (0 - c0))) * D)
           = ((k0 * k0) * (((c0 * c0) + (s0 * s0)) - D2))
  BY <1>3, <1>4
<1>14. (((k0 * s0) * (k0 * s0)) + (((k0 * D) + (k0 * c0)) * ((k0 * D) + (k0 * c0))))
         = (((((k0 * k0) + (k0 * k0)) * D) - (((k0 * k0) + (k0 * k0)) * (0 - c0))) * D)
  BY <1>3, <1>4, <1>7, <1>13
<1>15. Plus(Square(Times(k, s)), Square(Plus(k, Times(k, c))))
         = Minus(Plus(Times(k, k), Times(k, k)),
           Times(Plus(Times(k, k), Times(k, k)), Opposite(c)))
  BY <1>9, <1>12, <1>14, ValSame
<1>. QED  BY <1>15

\* Shank and thigh as one.
LEMMA SpanIs ==
  ASSUME NEW c, NEW s, NEW c3, NEW s3, NEW k,
         Numbers(<<c, s, c3, s3, k>>)
  PROVE  /\ Plus(Times(k, Minus(Times(c, c3), Times(s, s3))), Times(k, c))
              = Minus(Times(c, Plus(k, Times(k, c3))), Times(s, Times(k, s3)))
         /\ Plus(Times(k, Plus(Times(s, c3), Times(c, s3))), Times(k, s))
              = Plus(Times(s, Plus(k, Times(k, c3))), Times(c, Times(k, s3)))
<1>. DEFINE f == <<c, s, c3, s3, k>>
<1>1. f \in [1..5 -> Fraction] /\ 5 \in Nat
  BY DEF Numbers
<1>2. PICK D \in Nat \ {0}, num \in [1..5 -> Int] : \A i \in 1..5 : Val(f[i], num[i], D)
  <2>. HIDE DEF f
  <2>. QED  BY <1>1, Values
<1>. DEFINE c0 == num[1]
            s0 == num[2]
            c30 == num[3]
            s30 == num[4]
            k0 == num[5]
            D2 == D * D
            D3 == D * D2
<1>3. /\ D \in Nat \ {0}
      /\ D2 \in Nat \ {0} /\ D2 = D * D
      /\ D3 \in Nat \ {0} /\ D3 = D * D2
      /\ D2 * D = D3
  BY Powers
<1>4. /\ c0 \in Int /\ Val(c, c0, D)
      /\ s0 \in Int /\ Val(s, s0, D)
      /\ c30 \in Int /\ Val(c3, c30, D)
      /\ s30 \in Int /\ Val(s3, s30, D)
      /\ k0 \in Int /\ Val(k, k0, D)
  BY <1>2
<1>. HIDE DEF f, c0, s0, c30, s30, k0, D2, D3
<1>5. Val(Minus(Times(c, c3), Times(s, s3)), ((c0 * c30) - (s0 * s30)), D2)
  BY <1>3, <1>4, ValSum, ValTimes
<1>6. Val(Plus(Times(k, Minus(Times(c, c3), Times(s, s3))), Times(k, c)),
        ((k0 * ((c0 * c30) - (s0 * s30))) + ((k0 * c0) * D)), D3)
  BY <1>3, <1>4, <1>5, ValSum, ValTimes, ValWide
<1>7. Val(Plus(k, Times(k, c3)), ((k0 * D) + (k0 * c30)), D2)
  BY <1>3, <1>4, ValSum, ValTimes, ValWide
<1>8. Val(Minus(Times(c, Plus(k, Times(k, c3))), Times(s, Times(k, s3))),
        ((c0 * ((k0 * D) + (k0 * c30))) - (s0 * (k0 * s30))), D3)
  BY <1>3, <1>4, <1>7, ValSum, ValTimes
<1>9. ((k0 * ((c0 * c30) - (s0 * s30))) + ((k0 * c0) * D))
        = ((c0 * ((k0 * D) + (k0 * c30))) - (s0 * (k0 * s30)))
  BY <1>3, <1>4
<1>10. Plus(Times(k, Minus(Times(c, c3), Times(s, s3))), Times(k, c))
         = Minus(Times(c, Plus(k, Times(k, c3))), Times(s, Times(k, s3)))
  BY <1>6, <1>8, <1>9, ValSame
<1>11. Val(Plus(Times(s, c3), Times(c, s3)), ((s0 * c30) + (c0 * s30)), D2)
  BY <1>3, <1>4, ValSum, ValTimes
<1>12. Val(Plus(Times(k, Plus(Times(s, c3), Times(c, s3))), Times(k, s)),
         ((k0 * ((s0 * c30) + (c0 * s30))) + ((k0 * s0) * D)), D3)
  BY <1>3, <1>4, <1>11, ValSum, ValTimes, ValWide
<1>13. Val(Plus(Times(s, Plus(k, Times(k, c3))), Times(c, Times(k, s3))),
         ((s0 * ((k0 * D) + (k0 * c30))) + (c0 * (k0 * s30))), D3)
  BY <1>3, <1>4, <1>7, ValSum, ValTimes
<1>14. ((k0 * ((s0 * c30) + (c0 * s30))) + ((k0 * s0) * D))
         = ((s0 * ((k0 * D) + (k0 * c30))) + (c0 * (k0 * s30)))
  BY <1>3, <1>4
<1>15. Plus(Times(k, Plus(Times(s, c3), Times(c, s3))), Times(k, s))
         = Plus(Times(s, Plus(k, Times(k, c3))), Times(c, Times(k, s3)))
  BY <1>12, <1>13, <1>14, ValSame
<1>. QED  BY <1>10, <1>15

\* The hip's angle, in its terms.
LEMMA HipTerms ==
  ASSUME NEW L \in Fraction, NEW len \in Fraction, NEW py \in Fraction, NEW pz \in Fraction
  PROVE  /\ Minus(Times(py, L), Times(pz, len)) = Plus(Times(py, L), Times(pz, Opposite(len)))
         /\ Plus(Times(pz, L), Times(py, len)) = Minus(Times(pz, L), Times(py, Opposite(len)))
<1>. DEFINE f == <<L, len, py, pz>>
<1>1. f \in [1..4 -> Fraction] /\ 4 \in Nat
  OBVIOUS
<1>2. PICK D \in Nat \ {0}, num \in [1..4 -> Int] : \A i \in 1..4 : Val(f[i], num[i], D)
  <2>. HIDE DEF f
  <2>. QED  BY <1>1, Values
<1>. DEFINE L0 == num[1]
            len0 == num[2]
            py0 == num[3]
            pz0 == num[4]
            D2 == D * D
<1>3. /\ D \in Nat \ {0}
      /\ D2 \in Nat \ {0} /\ D2 = D * D
  BY Powers
<1>4. /\ L0 \in Int /\ Val(L, L0, D)
      /\ len0 \in Int /\ Val(len, len0, D)
      /\ py0 \in Int /\ Val(py, py0, D)
      /\ pz0 \in Int /\ Val(pz, pz0, D)
  BY <1>2
<1>. HIDE DEF f, L0, len0, py0, pz0, D2
<1>5. Val(Minus(Times(py, L), Times(pz, len)), ((py0 * L0) - (pz0 * len0)), D2)
  BY <1>3, <1>4, ValSum, ValTimes
<1>6. Val(Plus(Times(py, L), Times(pz, Opposite(len))), ((py0 * L0) + (pz0 * (0 - len0))), D2)
  BY <1>3, <1>4, ValNumbers, ValSum, ValTimes DEF Opposite
<1>7. ((py0 * L0) - (pz0 * len0)) = ((py0 * L0) + (pz0 * (0 - len0)))
  BY <1>3, <1>4
<1>8. Minus(Times(py, L), Times(pz, len)) = Plus(Times(py, L), Times(pz, Opposite(len)))
  BY <1>5, <1>6, <1>7, ValSame
<1>9. Val(Plus(Times(pz, L), Times(py, len)), ((pz0 * L0) + (py0 * len0)), D2)
  BY <1>3, <1>4, ValSum, ValTimes
<1>10. Val(Minus(Times(pz, L), Times(py, Opposite(len))), ((pz0 * L0) - (py0 * (0 - len0))), D2)
  BY <1>3, <1>4, ValNumbers, ValSum, ValTimes DEF Opposite
<1>11. ((pz0 * L0) + (py0 * len0)) = ((pz0 * L0) - (py0 * (0 - len0)))
  BY <1>3, <1>4
<1>12. Plus(Times(pz, L), Times(py, len)) = Minus(Times(pz, L), Times(py, Opposite(len)))
  BY <1>9, <1>10, <1>11, ValSame
<1>. QED  BY <1>8, <1>12

\* The thigh's angle, in its terms.
LEMMA ThighTerms ==
  ASSUME NEW x \in Fraction, NEW t \in Fraction, NEW c \in Fraction, NEW s \in Fraction
  PROVE  /\ Plus(Times(c, Opposite(t)), Times(s, x)) = Minus(Times(s, x), Times(t, c))
         /\ Minus(Times(c, x), Times(s, Opposite(t))) = Plus(Times(t, s), Times(x, c))
<1>. DEFINE f == <<x, t, c, s>>
<1>1. f \in [1..4 -> Fraction] /\ 4 \in Nat
  OBVIOUS
<1>2. PICK D \in Nat \ {0}, num \in [1..4 -> Int] : \A i \in 1..4 : Val(f[i], num[i], D)
  <2>. HIDE DEF f
  <2>. QED  BY <1>1, Values
<1>. DEFINE x0 == num[1]
            t0 == num[2]
            c0 == num[3]
            s0 == num[4]
            D2 == D * D
<1>3. /\ D \in Nat \ {0}
      /\ D2 \in Nat \ {0} /\ D2 = D * D
  BY Powers
<1>4. /\ x0 \in Int /\ Val(x, x0, D)
      /\ t0 \in Int /\ Val(t, t0, D)
      /\ c0 \in Int /\ Val(c, c0, D)
      /\ s0 \in Int /\ Val(s, s0, D)
  BY <1>2
<1>. HIDE DEF f, x0, t0, c0, s0, D2
<1>5. Val(Plus(Times(c, Opposite(t)), Times(s, x)), ((c0 * (0 - t0)) + (s0 * x0)), D2)
  BY <1>3, <1>4, ValNumbers, ValSum, ValTimes DEF Opposite
<1>6. Val(Minus(Times(s, x), Times(t, c)), ((s0 * x0) - (t0 * c0)), D2)
  BY <1>3, <1>4, ValSum, ValTimes
<1>7. ((c0 * (0 - t0)) + (s0 * x0)) = ((s0 * x0) - (t0 * c0))
  BY <1>3, <1>4
<1>8. Plus(Times(c, Opposite(t)), Times(s, x)) = Minus(Times(s, x), Times(t, c))
  BY <1>5, <1>6, <1>7, ValSame
<1>9. Val(Minus(Times(c, x), Times(s, Opposite(t))), ((c0 * x0) - (s0 * (0 - t0))), D2)
  BY <1>3, <1>4, ValNumbers, ValSum, ValTimes DEF Opposite
<1>10. Val(Plus(Times(t, s), Times(x, c)), ((t0 * s0) + (x0 * c0)), D2)
  BY <1>3, <1>4, ValSum, ValTimes
<1>11. ((c0 * x0) - (s0 * (0 - t0))) = ((t0 * s0) + (x0 * c0))
  BY <1>3, <1>4
<1>12. Minus(Times(c, x), Times(s, Opposite(t))) = Plus(Times(t, s), Times(x, c))
  BY <1>9, <1>10, <1>11, ValSame
<1>. QED  BY <1>8, <1>12

\* Sums of squares, rearranged.
LEMMA ReachTerms ==
  ASSUME NEW x \in Fraction, NEW y \in Fraction, NEW z \in Fraction, NEW A \in Fraction
  PROVE  Minus(Plus(Plus(Times(x, x), Times(y, y)), Times(z, z)), A)
           = Plus(Square(x), Minus(Plus(Square(y), Square(z)), A))
<1>. DEFINE f == <<x, y, z, A>>
<1>1. f \in [1..4 -> Fraction] /\ 4 \in Nat
  OBVIOUS
<1>2. PICK D \in Nat \ {0}, num \in [1..4 -> Int] : \A i \in 1..4 : Val(f[i], num[i], D)
  <2>. HIDE DEF f
  <2>. QED  BY <1>1, Values
<1>. DEFINE x0 == num[1]
            y0 == num[2]
            z0 == num[3]
            A0 == num[4]
            D2 == D * D
<1>3. /\ D \in Nat \ {0}
      /\ D2 \in Nat \ {0} /\ D2 = D * D
  BY Powers
<1>4. /\ x0 \in Int /\ Val(x, x0, D)
      /\ y0 \in Int /\ Val(y, y0, D)
      /\ z0 \in Int /\ Val(z, z0, D)
      /\ A0 \in Int /\ Val(A, A0, D)
  BY <1>2
<1>. HIDE DEF f, x0, y0, z0, A0, D2
<1>5. Val(Minus(Plus(Plus(Times(x, x), Times(y, y)), Times(z, z)), A),
        ((((x0 * x0) + (y0 * y0)) + (z0 * z0)) - (A0 * D)), D2)
  BY <1>3, <1>4, ValSum, ValTimes, ValWide
<1>6. Val(Plus(Square(x), Minus(Plus(Square(y), Square(z)), A)),
        ((x0 * x0) + (((y0 * y0) + (z0 * z0)) - (A0 * D))), D2)
  BY <1>3, <1>4, ValSum, ValTimes, ValWide DEF Square
<1>7. ((((x0 * x0) + (y0 * y0)) + (z0 * z0)) - (A0 * D))
        = ((x0 * x0) + (((y0 * y0) + (z0 * z0)) - (A0 * D)))
  BY <1>3, <1>4
<1>8. Minus(Plus(Plus(Times(x, x), Times(y, y)), Times(z, z)), A)
        = Plus(Square(x), Minus(Plus(Square(y), Square(z)), A))
  BY <1>5, <1>6, <1>7, ValSame
<1>. QED  BY <1>8

\* The foot is as far from the hip's axis as its plane says.
LEMMA HipNorm ==
  ASSUME NEW c \in Fraction, NEW s \in Fraction, NEW L \in Fraction, NEW t \in Fraction,
         Plus(Square(c), Square(s)) = One
  PROVE  /\ Plus(Square(Minus(Times(L, c), Times(s, t))), Square(Plus(Times(L, s), Times(c, t))))
              = Plus(Square(L), Square(t))
         /\ Minus(Times(Minus(Times(L, c), Times(s, t)), s),
              Times(Plus(Times(L, s), Times(c, t)), c)) = Opposite(t)
         /\ Minus(Plus(Square(Minus(Times(L, c), Times(s, t))),
              Square(Plus(Times(L, s), Times(c, t)))), Square(L)) = Square(t)
<1>. DEFINE f == <<c, s, L, t>>
<1>1. f \in [1..4 -> Fraction] /\ 4 \in Nat
  OBVIOUS
<1>2. PICK D \in Nat \ {0}, num \in [1..4 -> Int] : \A i \in 1..4 : Val(f[i], num[i], D)
  <2>. HIDE DEF f
  <2>. QED  BY <1>1, Values
<1>. DEFINE c0 == num[1]
            s0 == num[2]
            L0 == num[3]
            t0 == num[4]
            D2 == D * D
            D3 == D * D2
            D4 == D * D3
<1>3. /\ D \in Nat \ {0}
      /\ D2 \in Nat \ {0} /\ D2 = D * D
      /\ D3 \in Nat \ {0} /\ D3 = D * D2
      /\ D4 \in Nat \ {0} /\ D4 = D * D3
      /\ D2 * D = D3
      /\ D2 * D2 = D4
      /\ D3 * D = D4
  BY Powers
<1>4. /\ c0 \in Int /\ Val(c, c0, D)
      /\ s0 \in Int /\ Val(s, s0, D)
      /\ L0 \in Int /\ Val(L, L0, D)
      /\ t0 \in Int /\ Val(t, t0, D)
  BY <1>2
<1>. HIDE DEF f, c0, s0, L0, t0, D2, D3, D4
<1>5. Val(Plus(Square(c), Square(s)), ((c0 * c0) + (s0 * s0)), D2)
  BY <1>3, <1>4, ValSum, ValTimes DEF Square
<1>6. Val(One, D2, D2)
  BY <1>3, ValNumbers
<1>7. ((c0 * c0) + (s0 * s0)) = D2
  BY <1>5, <1>6, ValSame
<1>8. Val(Minus(Times(L, c), Times(s, t)), ((L0 * c0) - (s0 * t0)), D2)
  BY <1>3, <1>4, ValSum, ValTimes
<1>9. Val(Plus(Times(L, s), Times(c, t)), ((L0 * s0) + (c0 * t0)), D2)
  BY <1>3, <1>4, ValSum, ValTimes
<1>10. Val(Plus(Square(Minus(Times(L, c), Times(s, t))), Square(Plus(Times(L, s), Times(c, t)))),
         ((((L0 * c0) - (s0 * t0)) * ((L0 * c0) - (s0 * t0)))
           + (((L0 * s0) + (c0 * t0)) * ((L0 * s0) + (c0 * t0)))), D4)
  BY <1>3, <1>8, <1>9, ValSum, ValTimes DEF Square
<1>11. Val(Plus(Square(L), Square(t)), ((L0 * L0) + (t0 * t0)), D2)
  BY <1>3, <1>4, ValSum, ValTimes DEF Square
<1>12. Val(Plus(Square(L), Square(t)), (((L0 * L0) + (t0 * t0)) * D2), D4)
  BY <1>3, <1>11, ValWide
<1>13. ((((L0 * c0) - (s0 * t0)) * ((L0 * c0) - (s0 * t0)))
         + (((L0 * s0) + (c0 * t0)) * ((L0 * s0) + (c0 * t0)))) - (((L0 * L0) + (t0 * t0)) * D2)
           = ((((L0 * L0) + (t0 * t0))) * (((c0 * c0) + (s0 * s0)) - D2))
  BY <1>3, <1>4
<1>14. ((((L0 * c0) - (s0 * t0)) * ((L0 * c0) - (s0 * t0)))
         + (((L0 * s0) + (c0 * t0)) * ((L0 * s0) + (c0 * t0)))) = (((L0 * L0) + (t0 * t0)) * D2)
  BY <1>3, <1>4, <1>7, <1>13
<1>15. Plus(Square(Minus(Times(L, c), Times(s, t))), Square(Plus(Times(L, s), Times(c, t))))
         = Plus(Square(L), Square(t))
  BY <1>10, <1>12, <1>14, ValSame
<1>16. Val(Minus(Times(Minus(Times(L, c), Times(s, t)), s),
         Times(Plus(Times(L, s), Times(c, t)), c)),
           ((((L0 * c0) - (s0 * t0)) * s0) - (((L0 * s0) + (c0 * t0)) * c0)), D3)
  BY <1>3, <1>4, <1>8, <1>9, ValSum, ValTimes
<1>17. Val(Opposite(t), ((0 - t0) * D2), D3)
  BY <1>3, <1>4, ValNumbers, ValSum, ValWide DEF Opposite
<1>18. ((((L0 * c0) - (s0 * t0)) * s0) - (((L0 * s0) + (c0 * t0)) * c0)) - ((0 - t0) * D2)
         = ((-t0) * (((c0 * c0) + (s0 * s0)) - D2))
  BY <1>3, <1>4
<1>19. ((((L0 * c0) - (s0 * t0)) * s0) - (((L0 * s0) + (c0 * t0)) * c0)) = ((0 - t0) * D2)
  BY <1>3, <1>4, <1>7, <1>18
<1>20. Minus(Times(Minus(Times(L, c), Times(s, t)), s), Times(Plus(Times(L, s), Times(c, t)), c))
         = Opposite(t)
  BY <1>16, <1>17, <1>19, ValSame
<1>21. Val(Minus(Plus(Square(Minus(Times(L, c), Times(s, t))),
         Square(Plus(Times(L, s), Times(c, t)))), Square(L)),
           (((((L0 * c0) - (s0 * t0)) * ((L0 * c0) - (s0 * t0)))
             + (((L0 * s0) + (c0 * t0)) * ((L0 * s0) + (c0 * t0)))) - ((L0 * L0) * D2)), D4)
  BY <1>3, <1>4, <1>10, ValSum, ValTimes, ValWide, ZenonT(60) DEF Square
<1>22. Val(Square(t), ((t0 * t0) * D2), D4)
  BY <1>3, <1>4, ValTimes, ValWide DEF Square
<1>23. (((((L0 * c0) - (s0 * t0)) * ((L0 * c0) - (s0 * t0)))
         + (((L0 * s0) + (c0 * t0)) * ((L0 * s0) + (c0 * t0)))) - ((L0 * L0) * D2))
           - ((t0 * t0) * D2) = ((((L0 * L0) + (t0 * t0))) * (((c0 * c0) + (s0 * s0)) - D2))
  BY <1>3, <1>4
<1>24. (((((L0 * c0) - (s0 * t0)) * ((L0 * c0) - (s0 * t0)))
         + (((L0 * s0) + (c0 * t0)) * ((L0 * s0) + (c0 * t0)))) - ((L0 * L0) * D2))
           = ((t0 * t0) * D2)
  BY <1>3, <1>4, <1>7, <1>23
<1>25. Minus(Plus(Square(Minus(Times(L, c), Times(s, t))),
         Square(Plus(Times(L, s), Times(c, t)))), Square(L)) = Square(t)
  BY <1>21, <1>22, <1>24, ValSame
<1>. QED  BY <1>15, <1>20, <1>25

\* Cosines are between -1 and 1.
LEMMA CosineBound ==
  ASSUME NEW a \in Angles
  PROVE  ~Less(One, a.c) /\ ~Less(a.c, <<-1, 1>>)
<1>1. a.c \in Fraction /\ a.s \in Fraction /\ Plus(Square(a.c), Square(a.s)) = One
      /\ Numbers(<<a.c, a.s>>)
  BY AngleParts DEF Numbers
<1>. DEFINE f == <<a.c, a.s>>
<1>2. f \in [1..2 -> Fraction] /\ 2 \in Nat
  BY <1>1
<1>3. PICK D \in Nat \ {0}, n \in [1..2 -> Int] : \A i \in 1..2 : Val(f[i], n[i], D)
  <2>. HIDE DEF f
  <2>. QED  BY <1>2, Values
<1>. DEFINE x == n[1]
            y == n[2]
<1>4. x \in Int /\ y \in Int /\ Val(a.c, x, D) /\ Val(a.s, y, D) /\ Val(One, D, D)
  BY <1>3, ValNumbers
<1>5. Val(<<-1, 1>>, -D, D)
  <2>1. Val(<<-1, 1>>, -1, 1)
    BY WholeIs DEF Val
  <2>2. Val(<<-1, 1>>, (-1) * D, 1 * D)
    BY <2>1, ValWide
  <2>. QED  BY <2>2
<1>6. (x * x) + (y * y) = D * D
  <2>1. Val(Square(a.c), x * x, D * D) /\ Val(Square(a.s), y * y, D * D) /\ D * D \in Nat \ {0}
    BY <1>4, ValTimes, Factors DEF Square
  <2>2. Val(One, (x * x) + (y * y), D * D)
    BY <1>1, <2>1, ValSum
  <2>. QED  BY <2>1, <2>2, ValNumbers, ValSame
<1>. HIDE DEF x, y
<1>7. y * y >= 0
  BY <1>4
<1>8. ~(D < x)
  <2>1. SUFFICES ASSUME D < x PROVE FALSE
    OBVIOUS
  <2>2. x * x > D * D
    BY <1>4, <2>1
  <2>. QED  BY <1>4, <1>6, <1>7, <2>2
<1>9. ~(x < -D)
  <2>1. SUFFICES ASSUME x < -D PROVE FALSE
    OBVIOUS
  <2>2. x * x > D * D
    <3>. DEFINE z == -x
    <3>1. z \in Int /\ z > D /\ z * z = x * x
      BY <1>4, <2>1
    <3>. HIDE DEF z
    <3>2. z * z > D * D
      BY <3>1
    <3>. QED  BY <3>1, <3>2
  <2>. QED  BY <1>4, <1>6, <1>7, <2>2
<1>10. (Less(One, a.c) <=> D < x) /\ (Less(a.c, <<-1, 1>>) <=> x < -D)
  BY <1>4, <1>5, SumOver DEF Val
<1>. QED  BY <1>8, <1>9, <1>10

\* What a knee's angle makes the shank span across the thigh.
Span1(a) == Times(l3, a.s)

\* What it spans along the thigh.
Span2(a) == Plus(l2, Times(l3, a.c))

\* The law of cosines, without its quotient.
LEMMA KneeRatio ==
  ASSUME NEW b \in Fraction
  PROVE  /\ l2 \in Fraction /\ l3 = l2 /\ Negative(l2) /\ KneeCosine(b) \in Fraction
         /\ Plus(Times(l2, l2), Times(l2, l2)) \in Fraction
         /\ Positive(Plus(Times(l2, l2), Times(l2, l2)))
         /\ Times(Plus(Times(l2, l2), Times(l2, l2)), KneeCosine(b))
              = Minus(Plus(Times(l2, l2), Times(l2, l2)), b)
<1>. DEFINE k == l2
            d == Plus(Times(k, k), Times(k, k))
<1>1. k \in Fraction /\ l3 = k /\ l2 = k /\ Negative(k) /\ Times(k, k) \in Fraction
      /\ Positive(Times(k, k))
  <2>1. k \in Fraction /\ l3 = k /\ k # Zero /\ Negative(k)
    BY LinksAre, Neutral
  <2>. QED  BY <2>1, Closed, SignLaws
<1>. HIDE DEF k
<1>2. d \in Fraction /\ d # Zero /\ Positive(d)
  BY <1>1, Closed, SignLaws
<1>3. Times(<<2, 1>>, Times(l2, l3)) = d
  BY <1>1, Quotients, Closed, Neutral
<1>4. KneeCosine(b) = Over(Minus(d, b), d)
  BY <1>1, <1>3 DEF KneeCosine, Square
<1>. HIDE DEF d
<1>5. Minus(d, b) \in Fraction /\ KneeCosine(b) \in Fraction /\ Times(d, KneeCosine(b))
        = Minus(d, b)
  BY <1>2, <1>4, OverIs, Closed
<1>. QED  BY <1>1, <1>2, <1>5 DEF d, k

\* The knee's cosine is that of the triangle of thigh, shank and span.
LEMMA KneeCosineIs ==
  /\ \A b \in Fraction : KneeCosine(b) \in Fraction
  /\ \A a \in Angles : /\ Span1(a) \in Fraction /\ Span2(a) \in Fraction
                       /\ KneeCosine(Plus(Square(Span1(a)), Square(Span2(a)))) = Opposite(a.c)
                       /\ \A b \in Fraction : a.c = Opposite(KneeCosine(b))
                            => Plus(Square(Span1(a)), Square(Span2(a))) = b
<1>. DEFINE k == l2
            d == Plus(Times(k, k), Times(k, k))
<1>1. k \in Fraction /\ l3 = k /\ l2 = k /\ Times(k, k) \in Fraction /\ Positive(Times(k, k))
  <2>1. k \in Fraction /\ l3 = k /\ k # Zero
    BY LinksAre, Neutral
  <2>. QED  BY <2>1, Closed, SignLaws
<1>. HIDE DEF k
<1>2. d \in Fraction /\ d # Zero
  BY <1>1, Closed, SignLaws
<1>3. Times(<<2, 1>>, Times(l2, l3)) = d
  BY <1>1, Quotients, Closed, Neutral
<1>4. \A b : KneeCosine(b) = Over(Minus(d, b), d)
  BY <1>1, <1>3 DEF KneeCosine, Square
<1>. HIDE DEF d
<1>5. \A b \in Fraction : /\ Minus(d, b) \in Fraction /\ KneeCosine(b) \in Fraction
                         /\ Times(d, KneeCosine(b)) = Minus(d, b)
                         /\ \A x \in Fraction : Times(d, x) = Minus(d, b) => x = KneeCosine(b)
  BY <1>2, <1>4, OverIs, Closed
<1>6. ASSUME NEW a \in Angles
      PROVE  /\ Span1(a) \in Fraction /\ Span2(a) \in Fraction
             /\ KneeCosine(Plus(Square(Span1(a)), Square(Span2(a)))) = Opposite(a.c)
             /\ \A b \in Fraction : a.c = Opposite(KneeCosine(b))
                  => Plus(Square(Span1(a)), Square(Span2(a))) = b
  <2>. DEFINE n == Plus(Square(Span1(a)), Square(Span2(a)))
              o == Opposite(a.c)
  <2>1. a.c \in Fraction /\ a.s \in Fraction /\ Plus(Square(a.c), Square(a.s)) = One
        /\ o \in Fraction
    BY AngleParts, MoreClosed
  <2>2. Span1(a) = Times(k, a.s) /\ Span2(a) = Plus(k, Times(k, a.c))
    BY <1>1 DEF Span1, Span2
  <2>3. Span1(a) \in Fraction /\ Span2(a) \in Fraction
    BY <1>1, <2>1, <2>2, Closed
  <2>4. n \in Fraction
    BY <2>3, SquaresNull
  <2>5. n = Minus(d, Times(d, o))
    BY <1>1, <2>1, <2>2, KneeSpan DEF d
  <2>. HIDE DEF n
  <2>6. Times(d, o) = Minus(d, n)
    <3>1. Times(d, o) \in Fraction
      BY <1>2, <2>1, Closed
    <3>. QED  BY <1>2, <2>5, <3>1, Taken
  <2>7. o = KneeCosine(n)
    BY <1>5, <2>1, <2>4, <2>6
  <2>8. ASSUME NEW b \in Fraction, a.c = Opposite(KneeCosine(b))
        PROVE  n = b
    <3>1. o = KneeCosine(b)
      BY <1>5, <2>8, Twice DEF Opposite
    <3>2. Minus(d, n) = Minus(d, b)
      BY <1>5, <2>6, <3>1
    <3>. QED  BY <1>2, <2>4, <3>2, Taken
  <2>. QED  BY <2>3, <2>7, <2>8 DEF n
<1>. QED  BY <1>5, <1>6

-----------------------------------------------------------------------------
(* The angles of hip, thigh and knee. *)

\* The hip's angle that q1_ik gives brings the foot's plane to the foot, and no other does.
LEMMA HipAngle ==
  ASSUME NEW leg \in Legs, NEW py \in Fraction, NEW pz \in Fraction, NEW len \in Fraction,
               ~Negative(len),
         Square(len) = UnderRoot(py, pz, l1(leg))
  PROVE  /\ q1_ik(py, pz, l1(leg)) \in Angles
         /\ Minus(Times(l1(leg), q1_ik(py, pz, l1(leg)).c),
              Times(q1_ik(py, pz, l1(leg)).s, Opposite(len))) = py
         /\ Plus(Times(l1(leg), q1_ik(py, pz, l1(leg)).s),
              Times(q1_ik(py, pz, l1(leg)).c, Opposite(len))) = pz
         /\ \A b \in Angles : /\ Minus(Times(l1(leg), b.c), Times(b.s, Opposite(len))) = py
                              /\ Plus(Times(l1(leg), b.s), Times(b.c, Opposite(len))) = pz
                              => b = q1_ik(py, pz, l1(leg))
<1>. DEFINE L == l1(leg)
            v == Opposite(len)
            y == Plus(Times(pz, L), Times(py, len))
            x == Minus(Times(py, L), Times(pz, len))
            a == q1_ik(py, pz, L)
<1>1. L \in Fraction /\ v \in Fraction /\ Positive(Square(L)) /\ Square(L) \in Fraction
  BY LinksAre, MoreClosed
<1>2. a = atan2(y, x)
  BY RootOfSquare DEF q1_ik
<1>3. x = Plus(Times(py, L), Times(pz, v)) /\ y = Minus(Times(pz, L), Times(py, v))
  BY <1>1, HipTerms
<1>4. Plus(Square(L), Square(v)) = Plus(Square(py), Square(pz)) /\ Plus(Square(L), Square(v))
        # Zero
  <2>1. Square(v) = Square(len) /\ Square(len) \in Fraction
    BY SquareOpposite, MoreClosed
  <2>2. Plus(Square(py), Square(pz)) \in Fraction
    BY SquaresNull
  <2>3. Plus(Square(L), Minus(Plus(Square(py), Square(pz)), Square(L)))
          = Plus(Square(py), Square(pz))
    <3>1. Minus(Plus(Square(py), Square(pz)), Square(L)) \in Fraction
      BY <1>1, <2>2, Closed
    <3>2. Plus(Minus(Plus(Square(py), Square(pz)), Square(L)), Square(L))
            = Plus(Square(py), Square(pz))
      BY <1>1, <2>2, Taken, Closed
    <3>. QED  BY <1>1, <3>1, <3>2, PlusLaws, Closed
  <2>4. Plus(Square(L), Square(v)) # Zero
    BY <1>1, SquaresNull, Neutral, Closed DEF Square
  <2>. QED  BY <2>1, <2>3, <2>4 DEF UnderRoot
<1>. HIDE DEF L, v, x, y
<1>5. /\ a \in Angles /\ Minus(Times(a.c, L), Times(a.s, v)) = py
      /\ Plus(Times(a.s, L), Times(a.c, v)) = pz
      /\ \A b \in Angles : /\ Minus(Times(b.c, L), Times(b.s, v)) = py
                           /\ Plus(Times(b.s, L), Times(b.c, v)) = pz
                           => b = a
  BY <1>1, <1>2, <1>3, <1>4, TurnsTo
<1>6. \A b \in Angles : Times(b.c, L) = Times(L, b.c) /\ Times(b.s, L) = Times(L, b.s)
  BY <1>1, AngleParts, TimesLaws, Closed
<1>. HIDE DEF a
<1>. QED  BY <1>5, <1>6 DEF a, L, v

\* Where the foot is in the leg's plane, by the angle of the thigh.
LEMMA SpansAre ==
  ASSUME NEW a1, NEW b \in Angles, NEW a3 \in Angles
  PROVE  /\ Down(<<a1, b, a3>>) = Minus(Times(b.c, Span2(a3)), Times(b.s, Span1(a3)))
         /\ Fore(<<a1, b, a3>>) = Plus(Times(b.s, Span2(a3)), Times(b.c, Span1(a3)))
<1>. DEFINE q == <<a1, b, a3>>
<1>1. /\ b.c \in Fraction /\ b.s \in Fraction /\ a3.c \in Fraction /\ a3.s \in Fraction
      /\ l3 \in Fraction /\ l2 = l3
  BY AngleParts, LinksAre
<1>2. /\ Sum23(q).c = Minus(Times(b.c, a3.c), Times(b.s, a3.s))
      /\ Sum23(q).s = Plus(Times(b.s, a3.c), Times(b.c, a3.s))
  BY DEF Sum23, Angle
<1>3. /\ Down(q) = Plus(Times(l3, Minus(Times(b.c, a3.c), Times(b.s, a3.s))), Times(l3, b.c))
      /\ Fore(q) = Plus(Times(l3, Plus(Times(b.s, a3.c), Times(b.c, a3.s))), Times(l3, b.s))
  BY <1>1, <1>2 DEF Down, Fore
<1>4. Numbers(<<b.c, b.s, a3.c, a3.s, l3>>)
  BY <1>1 DEF Numbers
<1>5. Span1(a3) = Times(l3, a3.s) /\ Span2(a3) = Plus(l3, Times(l3, a3.c))
  BY <1>1 DEF Span1, Span2
<1>. QED  BY <1>3, <1>4, <1>5, SpanIs

\* The foot's plane, turned by the hip.
Swung(leg, a, down, y, z) ==
  /\ y = Minus(Times(l1(leg), a.c), Times(a.s, down))
  /\ z = Plus(Times(l1(leg), a.s), Times(a.c, down))

\* With the hip at a1 and the knee at a3, the thigh's angle a2 brings the foot down and
\* forward as asked, and no other angle does.
ThighFits(a2, a1, a3, down, px) ==
  /\ a2 \in Angles /\ Down(<<a1, a2, a3>>) = down /\ Fore(<<a1, a2, a3>>) = px
  /\ \A b \in Angles : down # Zero /\ Down(<<a1, b, a3>>) = down /\ Fore(<<a1, b, a3>>) = px
       => b = a2

\* The thigh's angle that q2_ik gives brings a foot of the right span to its place, and no
\* other does.
LEMMA ThighAngle ==
  ASSUME NEW leg \in Legs, NEW a1 \in Angles, NEW a3 \in Angles, NEW px \in Fraction,
               NEW down \in Fraction,
         NEW py, NEW pz, Swung(leg, a1, down, py, pz),
         Plus(Square(Span2(a3)), Square(Span1(a3))) = Plus(Square(down), Square(px))
  PROVE  ThighFits(q2_ik(a1, a3, px, py, pz), a1, a3, down, px)
<1>. DEFINE a == Minus(Times(py, a1.s), Times(pz, a1.c))
            u == Span2(a3)
            v == Span1(a3)
            y == Plus(Times(v, a), Times(u, px))
            x == Minus(Times(v, px), Times(u, a))
            a2 == q2_ik(a1, a3, px, py, pz)
<1>1. u \in Fraction /\ v \in Fraction /\ a1.c \in Fraction /\ a1.s \in Fraction
      /\ l1(leg) \in Fraction
      /\ Plus(Square(a1.c), Square(a1.s)) = One
  BY KneeCosineIs, AngleParts, LinksAre
<1>2. a = Opposite(down)
  BY <1>1, HipNorm DEF Swung
<1>3. a2 = atan2(y, x)
  BY DEF q2_ik, Span1, Span2
<1>. HIDE DEF a, u, v, a2
<1>4. x = Plus(Times(down, u), Times(px, v)) /\ y = Minus(Times(px, u), Times(down, v))
  <2>1. x = Plus(Times(px, v), Times(down, u)) /\ y = Minus(Times(px, u), Times(down, v))
    <3>1. Plus(Times(v, Opposite(down)), Times(u, px)) = Minus(Times(u, px), Times(down, v))
          /\ Minus(Times(v, px), Times(u, Opposite(down))) = Plus(Times(down, u), Times(px, v))
      BY <1>1, ThighTerms
    <3>2. Times(u, px) = Times(px, u) /\ Times(down, u) \in Fraction /\ Times(px, v) \in Fraction
      BY <1>1, TimesLaws, Closed
    <3>. QED  BY <1>2, <3>1, <3>2, PlusLaws, Closed
  <2>2. Times(down, u) \in Fraction /\ Times(px, v) \in Fraction
    BY <1>1, Closed
  <2>. QED  BY <2>1, <2>2, PlusLaws, Closed
<1>5. Plus(Square(u), Square(v)) = Plus(Square(down), Square(px))
  BY DEF u, v
<1>. HIDE DEF x, y
<1>6. /\ a2 \in Angles /\ Minus(Times(a2.c, u), Times(a2.s, v)) = down
      /\ Plus(Times(a2.s, u), Times(a2.c, v)) = px
      /\ \A d \in Angles : /\ Plus(Square(u), Square(v)) # Zero
                           /\ Minus(Times(d.c, u), Times(d.s, v)) = down
                           /\ Plus(Times(d.s, u), Times(d.c, v)) = px
                           => d = a2
  <2>. DEFINE z == atan2(y, x)
  <2>1. u \in Fraction /\ v \in Fraction /\ down \in Fraction /\ px \in Fraction
    BY <1>1
  <2>2. /\ z \in Angles /\ Minus(Times(z.c, u), Times(z.s, v)) = down
        /\ Plus(Times(z.s, u), Times(z.c, v)) = px
        /\ \A d \in Angles : /\ Plus(Square(u), Square(v)) # Zero
                             /\ Minus(Times(d.c, u), Times(d.s, v)) = down
                             /\ Plus(Times(d.s, u), Times(d.c, v)) = px
                             => d = z
    BY ONLY <2>1, <1>4, <1>5, TurnsTo
  <2>. QED  BY <1>3, <2>2
<1>7. \A d \in Angles : /\ Down(<<a1, d, a3>>) = Minus(Times(d.c, u), Times(d.s, v))
                         /\ Fore(<<a1, d, a3>>) = Plus(Times(d.s, u), Times(d.c, v))
  BY SpansAre DEF u, v
<1>8. down # Zero => Plus(Square(u), Square(v)) # Zero
  BY <1>5, SquaresNull
<1>. QED  BY <1>6, <1>7, <1>8 DEF a2, ThighFits

-----------------------------------------------------------------------------
(* What a stretched leg reaches. *)

\* What a cosine beyond one says of the reach.
LEMMA KneeTooBent ==
  ASSUME NEW d \in Fraction, NEW t \in Fraction, NEW b \in Fraction,
         Times(d, t) = Minus(d, b)
  PROVE  /\ Times(d, Minus(t, One)) = Opposite(b)
         /\ Times(d, Minus(Opposite(One), t)) = Minus(b, Plus(d, d))
<1>. DEFINE f == <<d, t, b>>
<1>1. f \in [1..3 -> Fraction] /\ 3 \in Nat
  OBVIOUS
<1>2. PICK D \in Nat \ {0}, num \in [1..3 -> Int] : \A i \in 1..3 : Val(f[i], num[i], D)
  <2>. HIDE DEF f
  <2>. QED  BY <1>1, Values
<1>. DEFINE d0 == num[1]
            t0 == num[2]
            b0 == num[3]
            D2 == D * D
<1>3. /\ D \in Nat \ {0}
      /\ D2 \in Nat \ {0} /\ D2 = D * D
  BY Powers
<1>4. /\ d0 \in Int /\ Val(d, d0, D)
      /\ t0 \in Int /\ Val(t, t0, D)
      /\ b0 \in Int /\ Val(b, b0, D)
  BY <1>2
<1>. HIDE DEF f, d0, t0, b0, D2
<1>5. Val(Times(d, t), (d0 * t0), D2)
  BY <1>3, <1>4, ValTimes
<1>6. Val(Minus(d, b), ((d0 - b0) * D), D2)
  BY <1>3, <1>4, ValSum, ValWide
<1>7. (d0 * t0) = ((d0 - b0) * D)
  BY <1>5, <1>6, ValSame
<1>8. Val(Times(d, Minus(t, One)), (d0 * (t0 - D)), D2)
  BY <1>3, <1>4, ValNumbers, ValSum, ValTimes
<1>9. Val(Opposite(b), ((0 - b0) * D), D2)
  BY <1>3, <1>4, ValNumbers, ValSum, ValWide DEF Opposite
<1>10. (d0 * (t0 - D)) - ((0 - b0) * D) = ((1) * ((d0 * t0) - ((d0 - b0) * D)))
  BY <1>3, <1>4
<1>11. (d0 * (t0 - D)) = ((0 - b0) * D)
  BY <1>3, <1>4, <1>7, <1>10
<1>12. Times(d, Minus(t, One)) = Opposite(b)
  BY <1>8, <1>9, <1>11, ValSame
<1>13. Val(Times(d, Minus(Opposite(One), t)), (d0 * ((0 - D) - t0)), D2)
  BY <1>3, <1>4, ValNumbers, ValSum, ValTimes DEF Opposite
<1>14. Val(Minus(b, Plus(d, d)), ((b0 - (d0 + d0)) * D), D2)
  BY <1>3, <1>4, ValSum, ValWide
<1>15. (d0 * ((0 - D) - t0)) - ((b0 - (d0 + d0)) * D) = ((-1) * ((d0 * t0) - ((d0 - b0) * D)))
  BY <1>3, <1>4
<1>16. (d0 * ((0 - D) - t0)) = ((b0 - (d0 + d0)) * D)
  BY <1>3, <1>4, <1>7, <1>15
<1>17. Times(d, Minus(Opposite(One), t)) = Minus(b, Plus(d, d))
  BY <1>13, <1>14, <1>16, ValSame
<1>. QED  BY <1>12, <1>17

\* The vector of a stretched leg.
LEMMA StretchTerms ==
  ASSUME NEW m \in Fraction, NEW x \in Fraction, NEW y \in Fraction, NEW n \in Fraction
  PROVE  /\ Square(Times(Opposite(m), n)) = Times(Square(m), Square(n))
         /\ Plus(Square(Times(m, x)), Square(Times(m, y)))
              = Times(Square(m), Plus(Square(x), Square(y)))
<1>. DEFINE f == <<m, x, y, n>>
<1>1. f \in [1..4 -> Fraction] /\ 4 \in Nat
  OBVIOUS
<1>2. PICK D \in Nat \ {0}, num \in [1..4 -> Int] : \A i \in 1..4 : Val(f[i], num[i], D)
  <2>. HIDE DEF f
  <2>. QED  BY <1>1, Values
<1>. DEFINE m0 == num[1]
            x0 == num[2]
            y0 == num[3]
            n0 == num[4]
            D2 == D * D
            D3 == D * D2
            D4 == D * D3
<1>3. /\ D \in Nat \ {0}
      /\ D2 \in Nat \ {0} /\ D2 = D * D
      /\ D3 \in Nat \ {0} /\ D3 = D * D2
      /\ D4 \in Nat \ {0} /\ D4 = D * D3
      /\ D2 * D = D3
      /\ D2 * D2 = D4
      /\ D3 * D = D4
  BY Powers
<1>4. /\ m0 \in Int /\ Val(m, m0, D)
      /\ x0 \in Int /\ Val(x, x0, D)
      /\ y0 \in Int /\ Val(y, y0, D)
      /\ n0 \in Int /\ Val(n, n0, D)
  BY <1>2
<1>. HIDE DEF f, m0, x0, y0, n0, D2, D3, D4
<1>5. Val(Times(Opposite(m), n), ((0 - m0) * n0), D2)
  BY <1>3, <1>4, ValNumbers, ValSum, ValTimes DEF Opposite
<1>6. Val(Times(Square(m), Square(n)), ((m0 * m0) * (n0 * n0)), D4)
  BY <1>3, <1>4, ValTimes, ZenonT(60) DEF Square
<1>7. Val(Square(Times(Opposite(m), n)), (((0 - m0) * n0) * ((0 - m0) * n0)), D4)
  BY <1>3, <1>5, ValTimes DEF Square
<1>8. (((0 - m0) * n0) * ((0 - m0) * n0)) = ((m0 * m0) * (n0 * n0))
  BY <1>3, <1>4
<1>9. Square(Times(Opposite(m), n)) = Times(Square(m), Square(n))
  BY <1>6, <1>7, <1>8, ValSame
<1>10. Val(Plus(Square(Times(m, x)), Square(Times(m, y))),
         (((m0 * x0) * (m0 * x0)) + ((m0 * y0) * (m0 * y0))), D4)
  BY <1>3, <1>4, ValSum, ValTimes DEF Square
<1>11. Val(Plus(Square(x), Square(y)), ((x0 * x0) + (y0 * y0)), D2)
  BY <1>3, <1>4, ValSum, ValTimes DEF Square
<1>12. Val(Times(Square(m), Plus(Square(x), Square(y))), ((m0 * m0) * ((x0 * x0) + (y0 * y0))),
         D4)
  BY <1>3, <1>4, <1>11, ValTimes DEF Square
<1>13. (((m0 * x0) * (m0 * x0)) + ((m0 * y0) * (m0 * y0))) = ((m0 * m0) * ((x0 * x0) + (y0 * y0)))
  BY <1>3, <1>4
<1>14. Plus(Square(Times(m, x)), Square(Times(m, y)))
         = Times(Square(m), Plus(Square(x), Square(y)))
  BY <1>10, <1>12, <1>13, ValSame
<1>. QED  BY <1>9, <1>14

\* The reach of a stretched leg in proportion.
LEMMA StretchRatio ==
  ASSUME NEW m, NEW n, NEW c, NEW x, NEW r,
         Numbers(<<m, n, c, x, r>>),
         Times(n, c) = Opposite(x),
         Times(n, r) = Opposite(m)
  PROVE  Times(n, Times(c, m)) = Times(n, Times(r, x))
<1>. DEFINE f == <<m, n, c, x, r>>
<1>1. f \in [1..5 -> Fraction] /\ 5 \in Nat
  BY DEF Numbers
<1>2. PICK D \in Nat \ {0}, num \in [1..5 -> Int] : \A i \in 1..5 : Val(f[i], num[i], D)
  <2>. HIDE DEF f
  <2>. QED  BY <1>1, Values
<1>. DEFINE m0 == num[1]
            n0 == num[2]
            c0 == num[3]
            x0 == num[4]
            r0 == num[5]
            D2 == D * D
            D3 == D * D2
<1>3. /\ D \in Nat \ {0}
      /\ D2 \in Nat \ {0} /\ D2 = D * D
      /\ D3 \in Nat \ {0} /\ D3 = D * D2
      /\ D2 * D = D3
  BY Powers
<1>4. /\ m0 \in Int /\ Val(m, m0, D)
      /\ n0 \in Int /\ Val(n, n0, D)
      /\ c0 \in Int /\ Val(c, c0, D)
      /\ x0 \in Int /\ Val(x, x0, D)
      /\ r0 \in Int /\ Val(r, r0, D)
  BY <1>2
<1>. HIDE DEF f, m0, n0, c0, x0, r0, D2, D3
<1>5. Val(Times(n, c), (n0 * c0), D2)
  BY <1>3, <1>4, ValTimes
<1>6. Val(Opposite(x), ((0 - x0) * D), D2)
  BY <1>3, <1>4, ValNumbers, ValSum, ValWide DEF Opposite
<1>7. (n0 * c0) = ((0 - x0) * D)
  BY <1>5, <1>6, ValSame
<1>8. Val(Times(n, r), (n0 * r0), D2)
  BY <1>3, <1>4, ValTimes
<1>9. Val(Opposite(m), ((0 - m0) * D), D2)
  BY <1>3, <1>4, ValNumbers, ValSum, ValWide DEF Opposite
<1>10. (n0 * r0) = ((0 - m0) * D)
  BY <1>8, <1>9, ValSame
<1>11. Val(Times(n, Times(c, m)), (n0 * (c0 * m0)), D3)
  BY <1>3, <1>4, ValTimes
<1>12. Val(Times(n, Times(r, x)), (n0 * (r0 * x0)), D3)
  BY <1>3, <1>4, ValTimes
<1>13. (n0 * (c0 * m0)) - (n0 * (r0 * x0)) = ((m0) * ((n0 * c0) - ((0 - x0) * D)))
         + ((-x0) * ((n0 * r0) - ((0 - m0) * D)))
  BY <1>3, <1>4
<1>14. (n0 * (c0 * m0)) = (n0 * (r0 * x0))
  BY <1>3, <1>4, <1>7, <1>10, <1>13
<1>15. Times(n, Times(c, m)) = Times(n, Times(r, x))
  BY <1>11, <1>12, <1>14, ValSame
<1>. QED  BY <1>15

\* Its length.
LEMMA StretchLong ==
  ASSUME NEW k \in Fraction
  PROVE  Square(Opposite(Plus(k, k)))
           = Plus(Plus(Times(k, k), Times(k, k)), Plus(Times(k, k), Times(k, k)))
<1>. DEFINE f == <<k>>
<1>1. f \in [1..1 -> Fraction] /\ 1 \in Nat
  OBVIOUS
<1>2. PICK D \in Nat \ {0}, num \in [1..1 -> Int] : \A i \in 1..1 : Val(f[i], num[i], D)
  <2>. HIDE DEF f
  <2>. QED  BY <1>1, Values
<1>. DEFINE k0 == num[1]
            D2 == D * D
<1>3. /\ D \in Nat \ {0}
      /\ D2 \in Nat \ {0} /\ D2 = D * D
  BY Powers
<1>4. /\ k0 \in Int /\ Val(k, k0, D)
  BY <1>2
<1>. HIDE DEF f, k0, D2
<1>5. Val(Plus(Plus(Times(k, k), Times(k, k)), Plus(Times(k, k), Times(k, k))),
        (((k0 * k0) + (k0 * k0)) + ((k0 * k0) + (k0 * k0))), D2)
  BY <1>3, <1>4, ValSum, ValTimes
<1>6. Val(Square(Opposite(Plus(k, k))), ((0 - (k0 + k0)) * (0 - (k0 + k0))), D2)
  BY <1>3, <1>4, ValNumbers, ValSum, ValTimes DEF Opposite, Square
<1>7. ((0 - (k0 + k0)) * (0 - (k0 + k0))) = (((k0 * k0) + (k0 * k0)) + ((k0 * k0) + (k0 * k0)))
  BY <1>3, <1>4
<1>8. Square(Opposite(Plus(k, k)))
        = Plus(Plus(Times(k, k), Times(k, k)), Plus(Times(k, k), Times(k, k)))
  BY <1>5, <1>6, <1>7, ValSame
<1>. QED  BY <1>8

\* A turn keeps the span.
LEMMA SpanNorm ==
  ASSUME NEW c \in Fraction, NEW s \in Fraction, NEW u \in Fraction, NEW v \in Fraction,
         Plus(Square(c), Square(s)) = One
  PROVE  Plus(Square(u), Square(v))
           = Plus(Square(Minus(Times(c, u), Times(s, v))), Square(Plus(Times(s, u), Times(c, v))))
<1>. DEFINE f == <<c, s, u, v>>
<1>1. f \in [1..4 -> Fraction] /\ 4 \in Nat
  OBVIOUS
<1>2. PICK D \in Nat \ {0}, num \in [1..4 -> Int] : \A i \in 1..4 : Val(f[i], num[i], D)
  <2>. HIDE DEF f
  <2>. QED  BY <1>1, Values
<1>. DEFINE c0 == num[1]
            s0 == num[2]
            u0 == num[3]
            v0 == num[4]
            D2 == D * D
            D3 == D * D2
            D4 == D * D3
<1>3. /\ D \in Nat \ {0}
      /\ D2 \in Nat \ {0} /\ D2 = D * D
      /\ D3 \in Nat \ {0} /\ D3 = D * D2
      /\ D4 \in Nat \ {0} /\ D4 = D * D3
      /\ D2 * D = D3
      /\ D2 * D2 = D4
      /\ D3 * D = D4
  BY Powers
<1>4. /\ c0 \in Int /\ Val(c, c0, D)
      /\ s0 \in Int /\ Val(s, s0, D)
      /\ u0 \in Int /\ Val(u, u0, D)
      /\ v0 \in Int /\ Val(v, v0, D)
  BY <1>2
<1>. HIDE DEF f, c0, s0, u0, v0, D2, D3, D4
<1>5. Val(Plus(Square(c), Square(s)), ((c0 * c0) + (s0 * s0)), D2)
  BY <1>3, <1>4, ValSum, ValTimes DEF Square
<1>6. Val(One, D2, D2)
  BY <1>3, ValNumbers
<1>7. ((c0 * c0) + (s0 * s0)) = D2
  BY <1>5, <1>6, ValSame
<1>8. Val(Plus(Square(u), Square(v)), ((u0 * u0) + (v0 * v0)), D2)
  BY <1>3, <1>4, ValSum, ValTimes DEF Square
<1>9. Val(Minus(Times(c, u), Times(s, v)), ((c0 * u0) - (s0 * v0)), D2)
  BY <1>3, <1>4, ValSum, ValTimes
<1>10. Val(Plus(Times(s, u), Times(c, v)), ((s0 * u0) + (c0 * v0)), D2)
  BY <1>3, <1>4, ValSum, ValTimes
<1>11. Val(Plus(Square(Minus(Times(c, u), Times(s, v))), Square(Plus(Times(s, u), Times(c, v)))),
         ((((c0 * u0) - (s0 * v0)) * ((c0 * u0) - (s0 * v0)))
           + (((s0 * u0) + (c0 * v0)) * ((s0 * u0) + (c0 * v0)))), D4)
  BY <1>3, <1>9, <1>10, ValSum, ValTimes DEF Square
<1>12. Val(Plus(Square(u), Square(v)), (((u0 * u0) + (v0 * v0)) * D2), D4)
  BY <1>3, <1>8, ValWide
<1>13. (((u0 * u0) + (v0 * v0)) * D2)
         - ((((c0 * u0) - (s0 * v0)) * ((c0 * u0) - (s0 * v0)))
           + (((s0 * u0) + (c0 * v0)) * ((s0 * u0) + (c0 * v0))))
             = (((-((u0 * u0) + (v0 * v0)))) * (((c0 * c0) + (s0 * s0)) - D2))
  BY <1>3, <1>4
<1>14. (((u0 * u0) + (v0 * v0)) * D2)
         = ((((c0 * u0) - (s0 * v0)) * ((c0 * u0) - (s0 * v0)))
           + (((s0 * u0) + (c0 * v0)) * ((s0 * u0) + (c0 * v0))))
  BY <1>3, <1>4, <1>7, <1>13
<1>15. Plus(Square(u), Square(v))
         = Plus(Square(Minus(Times(c, u), Times(s, v))), Square(Plus(Times(s, u), Times(c, v))))
  BY <1>11, <1>12, <1>14, ValSame
<1>. QED  BY <1>15

\* The reach, by the distances across and along the hip's axis.
LEMMA ReachIs ==
  ASSUME NEW leg \in Legs, NEW p \in Vec
  PROVE  /\ p[1] \in Fraction /\ p[2] \in Fraction /\ p[3] \in Fraction
         /\ Reach(p) \in Fraction /\ UnderRoot(p[2], p[3], l1(leg)) \in Fraction
         /\ Reach(p) = Plus(Square(p[1]), UnderRoot(p[2], p[3], l1(leg)))
         /\ UnderRoot(p[2], p[3], l1(leg))
              = Minus(Plus(Square(p[2]), Square(p[3])), Square(abadLinkLength))
<1>1. /\ p[1] \in Fraction /\ p[2] \in Fraction /\ p[3] \in Fraction
      /\ abadLinkLength \in Fraction
      /\ Square(abadLinkLength) \in Fraction
  BY VecParts, LinkAssumption, MoreClosed
<1>2. UnderRoot(p[2], p[3], l1(leg))
        = Minus(Plus(Square(p[2]), Square(p[3])), Square(abadLinkLength))
  BY LinksAre DEF UnderRoot
<1>3. Reach(p)
        = Minus(Plus(Plus(Times(p[1], p[1]), Times(p[2], p[2])), Times(p[3], p[3])),
          Square(abadLinkLength))
  BY DotIs DEF Reach
<1>4. Reach(p) = Plus(Square(p[1]), UnderRoot(p[2], p[3], l1(leg)))
  BY <1>1, <1>2, <1>3, ReachTerms
<1>5. UnderRoot(p[2], p[3], l1(leg)) \in Fraction /\ Square(p[1]) \in Fraction
  <2>1. Plus(Square(p[2]), Square(p[3])) \in Fraction /\ Square(p[1]) \in Fraction
    BY <1>1, SquaresNull, MoreClosed
  <2>. QED  BY <1>1, <1>2, <2>1, Closed
<1>. QED  BY <1>1, <1>2, <1>4, <1>5, Closed

-----------------------------------------------------------------------------
(* calcQ is the inverse of calcPEe2B. *)

\* A place seen from the hip.
LEMMA FromHip ==
  ASSUME NEW leg \in Legs, NEW place \in Vec
  PROVE  /\ VMinus(place, pHip2B[leg]) \in Vec
         /\ VPlus(pHip2B[leg], VMinus(place, pHip2B[leg])) = place
         /\ VMinus(VPlus(pHip2B[leg], place), pHip2B[leg]) = place
<1>1. pHip2B[leg] \in Vec
  BY LegTasksAssumption DEF Vec
<1>2. VMinus(place, pHip2B[leg]) \in Vec
  BY <1>1, VecOps, Closed
<1>. QED  BY <1>1, <1>2, VecLaws

\* What calcQ does with a place that is not inside the hip's joint.
LEMMA CalcQIs ==
  ASSUME NEW leg, NEW place, NEW p, p = VMinus(place, pHip2B[leg]),
         ~Negative(UnderRoot(p[2], p[3], l1(leg)))
  PROVE  calcQ(leg, place, "BODY")
           = << q1_ik(p[2], p[3], l1(leg)),
                q2_ik(q1_ik(p[2], p[3], l1(leg)), q3_ik(Reach(p)), p[1], p[2], p[3]),
                q3_ik(Reach(p)) >>
BY DEF calcQ

\* With the knee's angle for its reach, calcQ's angles bring the foot to the place.
LEMMA FootReaches ==
  ASSUME NEW leg \in Legs, NEW place \in Vec, NEW p, p = VMinus(place, pHip2B[leg]),
         ~Negative(UnderRoot(p[2], p[3], l1(leg))), IsSquare(UnderRoot(p[2], p[3], l1(leg))),
         NEW a3 \in Angles, a3 = q3_ik(Reach(p)), Plus(Square(Span1(a3)), Square(Span2(a3)))
               = Reach(p)
  PROVE  /\ calcQ(leg, place, "BODY") \in Joints /\ calcQ(leg, place, "BODY")[3] = a3
         /\ calcPEe2B(leg, calcQ(leg, place, "BODY")) = place
<1>. DEFINE under == UnderRoot(p[2], p[3], l1(leg))
            len == Root(under)
            down == Opposite(len)
            a1 == q1_ik(p[2], p[3], l1(leg))
            a2 == q2_ik(a1, a3, p[1], p[2], p[3])
            q == <<a1, a2, a3>>
<1>1. /\ p \in Vec /\ VPlus(pHip2B[leg], p) = place
      /\ p[1] \in Fraction /\ p[2] \in Fraction /\ p[3] \in Fraction
      /\ under \in Fraction /\ Reach(p) = Plus(Square(p[1]), under)
  BY FromHip, ReachIs
<1>2. len \in Fraction /\ ~Negative(len) /\ Square(len) = under
  BY <1>1, SquareRoots
<1>3. /\ a1 \in Angles
      /\ Minus(Times(l1(leg), a1.c), Times(a1.s, down)) = p[2]
      /\ Plus(Times(l1(leg), a1.s), Times(a1.c, down)) = p[3]
  BY <1>1, <1>2, HipAngle
<1>4. down \in Fraction /\ Plus(Square(Span2(a3)), Square(Span1(a3)))
        = Plus(Square(down), Square(p[1]))
  <2>1. down \in Fraction /\ Square(down) = under /\ Square(p[1]) \in Fraction
    BY <1>1, <1>2, SquareOpposite, MoreClosed
  <2>2. Square(Span1(a3)) \in Fraction /\ Square(Span2(a3)) \in Fraction
    BY KneeCosineIs, MoreClosed
  <2>3. Plus(Square(Span2(a3)), Square(Span1(a3))) = Plus(Square(Span1(a3)), Square(Span2(a3)))
    BY <2>2, PlusLaws, Closed
  <2>4. Plus(Square(down), Square(p[1])) = Plus(Square(p[1]), under)
    BY <1>1, <2>1, PlusLaws, Closed
  <2>. QED  BY <1>1, <2>1, <2>3, <2>4
<1>. HIDE DEF under, len, down, a1, a2
<1>5. a2 \in Angles /\ Down(q) = down /\ Fore(q) = p[1]
  <2>1. Swung(leg, a1, down, p[2], p[3])
    BY <1>3 DEF Swung
  <2>2. ThighFits(a2, a1, a3, down, p[1])
    BY <1>1, <1>3, <1>4, <2>1, ThighAngle DEF a2
  <2>. QED  BY <2>2 DEF ThighFits
<1>6. calcQ(leg, place, "BODY") = q
  BY CalcQIs DEF a1, a2
<1>7. q \in Joints /\ q[1] = a1 /\ q[3] = a3
  BY <1>3, <1>5 DEF Joints
<1>. HIDE DEF q
<1>8. calcPEe2H(leg, q) = p
  <2>1. calcPEe2H(leg, q) \in Vec /\ calcPEe2H(leg, q)[1] = p[1] /\ calcPEe2H(leg, q)[2] = p[2]
        /\ calcPEe2H(leg, q)[3] = p[3]
    BY <1>3, <1>5, <1>7, FootIs
  <2>. QED  BY <1>1, <2>1, Equal3 DEF Vec
<1>9. calcPEe2B(leg, q) = place
  BY <1>1, <1>8 DEF calcPEe2B
<1>. QED  BY <1>6, <1>7, <1>9

\* calcQ finds the angles of a leg from the place of its foot: below the hip's axis, and
\* with a knee that bends back, no other angles put it there.
THEOREM RoundTrip ==
  ASSUME NEW leg \in Legs, NEW q \in Joints, Negative(Down(q)), ~Positive(q[3].s)
  PROVE  calcQ(leg, calcPEe2B(leg, q), "BODY") = q
<1>. DEFINE p == calcPEe2H(leg, q)
            down == Down(q)
            len == Opposite(down)
            under == UnderRoot(p[2], p[3], l1(leg))
            a3 == q[3]
<1>1. /\ p \in Vec /\ VMinus(calcPEe2B(leg, q), pHip2B[leg]) = p
      /\ p[1] = Fore(q)
      /\ p[2] = Minus(Times(l1(leg), q[1].c), Times(q[1].s, down))
      /\ p[3] = Plus(Times(l1(leg), q[1].s), Times(q[1].c, down))
  BY FootIs, FromHip DEF calcPEe2B
<1>2. /\ \A i \in 1..3 : q[i] \in Angles /\ q[i].c \in Fraction /\ q[i].s \in Fraction
      /\ down \in Fraction /\ Fore(q) \in Fraction /\ l1(leg) \in Fraction
      /\ Plus(Square(q[1].c), Square(q[1].s)) = One
  BY LegParts, LinksAre, AngleParts
<1>3. q = <<q[1], q[2], q[3]>>
  BY DEF Joints
<1>4. len \in Fraction /\ ~Negative(len) /\ Opposite(len) = down /\ Square(len) = Square(down)
      /\ down # Zero
  <2>1. len \in Fraction /\ Opposite(len) = down /\ Square(len) = Square(down)
    BY <1>2, MoreClosed, Twice, SquareOpposite DEF Opposite
  <2>2. Positive(len)
    BY <1>2, LessLaws, Closed DEF Opposite
  <2>. QED  BY <2>1, <2>2, SignLaws, Neutral, Closed
<1>5. under = Square(down)
  BY <1>1, <1>2, HipNorm DEF UnderRoot
<1>. HIDE DEF p, len, under
<1>6. q1_ik(p[2], p[3], l1(leg)) = q[1]
  <2>1. p[2] \in Fraction /\ p[3] \in Fraction /\ Square(len) = UnderRoot(p[2], p[3], l1(leg))
    BY <1>1, <1>4, <1>5, ReachIs DEF under
  <2>2. \A b \in Angles : /\ Minus(Times(l1(leg), b.c), Times(b.s, Opposite(len))) = p[2]
                          /\ Plus(Times(l1(leg), b.s), Times(b.c, Opposite(len))) = p[3]
                          => b = q1_ik(p[2], p[3], l1(leg))
    BY <1>4, <2>1, HipAngle
  <2>3. q[1] \in Angles
    BY <1>2
  <2>. QED  BY <1>1, <1>4, <2>2, <2>3
<1>7. /\ down = Minus(Times(q[2].c, Span2(a3)), Times(q[2].s, Span1(a3)))
      /\ Fore(q) = Plus(Times(q[2].s, Span2(a3)), Times(q[2].c, Span1(a3)))
      /\ Span1(a3) \in Fraction /\ Span2(a3) \in Fraction
  BY <1>2, <1>3, SpansAre, KneeCosineIs
<1>8. Plus(Square(Span2(a3)), Square(Span1(a3))) = Plus(Square(down), Square(Fore(q)))
  <2>1. /\ Plus(Square(q[2].c), Square(q[2].s)) = One
        /\ Numbers(<<q[2].c, q[2].s, Span2(a3), Span1(a3)>>)
    BY <1>2, <1>7, AngleParts DEF Numbers
  <2>. QED  BY <1>2, <1>7, <2>1, SpanNorm
<1>9. Reach(p) = Plus(Square(Span1(a3)), Square(Span2(a3))) /\ Reach(p) \in Fraction
  <2>1. Reach(p) = Plus(Square(Fore(q)), Square(down)) /\ Reach(p) \in Fraction
    BY <1>1, <1>5, ReachIs DEF under
  <2>2. /\ Square(Fore(q)) \in Fraction /\ Square(down) \in Fraction
        /\ Square(Span1(a3)) \in Fraction /\ Square(Span2(a3)) \in Fraction
    BY <1>2, <1>7, MoreClosed
  <2>. QED  BY <1>8, <2>1, <2>2, PlusLaws, Closed
<1>10. KneeCosine(Reach(p)) = Opposite(a3.c)
  BY <1>2, <1>9, KneeCosineIs
<1>11. q3_ik(Reach(p)) = a3
  <2>. DEFINE t == KneeCosine(Reach(p))
  <2>1. a3.c \in Fraction /\ a3.s \in Fraction /\ a3 = Angle(a3.c, a3.s)
        /\ Plus(Square(a3.c), Square(a3.s)) = One
    BY <1>2, AngleParts
  <2>2. Angle(t, a3.s) \in Angles /\ Angle(t, a3.s).c = t
    BY <1>10, <2>1, SquareOpposite, MoreClosed DEF Angles, Angle
  <2>3. ~Less(One, t) /\ ~Less(t, <<-1, 1>>)
    BY <2>2, CosineBound
  <2>4. Opposite(t) = a3.c
    BY <1>10, <2>1, Twice DEF Opposite
  <2>5. Minus(One, Square(t)) = Square(Opposite(a3.s))
    <3>1. Square(t) = Square(a3.c) /\ Square(Opposite(a3.s)) = Square(a3.s)
      BY <1>10, <2>1, SquareOpposite
    <3>2. Minus(Plus(Square(a3.c), Square(a3.s)), Square(a3.c)) = Square(a3.s)
      BY <2>1, RestOf2, MoreClosed
    <3>. QED  BY <2>1, <3>1, <3>2
  <2>6. Root(Minus(One, Square(t))) = Opposite(a3.s)
    <3>1. Opposite(a3.s) \in Fraction /\ ~Negative(Opposite(a3.s))
      BY <2>1, LessLaws, MoreClosed, Closed DEF Opposite
    <3>. QED  BY <2>5, <3>1, RootOfSquare
  <2>7. Opposite(Opposite(a3.s)) = a3.s
    BY <2>1, Twice DEF Opposite
  <2>. HIDE DEF t
  <2>8. q3_ik(Reach(p)) = Angle(Opposite(t), Opposite(Root(Minus(One, Square(t)))))
    BY <2>3 DEF q3_ik, t
  <2>. QED  BY <2>1, <2>4, <2>6, <2>7, <2>8
<1>12. q2_ik(q[1], a3, p[1], p[2], p[3]) = q[2]
  <2>1. q[1] \in Angles /\ q[2] \in Angles /\ a3 \in Angles /\ p[1] \in Fraction
    BY <1>1, <1>2
  <2>2. Plus(Square(Span2(a3)), Square(Span1(a3))) = Plus(Square(down), Square(p[1]))
    BY <1>1, <1>8
  <2>3. down = Down(<<q[1], q[2], a3>>) /\ p[1] = Fore(<<q[1], q[2], a3>>)
    BY <1>1, <1>3
  <2>4. down \in Fraction /\ down # Zero
    BY <1>2, <1>4
  <2>5. Swung(leg, q[1], down, p[2], p[3])
    BY <1>1 DEF Swung
  <2>. DEFINE a1 == q[1]
              a2 == q[2]
              px == p[1]
              py == p[2]
              pz == p[3]
  <2>. HIDE DEF down, a1, a2, a3, px, py, pz
  <2>6. /\ a1 \in Angles /\ a2 \in Angles /\ a3 \in Angles /\ px \in Fraction /\ down \in Fraction
        /\ Plus(Square(Span2(a3)), Square(Span1(a3))) = Plus(Square(down), Square(px))
        /\ Swung(leg, a1, down, py, pz)
    BY <2>1, <2>2, <2>4, <2>5 DEF a1, a2, px, py, pz
  <2>7. ThighFits(q2_ik(a1, a3, px, py, pz), a1, a3, down, px)
    BY <2>6, ThighAngle
  <2>8. Down(<<a1, a2, a3>>) = down /\ Fore(<<a1, a2, a3>>) = px /\ down # Zero
    BY <2>3, <2>4 DEF a1, a2, px
  <2>9. a2 = q2_ik(a1, a3, px, py, pz)
    BY <2>6, <2>7, <2>8 DEF ThighFits
  <2>. QED  BY <2>9 DEF a1, a2, px, py, pz
<1>13. ~Negative(under)
  BY <1>2, <1>5, SignLaws DEF Square
<1>14. calcQ(leg, calcPEe2B(leg, q), "BODY") = <<q[1], q[2], q[3]>>
  BY <1>1, <1>6, <1>11, <1>12, <1>13, CalcQIs DEF under
<1>. QED  BY <1>3, <1>14

-----------------------------------------------------------------------------
(* Where calcQ puts the foot, in reach and out of it. *)

\* The feet seen from the lifted body.
LEMMA LiftTerms ==
  ASSUME NEW p \in Fraction, NEW q \in Fraction, NEW d \in Fraction
  PROVE  Plus(Minus(p, q), Opposite(Plus(Opposite(q), d))) = Minus(p, d)
<1>. DEFINE f == <<p, q, d>>
<1>1. f \in [1..3 -> Fraction] /\ 3 \in Nat
  OBVIOUS
<1>2. PICK D \in Nat \ {0}, num \in [1..3 -> Int] : \A i \in 1..3 : Val(f[i], num[i], D)
  <2>. HIDE DEF f
  <2>. QED  BY <1>1, Values
<1>. DEFINE p0 == num[1]
            q0 == num[2]
            d0 == num[3]
<1>3. D \in Nat \ {0}
  BY Powers
<1>4. /\ p0 \in Int /\ Val(p, p0, D)
      /\ q0 \in Int /\ Val(q, q0, D)
      /\ d0 \in Int /\ Val(d, d0, D)
  BY <1>2
<1>. HIDE DEF f, p0, q0, d0
<1>5. Val(Plus(Opposite(q), d), ((0 - q0) + d0), D)
  BY <1>3, <1>4, ValNumbers, ValSum DEF Opposite
<1>6. Val(Plus(Minus(p, q), Opposite(Plus(Opposite(q), d))), ((p0 - q0) + (0 - ((0 - q0) + d0))),
        D)
  BY <1>3, <1>4, <1>5, ValNumbers, ValSum DEF Opposite
<1>7. Val(Minus(p, d), (p0 - d0), D)
  BY <1>3, <1>4, ValSum
<1>8. ((p0 - q0) + (0 - ((0 - q0) + d0))) = (p0 - d0)
  BY <1>3, <1>4
<1>9. Plus(Minus(p, q), Opposite(Plus(Opposite(q), d))) = Minus(p, d)
  BY <1>6, <1>7, <1>8, ValSame
<1>. QED  BY <1>9

\* What hip and thigh add to the place where the hip's link ends, for a share r of the way.
LEMMA HipOut ==
  ASSUME NEW c, NEW s, NEW L, NEW d, NEW r, NEW x,
         Numbers(<<c, s, L, d, r, x>>)
  PROVE  /\ Minus(Minus(Times(L, c), Times(s, Times(r, d))), Times(L, c))
              = Times(r, Minus(Minus(Times(L, c), Times(s, d)), Times(L, c)))
         /\ Minus(Plus(Times(L, s), Times(c, Times(r, d))), Times(L, s))
              = Times(r, Minus(Plus(Times(L, s), Times(c, d)), Times(L, s)))
         /\ Minus(Times(r, x), Zero) = Times(r, Minus(x, Zero))
<1>. DEFINE f == <<c, s, L, d, r, x>>
<1>1. f \in [1..6 -> Fraction] /\ 6 \in Nat
  BY DEF Numbers
<1>2. PICK D \in Nat \ {0}, num \in [1..6 -> Int] : \A i \in 1..6 : Val(f[i], num[i], D)
  <2>. HIDE DEF f
  <2>. QED  BY <1>1, Values
<1>. DEFINE c0 == num[1]
            s0 == num[2]
            L0 == num[3]
            d0 == num[4]
            r0 == num[5]
            x0 == num[6]
            D2 == D * D
            D3 == D * D2
<1>3. /\ D \in Nat \ {0}
      /\ D2 \in Nat \ {0} /\ D2 = D * D
      /\ D3 \in Nat \ {0} /\ D3 = D * D2
      /\ D2 * D = D3
  BY Powers
<1>4. /\ c0 \in Int /\ Val(c, c0, D)
      /\ s0 \in Int /\ Val(s, s0, D)
      /\ L0 \in Int /\ Val(L, L0, D)
      /\ d0 \in Int /\ Val(d, d0, D)
      /\ r0 \in Int /\ Val(r, r0, D)
      /\ x0 \in Int /\ Val(x, x0, D)
  BY <1>2
<1>. HIDE DEF f, c0, s0, L0, d0, r0, x0, D2, D3
<1>5. Val(Minus(Times(L, c), Times(s, Times(r, d))), (((L0 * c0) * D) - (s0 * (r0 * d0))), D3)
  BY <1>3, <1>4, ValSum, ValTimes, ValWide
<1>6. Val(Minus(Minus(Times(L, c), Times(s, Times(r, d))), Times(L, c)),
        ((((L0 * c0) * D) - (s0 * (r0 * d0))) - ((L0 * c0) * D)), D3)
  BY <1>3, <1>4, <1>5, ValSum, ValTimes, ValWide
<1>7. Val(Minus(Times(L, c), Times(s, d)), ((L0 * c0) - (s0 * d0)), D2)
  BY <1>3, <1>4, ValSum, ValTimes
<1>8. Val(Times(r, Minus(Minus(Times(L, c), Times(s, d)), Times(L, c))),
        (r0 * (((L0 * c0) - (s0 * d0)) - (L0 * c0))), D3)
  BY <1>3, <1>4, <1>7, ValSum, ValTimes
<1>9. ((((L0 * c0) * D) - (s0 * (r0 * d0))) - ((L0 * c0) * D))
        = (r0 * (((L0 * c0) - (s0 * d0)) - (L0 * c0)))
  BY <1>3, <1>4
<1>10. Minus(Minus(Times(L, c), Times(s, Times(r, d))), Times(L, c))
         = Times(r, Minus(Minus(Times(L, c), Times(s, d)), Times(L, c)))
  BY <1>6, <1>8, <1>9, ValSame
<1>11. Val(Plus(Times(L, s), Times(c, Times(r, d))), (((L0 * s0) * D) + (c0 * (r0 * d0))), D3)
  BY <1>3, <1>4, ValSum, ValTimes, ValWide
<1>12. Val(Minus(Plus(Times(L, s), Times(c, Times(r, d))), Times(L, s)),
         ((((L0 * s0) * D) + (c0 * (r0 * d0))) - ((L0 * s0) * D)), D3)
  BY <1>3, <1>4, <1>11, ValSum, ValTimes, ValWide
<1>13. Val(Plus(Times(L, s), Times(c, d)), ((L0 * s0) + (c0 * d0)), D2)
  BY <1>3, <1>4, ValSum, ValTimes
<1>14. Val(Times(r, Minus(Plus(Times(L, s), Times(c, d)), Times(L, s))),
         (r0 * (((L0 * s0) + (c0 * d0)) - (L0 * s0))), D3)
  BY <1>3, <1>4, <1>13, ValSum, ValTimes
<1>15. ((((L0 * s0) * D) + (c0 * (r0 * d0))) - ((L0 * s0) * D))
         = (r0 * (((L0 * s0) + (c0 * d0)) - (L0 * s0)))
  BY <1>3, <1>4
<1>16. Minus(Plus(Times(L, s), Times(c, Times(r, d))), Times(L, s))
         = Times(r, Minus(Plus(Times(L, s), Times(c, d)), Times(L, s)))
  BY <1>12, <1>14, <1>15, ValSame
<1>17. Val(Minus(Times(r, x), Zero), ((r0 * x0) - 0), D2)
  BY <1>3, <1>4, ValNumbers, ValSum, ValTimes
<1>18. Val(Times(r, Minus(x, Zero)), (r0 * (x0 - 0)), D2)
  BY <1>3, <1>4, ValNumbers, ValSum, ValTimes
<1>19. ((r0 * x0) - 0) = (r0 * (x0 - 0))
  BY <1>3, <1>4
<1>20. Minus(Times(r, x), Zero) = Times(r, Minus(x, Zero))
  BY <1>17, <1>18, <1>19, ValSame
<1>. QED  BY <1>10, <1>16, <1>20

\* How long the way is.
LEMMA HipOutNorm ==
  ASSUME NEW c, NEW s, NEW L, NEW d, NEW x,
         Numbers(<<c, s, L, d, x>>),
         Plus(Square(c), Square(s)) = One
  PROVE  Plus(Plus(Times(Minus(x, Zero), Minus(x, Zero)),
           Times(Minus(Minus(Times(L, c), Times(s, d)), Times(L, c)),
             Minus(Minus(Times(L, c), Times(s, d)), Times(L, c)))),
               Times(Minus(Plus(Times(L, s), Times(c, d)), Times(L, s)),
                 Minus(Plus(Times(L, s), Times(c, d)), Times(L, s)))) = Plus(Square(x), Square(d))
<1>. DEFINE f == <<c, s, L, d, x>>
<1>1. f \in [1..5 -> Fraction] /\ 5 \in Nat
  BY DEF Numbers
<1>2. PICK D \in Nat \ {0}, num \in [1..5 -> Int] : \A i \in 1..5 : Val(f[i], num[i], D)
  <2>. HIDE DEF f
  <2>. QED  BY <1>1, Values
<1>. DEFINE c0 == num[1]
            s0 == num[2]
            L0 == num[3]
            d0 == num[4]
            x0 == num[5]
            D2 == D * D
            D3 == D * D2
            D4 == D * D3
<1>3. /\ D \in Nat \ {0}
      /\ D2 \in Nat \ {0} /\ D2 = D * D
      /\ D3 \in Nat \ {0} /\ D3 = D * D2
      /\ D4 \in Nat \ {0} /\ D4 = D * D3
      /\ D2 * D = D3
      /\ D2 * D2 = D4
      /\ D3 * D = D4
  BY Powers
<1>4. /\ c0 \in Int /\ Val(c, c0, D)
      /\ s0 \in Int /\ Val(s, s0, D)
      /\ L0 \in Int /\ Val(L, L0, D)
      /\ d0 \in Int /\ Val(d, d0, D)
      /\ x0 \in Int /\ Val(x, x0, D)
  BY <1>2
<1>. HIDE DEF f, c0, s0, L0, d0, x0, D2, D3, D4
<1>5. Val(Square(c), (c0 * c0), D2)
  BY <1>3, <1>4, ValTimes DEF Square
<1>6. Val(Square(s), (s0 * s0), D2)
  BY <1>3, <1>4, ValTimes DEF Square
<1>7. Val(Plus(Square(c), Square(s)), ((c0 * c0) + (s0 * s0)), D2)
  BY <1>3, <1>5, <1>6, ValSum
<1>8. Val(One, D2, D2)
  BY <1>3, ValNumbers
<1>9. ((c0 * c0) + (s0 * s0)) = D2
  BY <1>7, <1>8, ValSame
<1>10. Val(Minus(x, Zero), (x0 - 0), D)
  BY <1>3, <1>4, ValNumbers, ValSum
<1>11. Val(Times(Minus(x, Zero), Minus(x, Zero)), ((x0 - 0) * (x0 - 0)), D2)
  BY <1>3, <1>10, ValTimes
<1>12. Val(Times(L, c), (L0 * c0), D2)
  BY <1>3, <1>4, ValTimes
<1>13. Val(Times(s, d), (s0 * d0), D2)
  BY <1>3, <1>4, ValTimes
<1>14. Val(Minus(Times(L, c), Times(s, d)), ((L0 * c0) - (s0 * d0)), D2)
  BY <1>3, <1>12, <1>13, ValSum
<1>15. Val(Minus(Minus(Times(L, c), Times(s, d)), Times(L, c)),
         (((L0 * c0) - (s0 * d0)) - (L0 * c0)), D2)
  BY <1>3, <1>12, <1>14, ValSum
<1>16. Val(Times(Minus(Minus(Times(L, c), Times(s, d)), Times(L, c)),
         Minus(Minus(Times(L, c), Times(s, d)), Times(L, c))),
           ((((L0 * c0) - (s0 * d0)) - (L0 * c0)) * (((L0 * c0) - (s0 * d0)) - (L0 * c0))), D4)
  BY <1>3, <1>15, ValTimes
<1>17. Val(Times(Minus(x, Zero), Minus(x, Zero)), (((x0 - 0) * (x0 - 0)) * D2), D4)
  BY <1>3, <1>11, ValWide
<1>18. Val(Plus(Times(Minus(x, Zero), Minus(x, Zero)),
         Times(Minus(Minus(Times(L, c), Times(s, d)), Times(L, c)),
           Minus(Minus(Times(L, c), Times(s, d)), Times(L, c)))),
             ((((x0 - 0) * (x0 - 0)) * D2)
               + ((((L0 * c0) - (s0 * d0)) - (L0 * c0)) * (((L0 * c0) - (s0 * d0)) - (L0 * c0)))),
                 D4)
  BY <1>3, <1>16, <1>17, ValSum
<1>19. Val(Times(L, s), (L0 * s0), D2)
  BY <1>3, <1>4, ValTimes
<1>20. Val(Times(c, d), (c0 * d0), D2)
  BY <1>3, <1>4, ValTimes
<1>21. Val(Plus(Times(L, s), Times(c, d)), ((L0 * s0) + (c0 * d0)), D2)
  BY <1>3, <1>19, <1>20, ValSum
<1>22. Val(Minus(Plus(Times(L, s), Times(c, d)), Times(L, s)),
         (((L0 * s0) + (c0 * d0)) - (L0 * s0)), D2)
  BY <1>3, <1>19, <1>21, ValSum
<1>23. Val(Times(Minus(Plus(Times(L, s), Times(c, d)), Times(L, s)),
         Minus(Plus(Times(L, s), Times(c, d)), Times(L, s))),
           ((((L0 * s0) + (c0 * d0)) - (L0 * s0)) * (((L0 * s0) + (c0 * d0)) - (L0 * s0))), D4)
  BY <1>3, <1>22, ValTimes
<1>24. Val(Plus(Plus(Times(Minus(x, Zero), Minus(x, Zero)),
         Times(Minus(Minus(Times(L, c), Times(s, d)), Times(L, c)),
           Minus(Minus(Times(L, c), Times(s, d)), Times(L, c)))),
             Times(Minus(Plus(Times(L, s), Times(c, d)), Times(L, s)),
               Minus(Plus(Times(L, s), Times(c, d)), Times(L, s)))),
                 (((((x0 - 0) * (x0 - 0)) * D2)
                   + ((((L0 * c0) - (s0 * d0)) - (L0 * c0))
                     * (((L0 * c0) - (s0 * d0)) - (L0 * c0))))
                       + ((((L0 * s0) + (c0 * d0)) - (L0 * s0))
                         * (((L0 * s0) + (c0 * d0)) - (L0 * s0)))), D4)
  BY <1>3, <1>18, <1>23, ValSum
<1>25. Val(Square(x), (x0 * x0), D2)
  BY <1>3, <1>4, ValTimes DEF Square
<1>26. Val(Square(d), (d0 * d0), D2)
  BY <1>3, <1>4, ValTimes DEF Square
<1>27. Val(Plus(Square(x), Square(d)), ((x0 * x0) + (d0 * d0)), D2)
  BY <1>3, <1>25, <1>26, ValSum
<1>28. Val(Plus(Square(x), Square(d)), (((x0 * x0) + (d0 * d0)) * D2), D4)
  BY <1>3, <1>27, ValWide
<1>29. (((((x0 - 0) * (x0 - 0)) * D2)
         + ((((L0 * c0) - (s0 * d0)) - (L0 * c0)) * (((L0 * c0) - (s0 * d0)) - (L0 * c0))))
           + ((((L0 * s0) + (c0 * d0)) - (L0 * s0)) * (((L0 * s0) + (c0 * d0)) - (L0 * s0))))
             - (((x0 * x0) + (d0 * d0)) * D2) = ((d0 * d0) * (((c0 * c0) + (s0 * s0)) - D2))
  BY <1>3, <1>4
<1>30. (((((x0 - 0) * (x0 - 0)) * D2)
         + ((((L0 * c0) - (s0 * d0)) - (L0 * c0)) * (((L0 * c0) - (s0 * d0)) - (L0 * c0))))
           + ((((L0 * s0) + (c0 * d0)) - (L0 * s0)) * (((L0 * s0) + (c0 * d0)) - (L0 * s0))))
             = (((x0 * x0) + (d0 * d0)) * D2)
  BY <1>3, <1>4, <1>9, <1>29
<1>31. Plus(Plus(Times(Minus(x, Zero), Minus(x, Zero)),
         Times(Minus(Minus(Times(L, c), Times(s, d)), Times(L, c)),
           Minus(Minus(Times(L, c), Times(s, d)), Times(L, c)))),
             Times(Minus(Plus(Times(L, s), Times(c, d)), Times(L, s)),
               Minus(Plus(Times(L, s), Times(c, d)), Times(L, s)))) = Plus(Square(x), Square(d))
  BY <1>24, <1>28, <1>30, ValSame
<1>. QED  BY <1>31

\* A reach that is a leg's, or more than one, is not too short for the knee.
LEMMA NotTooClose ==
  ASSUME NEW b \in Fraction, ~Negative(b)
  PROVE  ~Less(One, KneeCosine(b))
<1>. DEFINE d == Plus(Times(l2, l2), Times(l2, l2))
            t == KneeCosine(b)
<1>1. d \in Fraction /\ t \in Fraction /\ Positive(d) /\ Times(d, t) = Minus(d, b)
  BY KneeRatio
<1>. HIDE DEF d, t
<1>2. Times(d, Minus(t, One)) = Opposite(b) /\ Minus(t, One) \in Fraction
  BY <1>1, KneeTooBent, Closed
<1>3. SUFFICES ASSUME Less(One, t) PROVE FALSE
  BY DEF t
<1>4. Positive(Opposite(b))
  <2>1. Positive(Minus(t, One))
    BY <1>1, <1>3, LessLaws, Closed
  <2>. QED  BY <1>1, <1>2, <2>1, SignLaws
<1>5. Less(b, Zero)
  BY <1>4, LessLaws, Closed DEF Opposite
<1>. QED  BY <1>5, LessLaws, Closed

\* Within the leg's length the knee takes the angle that makes the leg as long as the
\* reach, and bends back.
LEMMA KneeBends ==
  ASSUME NEW b \in Fraction, ~Negative(b), ~Less(KneeCosine(b), <<-1, 1>>),
         IsSquare(Minus(One, Square(KneeCosine(b))))
  PROVE  /\ q3_ik(b) \in Angles /\ ~Positive(q3_ik(b).s)
         /\ Plus(Square(Span1(q3_ik(b))), Square(Span2(q3_ik(b)))) = b
<1>. DEFINE t == KneeCosine(b)
            rest == Minus(One, Square(t))
            root == Root(rest)
            a == Angle(Opposite(t), Opposite(root))
<1>1. t \in Fraction /\ Square(t) \in Fraction /\ rest \in Fraction /\ ~Less(One, t)
  BY KneeCosineIs, MoreClosed, Closed, NotTooClose
<1>2. q3_ik(b) = a
  BY <1>1 DEF q3_ik
<1>3. ~Negative(rest)
  <2>. HIDE DEF t
  <2>1. /\ Minus(One, t) \in Fraction /\ Plus(One, t) \in Fraction
        /\ ~Negative(Minus(One, t)) /\ ~Negative(Plus(One, t))
    <3>1. Minus(One, t) \in Fraction /\ Plus(One, t) \in Fraction /\ ~Negative(Minus(One, t))
      BY <1>1, LessLaws, Closed
    <3>2. ~Negative(Minus(t, Opposite(One)))
      BY <1>1, MinusOne, LessLaws DEF t
    <3>3. Minus(t, Opposite(One)) = Plus(t, One)
      <4>1. Opposite(One) \in Fraction /\ Minus(Zero, Opposite(One)) = One /\ One \in Fraction
        BY Twice, MoreClosed, Closed DEF Opposite
      <4>2. Minus(t, Opposite(One)) = Plus(t, Minus(Zero, Opposite(One)))
        BY <1>1, <4>1, PlusLaws
      <4>. QED  BY <4>1, <4>2
    <3>4. Plus(t, One) = Plus(One, t)
      BY <1>1, PlusLaws, Closed
    <3>. QED  BY <3>1, <3>2, <3>3, <3>4
  <2>2. Times(Minus(One, t), Plus(One, t)) = Minus(Square(One), Square(t)) /\ Square(One) = One
    BY <1>1, SquareGap, Closed, Neutral DEF Square
  <2>. QED  BY <2>1, <2>2, SignLaws DEF t
<1>4. root \in Fraction /\ ~Negative(root) /\ Square(root) = rest
  BY <1>1, <1>3, SquareRoots
<1>. HIDE DEF t, rest, root
<1>5. /\ Opposite(t) \in Fraction /\ Opposite(root) \in Fraction
      /\ Square(Opposite(t)) = Square(t) /\ Square(Opposite(root)) = rest
  BY <1>1, <1>4, SquareOpposite, MoreClosed
<1>6. Plus(Square(t), rest) = One
  BY <1>1, RestOf, Closed DEF rest
<1>7. a \in Angles /\ a.c = Opposite(t) /\ a.s = Opposite(root)
  BY <1>5, <1>6 DEF Angles, Angle
<1>8. ~Positive(Opposite(root))
  BY <1>4, <1>5, LessLaws, Closed DEF Opposite
<1>9. Plus(Square(Span1(a)), Square(Span2(a))) = b
  <2>. HIDE DEF a
  <2>. QED  BY <1>7, KneeCosineIs DEF t
<1>. QED  BY <1>2, <1>7, <1>8, <1>9

\* A straight leg.
Straight == Angle(One, Zero)

\* How a straight leg lies in its plane.
LEMMA StraightSpans ==
  /\ Straight \in Angles /\ ~Positive(Straight.s)
  /\ Span1(Straight) = Zero /\ Span2(Straight) = Plus(l2, l2)
  /\ Plus(l2, l2) \in Fraction /\ Negative(Plus(l2, l2))
<1>1. Straight.c = One /\ Straight.s = Zero /\ Straight \in Angles /\ l2 \in Fraction /\ l3 = l2
      /\ Negative(l2)
  BY StraightIs, LinksAre DEF Straight, Angle
<1>2. Times(l2, Zero) = Zero /\ Times(l2, One) = l2 /\ ~Positive(Zero)
      /\ Plus(l2, l2) \in Fraction
  BY <1>1, Neutral, Closed
<1>3. Negative(Plus(l2, l2))
  <2>1. Less(l2, Zero) /\ Less(Plus(l2, l2), Plus(Zero, l2)) /\ Plus(Zero, l2) = l2
    BY <1>1, LessLaws, Neutral, Closed
  <2>. QED  BY <1>1, <1>2, <2>1, LessLaws, Closed
<1>. QED  BY <1>1, <1>2, <1>3 DEF Span1, Span2

\* A reach beyond the leg's length, and the share of it that the straight leg has.
LEMMA TooFar ==
  ASSUME NEW b \in Fraction, ~Negative(b), Less(KneeCosine(b), <<-1, 1>>), IsSquare(b)
  PROVE  /\ q3_ik(b) = Straight
         /\ Root(b) \in Fraction /\ Positive(Root(b)) /\ Square(Root(b)) = b
         /\ \E r \in Fraction : /\ Positive(r) /\ Less(r, One)
                                /\ Times(Root(b), r) = Opposite(Plus(l2, l2))
<1>. DEFINE k == l2
            d == Plus(Times(k, k), Times(k, k))
            t == KneeCosine(b)
            m == Plus(k, k)
            long == Opposite(m)
            n == Root(b)
            r == Over(long, n)
<1>1. /\ k \in Fraction /\ d \in Fraction /\ t \in Fraction /\ Positive(d) /\ Times(d, t)
           = Minus(d, b)
      /\ m \in Fraction /\ Negative(m)
  BY KneeRatio, StraightSpans
<1>2. q3_ik(b) = Straight
  <2>1. ~Less(One, t)
    BY NotTooClose
  <2>. QED  BY <2>1 DEF q3_ik, Straight
<1>3. n \in Fraction /\ ~Negative(n) /\ Square(n) = b
  BY SquareRoots
<1>4. long \in Fraction /\ Positive(long) /\ Square(long) = Plus(d, d)
  <2>1. long \in Fraction /\ Square(long) = Plus(d, d)
    BY <1>1, StretchLong, MoreClosed
  <2>2. Positive(long)
    <3>. HIDE DEF m
    <3>. QED  BY <1>1, LessLaws, Closed DEF Opposite
  <2>. QED  BY <2>1, <2>2
<1>. HIDE DEF t, d, m, n, long, k
<1>5. Less(Plus(d, d), b)
  <2>1. Times(d, Minus(Opposite(One), t)) = Minus(b, Plus(d, d))
    BY <1>1, KneeTooBent
  <2>2. Positive(Minus(Opposite(One), t)) /\ Minus(Opposite(One), t) \in Fraction
    BY <1>1, MinusOne, LessLaws, Closed DEF t
  <2>3. Positive(Times(d, Minus(Opposite(One), t)))
    BY <1>1, <2>2, SignLaws
  <2>4. Plus(d, d) \in Fraction
    BY <1>1, Closed
  <2>. QED  BY <2>1, <2>3, <2>4, LessLaws
<1>6. Less(long, n) /\ Positive(n) /\ n # Zero
  <2>1. ~Negative(long)
    BY <1>4, SignLaws
  <2>2. Less(long, n)
    BY <1>3, <1>4, <1>5, <2>1, SquareLess
  <2>3. Less(Zero, n)
    BY <1>3, <1>4, <2>2, LessLaws, Closed
  <2>. QED  BY <1>3, <2>2, <2>3, LessLaws, Closed
<1>7. r \in Fraction /\ Times(n, r) = long
  BY <1>3, <1>4, <1>6, OverIs
<1>. HIDE DEF r
<1>8. Positive(r)
  BY <1>3, <1>4, <1>6, <1>7, SignLaws
<1>9. Less(r, One)
  <2>1. Times(n, Minus(One, r)) = Minus(Times(n, One), Times(n, r)) /\ Times(n, One) = n
    BY <1>3, <1>7, TimesLaws, Closed
  <2>2. Positive(Minus(n, long))
    BY <1>3, <1>4, <1>6, LessLaws
  <2>3. Positive(Minus(One, r)) /\ Minus(One, r) \in Fraction
    BY <1>3, <1>6, <1>7, <2>1, <2>2, SignLaws, Closed
  <2>. QED  BY <1>7, <2>3, LessLaws, Closed
<1>. QED  BY <1>2, <1>3, <1>6, <1>7, <1>8, <1>9 DEF n, long, m, k

\* The thigh then turns the straight leg towards the place.
LEMMA ThighTurns ==
  ASSUME NEW leg \in Legs, NEW a1 \in Angles, NEW px \in Fraction, NEW down \in Fraction,
         NEW py, NEW pz, Swung(leg, a1, down, py, pz),
         NEW n \in Fraction, Positive(n), Square(n) = Plus(Square(px), Square(down)),
         NEW r \in Fraction, Times(n, r) = Opposite(Plus(l2, l2))
  PROVE  /\ q2_ik(a1, Straight, px, py, pz) \in Angles
         /\ Down(<<a1, q2_ik(a1, Straight, px, py, pz), Straight>>) = Times(r, down)
         /\ Fore(<<a1, q2_ik(a1, Straight, px, py, pz), Straight>>) = Times(r, px)
<1>. DEFINE m == Plus(l2, l2)
            a == Minus(Times(py, a1.s), Times(pz, a1.c))
            a2 == q2_ik(a1, Straight, px, py, pz)
            long == Times(Opposite(m), n)
            x == Opposite(Times(m, Opposite(down)))
            y == Times(m, px)
<1>1. /\ m \in Fraction /\ Negative(m) /\ Opposite(m) \in Fraction /\ Opposite(down) \in Fraction
      /\ l1(leg) \in Fraction /\ a1.c \in Fraction /\ a1.s \in Fraction
      /\ Plus(Square(a1.c), Square(a1.s)) = One
  BY StraightSpans, AngleParts, LinksAre, MoreClosed
<1>2. a = Opposite(down)
  BY <1>1, HipNorm DEF Swung
<1>3. a2 = atan2(y, x)
  <2>. HIDE DEF a, m
  <2>1. Times(l3, Straight.s) = Zero /\ Plus(l2, Times(l3, Straight.c)) = m
    BY StraightSpans DEF Span1, Span2, m
  <2>2. a2 = atan2(Plus(Times(Zero, a), Times(m, px)), Minus(Times(Zero, px), Times(m, a)))
    BY <2>1 DEF q2_ik, a
  <2>3. Times(Zero, a) = Zero /\ Plus(Zero, Times(m, px)) = Times(m, px) /\ Times(Zero, px) = Zero
    BY <1>1, <1>2, Neutral, Closed
  <2>. QED  BY <1>2, <2>2, <2>3 DEF Opposite
<1>. HIDE DEF a, m, a2
<1>4. x = Times(m, down)
  <2>1. Times(m, Opposite(down)) = Opposite(Times(m, down)) /\ Times(m, down) \in Fraction
    BY <1>1, Opposites, Closed
  <2>. QED  BY <2>1, Twice DEF Opposite
<1>5. x \in Fraction /\ y \in Fraction /\ long \in Fraction /\ ~Negative(long)
  <2>1. x \in Fraction /\ y \in Fraction /\ long \in Fraction
    BY <1>1, <1>4, Closed
  <2>2. Positive(Opposite(m))
    BY <1>1, LessLaws, Closed DEF Opposite
  <2>3. Positive(long)
    BY <1>1, <2>2, SignLaws
  <2>. QED  BY <2>1, <2>3, SignLaws
<1>6. Square(long) = Plus(Square(x), Square(y))
  <2>1. Plus(Square(Times(m, down)), Square(Times(m, px)))
          = Times(Square(m), Plus(Square(down), Square(px)))
    BY <1>1, StretchTerms
  <2>2. Square(long) = Times(Square(m), Square(n))
    BY <1>1, StretchTerms
  <2>3. Plus(Square(down), Square(px)) = Plus(Square(px), Square(down))
    BY MoreClosed, PlusLaws, Closed
  <2>. QED  BY <1>4, <2>1, <2>2, <2>3
<1>. HIDE DEF x, y, long
<1>7. a2 \in Angles /\ Times(long, a2.c) = x /\ Times(long, a2.s) = y
  BY <1>3, <1>5, <1>6, Atan2Is
<1>8. a2.c \in Fraction /\ a2.s \in Fraction /\ Opposite(m) # Zero /\ n # Zero
  <2>1. a2.c \in Fraction /\ a2.s \in Fraction
    BY <1>7, AngleParts
  <2>2. Positive(Opposite(m))
    BY <1>1, LessLaws, Closed DEF Opposite
  <2>. QED  BY <1>1, <2>1, <2>2, SignLaws, Neutral
<1>9. ASSUME NEW v \in Fraction, NEW w \in Fraction, Times(long, v) = Times(m, w)
      PROVE  Times(v, m) = Times(r, w)
  <2>1. Times(n, v) = Opposite(w)
    <3>1. Times(long, v) = Times(Opposite(m), Times(n, v))
      BY <1>1, <1>9, TimesLaws DEF long
    <3>2. Times(m, w) = Times(Opposite(m), Opposite(w))
      BY <1>1, <1>9, Opposites
    <3>3. Times(n, v) \in Fraction /\ Opposite(w) \in Fraction
      BY <1>9, Closed, MoreClosed
    <3>. QED  BY <1>1, <1>8, <1>9, <3>1, <3>2, <3>3, CancelTimes
  <2>2. Numbers(<<m, n, v, w, r>>)
    BY <1>1, <1>9 DEF Numbers
  <2>3. Times(n, Times(v, m)) = Times(n, Times(r, w))
    <3>1. Times(n, r) = Opposite(m)
      BY DEF m
    <3>. QED  BY <2>1, <2>2, <3>1, StretchRatio
  <2>4. Times(v, m) \in Fraction /\ Times(r, w) \in Fraction
    BY <1>1, <1>9, Closed
  <2>. QED  BY <1>8, <2>3, <2>4, CancelTimes
<1>10. Times(a2.c, m) = Times(r, down) /\ Times(a2.s, m) = Times(r, px)
  BY <1>4, <1>7, <1>8, <1>9 DEF y
<1>11. /\ Down(<<a1, a2, Straight>>) = Minus(Times(a2.c, m), Times(a2.s, Zero))
       /\ Fore(<<a1, a2, Straight>>) = Plus(Times(a2.s, m), Times(a2.c, Zero))
  BY <1>7, SpansAre, StraightSpans DEF m
<1>12. /\ Minus(Times(a2.c, m), Times(a2.s, Zero)) = Times(a2.c, m)
       /\ Plus(Times(a2.s, m), Times(a2.c, Zero)) = Times(a2.s, m)
  BY <1>1, <1>8, Neutral, Closed, ZenonT(60)
<1>. QED  BY <1>7, <1>10, <1>11, <1>12 DEF a2

\* Where the hip's link ends, in the body's frame.
Upper(leg, a) == VPlus(pHip2B[leg], <<Zero, Times(l1(leg), a[1].c), Times(l1(leg), a[1].s)>>)

\* The straight leg ends a share of the way from the hip's link to the place.
Towards(leg, place, a) ==
  /\ a[3] = Straight
  /\ \E r \in Fraction : /\ Positive(r) /\ Less(r, One)
                         /\ VMinus(calcPEe2B(leg, a), Upper(leg, a))
                              = Scaled(r, VMinus(place, Upper(leg, a)))
  /\ Positive(Dot(VMinus(place, Upper(leg, a)), VMinus(place, Upper(leg, a))))

\* What calcQ's angles a are good for.
Brings(leg, place, a) ==
  IF a[1] = NaN
  THEN Less(Plus(Square(VMinus(place, pHip2B[leg])[2]), Square(VMinus(place, pHip2B[leg])[3])),
            Square(abadLinkLength))
  ELSE /\ a \in Joints /\ ~Positive(a[3].s)
       /\ calcPEe2B(leg, a) = place \/ Towards(leg, place, a)

\* No angle is no number.
LEMMA NumbersHaveAngles == NaN \notin Angles
<1>1. NaN.c = <<0, 0>> /\ <<0, 0>> \notin Fraction
  BY Fractions DEF NaN, Angle
<1>. QED  BY <1>1 DEF Angles

\* What is left of the way from the hip's link, for a share r of it.
LEMMA ShareOfWay ==
  ASSUME NEW leg \in Legs, NEW a \in Joints, NEW place \in Vec, NEW p, p
               = VMinus(place, pHip2B[leg]),
         NEW r \in Fraction, NEW down \in Fraction,
         p[2] = Minus(Times(l1(leg), a[1].c), Times(a[1].s, down)),
         p[3] = Plus(Times(l1(leg), a[1].s), Times(a[1].c, down)),
         Down(a) = Times(r, down), Fore(a) = Times(r, p[1])
  PROVE  /\ Upper(leg, a) \in Vec
         /\ VMinus(calcPEe2B(leg, a), Upper(leg, a)) = Scaled(r, VMinus(place, Upper(leg, a)))
         /\ Dot(VMinus(place, Upper(leg, a)), VMinus(place, Upper(leg, a)))
              = Plus(Square(p[1]), Square(down))
<1>. DEFINE L == l1(leg)
            c == a[1].c
            s == a[1].s
            out == <<Zero, Times(L, c), Times(L, s)>>
            hip == pHip2B[leg]
            foot == calcPEe2H(leg, a)
            x == p[1]
<1>1. /\ L \in Fraction /\ c \in Fraction /\ s \in Fraction /\ Plus(Square(c), Square(s)) = One
      /\ a[1] \in Angles
  BY LegParts, AngleParts, LinksAre
<1>2. out \in Vec /\ hip \in Vec /\ foot \in Vec /\ p \in Vec /\ VPlus(hip, p) = place
      /\ x \in Fraction
  <2>1. out \in Vec
    BY <1>1, VecParts, Closed
  <2>2. hip \in Vec /\ foot \in Vec
    BY FootIs
  <2>3. p \in Vec /\ VPlus(hip, p) = place
    BY FromHip
  <2>. QED  BY <2>1, <2>2, <2>3, VecParts
<1>3. /\ foot[1] = Times(r, x)
      /\ foot[2] = Minus(Times(L, c), Times(s, Times(r, down)))
      /\ foot[3] = Plus(Times(L, s), Times(c, Times(r, down)))
  BY FootIs
<1>4. /\ out[1] = Zero /\ out[2] = Times(L, c) /\ out[3] = Times(L, s)
      /\ Upper(leg, a) = VPlus(hip, out) /\ calcPEe2B(leg, a) = VPlus(hip, foot)
  BY DEF Upper, calcPEe2B
<1>. HIDE DEF L, c, s, out, hip, foot, x
<1>5. Upper(leg, a) \in Vec
  BY <1>2, <1>4, VecLaws
<1>6. \A v \in Vec : VMinus(VPlus(hip, v), VPlus(hip, out)) = VMinus(v, out)
        /\ VMinus(v, out) \in Vec
  BY <1>2, Shifted
<1>7. /\ VMinus(calcPEe2B(leg, a), Upper(leg, a)) = VMinus(foot, out)
      /\ VMinus(place, Upper(leg, a)) = VMinus(p, out) /\ VMinus(p, out) \in Vec
      /\ VMinus(foot, out) \in Vec
  BY <1>2, <1>4, <1>6
<1>8. /\ VMinus(p, out)[1] = Minus(x, Zero)
      /\ VMinus(p, out)[2] = Minus(Minus(Times(L, c), Times(s, down)), Times(L, c))
      /\ VMinus(p, out)[3] = Minus(Plus(Times(L, s), Times(c, down)), Times(L, s))
  <2>1. \A i \in 1..3 : VMinus(p, out)[i] = Minus(p[i], out[i])
    BY <1>2, VecOps, Closed
  <2>. QED  BY <1>4, <2>1 DEF x, L, c, s
<1>9. /\ VMinus(foot, out)[1] = Minus(Times(r, x), Zero)
      /\ VMinus(foot, out)[2] = Minus(Minus(Times(L, c), Times(s, Times(r, down))), Times(L, c))
      /\ VMinus(foot, out)[3] = Minus(Plus(Times(L, s), Times(c, Times(r, down))), Times(L, s))
  <2>1. \A i \in 1..3 : VMinus(foot, out)[i] = Minus(foot[i], out[i])
    BY <1>2, VecOps, Closed
  <2>. QED  BY <1>3, <1>4, <2>1
<1>10. VMinus(foot, out) = Scaled(r, VMinus(p, out))
  <2>1. /\ Scaled(r, VMinus(p, out)) \in Vec
        /\ \A i \in 1..3 : Scaled(r, VMinus(p, out))[i] = Times(r, VMinus(p, out)[i])
    BY <1>7, VecOps
  <2>2. Numbers(<<c, s, L, down, r, x>>)
    BY <1>1, <1>2 DEF Numbers
  <2>3. /\ VMinus(foot, out)[1] = Times(r, VMinus(p, out)[1])
        /\ VMinus(foot, out)[2] = Times(r, VMinus(p, out)[2])
        /\ VMinus(foot, out)[3] = Times(r, VMinus(p, out)[3])
    BY <1>8, <1>9, <2>2, HipOut
  <2>4. /\ VMinus(foot, out)[1] = Scaled(r, VMinus(p, out))[1]
        /\ VMinus(foot, out)[2] = Scaled(r, VMinus(p, out))[2]
        /\ VMinus(foot, out)[3] = Scaled(r, VMinus(p, out))[3]
    BY <2>1, <2>3
  <2>. QED  BY <1>7, <2>1, <2>4, Equal3 DEF Vec
<1>11. Dot(VMinus(p, out), VMinus(p, out)) = Plus(Square(x), Square(down))
  <2>1. Numbers(<<c, s, L, down, x>>)
    BY <1>1, <1>2 DEF Numbers
  <2>. DEFINE w == VMinus(p, out)
  <2>2. Dot(w, w) = Plus(Plus(Times(w[1], w[1]), Times(w[2], w[2])), Times(w[3], w[3]))
    <3>. HIDE DEF w
    <3>. QED  BY <1>7, DotIs DEF w
  <2>. QED  BY <1>1, <1>8, <2>1, <2>2, HipOutNorm
<1>. QED  BY <1>5, <1>7, <1>10, <1>11 DEF x

\* calcQ puts the foot on the place, or stretches the leg towards it; only a place nearer
\* to the hip's axis than the hip's link is long has no angles.
THEOREM CalcQReaches ==
  ASSUME NEW leg \in Legs, NEW place \in Vec, HasRoots(leg, VMinus(place, pHip2B[leg]))
  PROVE  Brings(leg, place, calcQ(leg, place, "BODY"))
<1>. DEFINE p == VMinus(place, pHip2B[leg])
            under == UnderRoot(p[2], p[3], l1(leg))
            b == Reach(p)
            a1 == q1_ik(p[2], p[3], l1(leg))
            a == calcQ(leg, place, "BODY")
<1>1. /\ p \in Vec /\ p[1] \in Fraction /\ p[2] \in Fraction /\ p[3] \in Fraction
      /\ b \in Fraction /\ under \in Fraction /\ b = Plus(Square(p[1]), under)
      /\ under = Minus(Plus(Square(p[2]), Square(p[3])), Square(abadLinkLength))
  BY FromHip, ReachIs
<1>2. CASE Negative(under)
  <2>1. a[1] = NaN
    BY <1>2 DEF calcQ
  <2>2. Less(Plus(Square(p[2]), Square(p[3])), Square(abadLinkLength))
    <3>1. Plus(Square(p[2]), Square(p[3])) \in Fraction /\ Square(abadLinkLength) \in Fraction
      BY <1>1, SquaresNull, LinkAssumption, MoreClosed
    <3>. QED  BY <1>1, <1>2, <3>1, LessLaws
  <2>. QED  BY <2>1, <2>2 DEF Brings
<1>3. CASE ~Negative(under)
  <2>1. IsSquare(under)
        /\ (IF Less(KneeCosine(b), <<-1, 1>>) THEN IsSquare(b) ELSE
             IsSquare(Minus(One, Square(KneeCosine(b)))))
    BY <1>3 DEF HasRoots
  <2>2. ~Negative(b)
    <3>1. ~Negative(Square(p[1])) /\ Square(p[1]) \in Fraction
      BY <1>1, SignLaws, MoreClosed DEF Square
    <3>. QED  BY <1>1, <1>3, <3>1, SignLaws
  <2>. HIDE DEF b, under, p, a, a1
  <2>3. CASE ~Less(KneeCosine(b), <<-1, 1>>)
    <3>. DEFINE a3 == q3_ik(b)
    <3>1. a3 \in Angles /\ ~Positive(a3.s) /\ Plus(Square(Span1(a3)), Square(Span2(a3))) = b
      BY <1>1, <2>1, <2>2, <2>3, KneeBends
    <3>. HIDE DEF a3
    <3>2. a \in Joints /\ a[3] = a3 /\ calcPEe2B(leg, a) = place
      <4>1. p = VMinus(place, pHip2B[leg]) /\ a3 = q3_ik(Reach(p)) /\ b = Reach(p)
            /\ under = UnderRoot(p[2], p[3], l1(leg)) /\ a = calcQ(leg, place, "BODY")
        BY DEF p, a3, b, under, a
      <4>. QED  BY <1>3, <2>1, <3>1, <4>1, FootReaches
    <3>3. a[1] # NaN
      BY <3>2, NumbersHaveAngles DEF Joints
    <3>. QED  BY <3>1, <3>2, <3>3 DEF Brings, a
  <2>4. CASE Less(KneeCosine(b), <<-1, 1>>)
    <3>. DEFINE len == Root(under)
                down == Opposite(len)
                n == Root(b)
                a2 == q2_ik(a1, Straight, p[1], p[2], p[3])
                q == <<a1, a2, Straight>>
    <3>1. q3_ik(b) = Straight /\ n \in Fraction /\ Positive(n) /\ Square(n) = b
      BY <1>1, <2>1, <2>2, <2>4, TooFar
    <3>2. PICK r \in Fraction : Positive(r) /\ Less(r, One) /\ Times(n, r)
                 = Opposite(Plus(l2, l2))
      BY <1>1, <2>1, <2>2, <2>4, TooFar
    <3>3. len \in Fraction /\ ~Negative(len) /\ Square(len) = under
      BY <1>1, <1>3, <2>1, SquareRoots
    <3>4. /\ a1 \in Angles
          /\ Minus(Times(l1(leg), a1.c), Times(a1.s, down)) = p[2]
          /\ Plus(Times(l1(leg), a1.s), Times(a1.c, down)) = p[3]
      BY <1>1, <3>3, HipAngle DEF a1, under
    <3>5. down \in Fraction /\ Square(n) = Plus(Square(p[1]), Square(down))
      <4>1. down \in Fraction /\ Square(down) = under
        BY <3>3, SquareOpposite, MoreClosed
      <4>. QED  BY <1>1, <3>1, <4>1
    <3>. HIDE DEF len, down, n
    <3>6. a2 \in Angles /\ Down(q) = Times(r, down) /\ Fore(q) = Times(r, p[1])
      <4>1. Swung(leg, a1, down, p[2], p[3])
        BY <3>4 DEF Swung
      <4>. QED  BY <1>1, <3>1, <3>2, <3>4, <3>5, <4>1, ThighTurns
    <3>7. a = q
      BY <1>3, <3>1, CalcQIs DEF a, a1, b, under, p
    <3>. HIDE DEF a2
    <3>8. q \in Joints /\ q[1] = a1 /\ q[3] = Straight
      BY <3>4, <3>6, StraightSpans DEF Joints
    <3>. HIDE DEF q
    <3>9. /\ VMinus(calcPEe2B(leg, q), Upper(leg, q)) = Scaled(r, VMinus(place, Upper(leg, q)))
          /\ Dot(VMinus(place, Upper(leg, q)), VMinus(place, Upper(leg, q))) = b
      <4>1. p = VMinus(place, pHip2B[leg])
        BY DEF p
      <4>2. /\ p[2] = Minus(Times(l1(leg), q[1].c), Times(q[1].s, down))
            /\ p[3] = Plus(Times(l1(leg), q[1].s), Times(q[1].c, down))
        BY <3>4, <3>8
      <4>3. /\ VMinus(calcPEe2B(leg, q), Upper(leg, q)) = Scaled(r, VMinus(place, Upper(leg, q)))
            /\ Dot(VMinus(place, Upper(leg, q)), VMinus(place, Upper(leg, q)))
                 = Plus(Square(p[1]), Square(down))
        BY <3>2, <3>5, <3>6, <3>8, <4>1, <4>2, ShareOfWay
      <4>. QED  BY <3>1, <3>5, <4>3
    <3>10. Positive(b)
      BY <1>1, <3>1, SignLaws DEF Square
    <3>11. Towards(leg, place, q) /\ q[1] # NaN /\ ~Positive(q[3].s)
      BY <3>2, <3>4, <3>8, <3>9, <3>10, StraightSpans, NumbersHaveAngles DEF Towards
    <3>. QED  BY <3>7, <3>8, <3>11 DEF Brings, a
  <2>. QED  BY <2>3, <2>4
<1>. QED  BY <1>2, <1>3

\* What calcQ's angles are good for, in the world.
LEMMA BringsInWorld ==
  ASSUME NEW leg \in Legs, NEW R, Turns(R), NEW h \in Vec, NEW place \in Vec,
         NEW a, Brings(leg, place, a), a[1] # NaN,
         NEW goal1, goal1 = VPlus(h, Apply(R, place)),
         NEW foot, foot = VPlus(h, Apply(R, calcPEe2B(leg, a))),
         NEW top, top = VPlus(h, Apply(R, Upper(leg, a)))
  PROVE  /\ ~Positive(a[3].s)
         /\ \/ foot = goal1
            \/ /\ a[3] = Angle(One, Zero)
               /\ cross(VMinus(goal1, top), VMinus(foot, top)) = Null3
               /\ Less(Dot(VMinus(foot, top), VMinus(foot, top)),
                    Dot(VMinus(goal1, top), VMinus(foot, top)))
<1>1. a \in Joints /\ ~Positive(a[3].s) /\ (calcPEe2B(leg, a) = place \/ Towards(leg, place, a))
  BY DEF Brings
<1>2. ASSUME Towards(leg, place, a)
      PROVE  /\ a[3] = Angle(One, Zero)
             /\ cross(VMinus(goal1, top), VMinus(foot, top)) = Null3
             /\ Less(Dot(VMinus(foot, top), VMinus(foot, top)),
                  Dot(VMinus(goal1, top), VMinus(foot, top)))
  <2>. DEFINE up == Upper(leg, a)
              w == VMinus(place, up)
              d == VMinus(calcPEe2B(leg, a), up)
  <2>1. PICK r \in Fraction : Positive(r) /\ Less(r, One) /\ d = Scaled(r, w)
    BY <1>2 DEF Towards
  <2>2. a[3] = Angle(One, Zero) /\ Positive(Dot(w, w))
    BY <1>2 DEF Towards, Straight
  <2>3. up \in Vec /\ calcPEe2B(leg, a) \in Vec
    <3>1. l1(leg) \in Fraction /\ a[1].c \in Fraction /\ a[1].s \in Fraction
      BY <1>1, LegParts, LinksAre
    <3>2. <<Zero, Times(l1(leg), a[1].c), Times(l1(leg), a[1].s)>> \in Vec
      BY <3>1, VecParts, Closed
    <3>3. pHip2B[leg] \in Vec /\ calcPEe2B(leg, a) \in Vec
      BY <1>1, FootIs
    <3>. QED  BY <3>2, <3>3, VecLaws DEF Upper
  <2>. HIDE DEF up
  <2>4. w \in Vec /\ d \in Vec /\ R \in Mat3
    BY <2>3, VecOps, Closed DEF Turns
  <2>5. VMinus(goal1, top) = Apply(R, w) /\ VMinus(foot, top) = Apply(R, d)
    BY <2>3, <2>4, ShiftedTurn DEF up
  <2>. HIDE DEF w, d
  <2>6. Apply(R, w) \in Vec /\ Apply(R, d) = Scaled(r, Apply(R, w))
    BY <2>1, <2>4, ApplyIs, ApplyLaws
  <2>7. Dot(Apply(R, w), Apply(R, w)) = Dot(w, w)
    BY <2>4, TurnsKeep
  <2>. QED  BY <2>1, <2>2, <2>5, <2>6, <2>7, ShareIs DEF Null3, NullV
<1>. QED  BY <1>1, <1>2

\* Where FREESTAND's stick puts the feet: as far below the body as it is lifted, and turned
\* against it.
LEMMA PlacedFeet ==
  ASSUME NEW P \in Vec, NEW hip \in Vec, NEW lift \in Vec, NEW M \in Mat3
  PROVE  Moved(homoMatrixInverse(homoMatrix(VPlus(Scaled(<<-1, 1>>, hip), lift), M)),
           VMinus(P, hip))
           = Apply(Transpose(M), VMinus(P, lift))
<1>. DEFINE XO == VPlus(Scaled(<<-1, 1>>, hip), lift)
            XP == VMinus(P, hip)
            T == Transpose(M)
<1>1. <<-1, 1>> \in Fraction
  BY MinusOne
<1>2. XO \in Vec /\ XP \in Vec /\ T \in Mat3 /\ Scaled(<<-1, 1>>, XO) \in Vec
      /\ VMinus(P, lift) \in Vec
  BY <1>1, VecOps, TransposeIs
<1>3. Moved(homoMatrixInverse(homoMatrix(XO, M)), XP)
        = VPlus(Apply(T, XP), Scaled(<<-1, 1>>, Apply(T, XO)))
  BY DEF Moved, homoMatrixInverse, homoMatrix
<1>4. VPlus(Apply(T, XP), Scaled(<<-1, 1>>, Apply(T, XO)))
        = Apply(T, VPlus(XP, Scaled(<<-1, 1>>, XO)))
  <2>. HIDE DEF XP, XO, T
  <2>1. Scaled(<<-1, 1>>, Apply(T, XO)) = Apply(T, Scaled(<<-1, 1>>, XO))
    BY <1>1, <1>2, ApplyLaws
  <2>. QED  BY <1>1, <1>2, <2>1, ApplyLaws
<1>5. VPlus(XP, Scaled(<<-1, 1>>, XO)) = VMinus(P, lift)
  <2>1. ASSUME NEW i \in 1..3
        PROVE  VPlus(XP, Scaled(<<-1, 1>>, XO))[i] = VMinus(P, lift)[i]
    <3>1. P[i] \in Fraction /\ hip[i] \in Fraction /\ lift[i] \in Fraction
      BY DEF Vec
    <3>2. XP[i] = Minus(P[i], hip[i]) /\ VMinus(P, lift)[i] = Minus(P[i], lift[i])
      BY VecOps, Closed
    <3>3. XO[i] = Plus(Opposite(hip[i]), lift[i])
      <4>1. Scaled(<<-1, 1>>, hip) \in Vec /\ Scaled(<<-1, 1>>, hip)[i] = Times(<<-1, 1>>, hip[i])
        BY <1>1, VecOps
      <4>2. XO[i] = Plus(Scaled(<<-1, 1>>, hip)[i], lift[i])
        BY <4>1, VecOps, Closed
      <4>3. Times(<<-1, 1>>, hip[i]) = Opposite(hip[i])
        BY <3>1, MinusTerms DEF Opposite
      <4>. QED  BY <4>1, <4>2, <4>3
    <3>4. XO[i] \in Fraction
      BY <1>2 DEF Vec
    <3>. HIDE DEF XO, XP
    <3>5. VPlus(XP, Scaled(<<-1, 1>>, XO))[i] = Plus(XP[i], Scaled(<<-1, 1>>, XO)[i])
      BY <1>1, <1>2, VecOps
    <3>6. Scaled(<<-1, 1>>, XO)[i] = Times(<<-1, 1>>, XO[i])
      <4>1. \A v \in Vec : \A j \in 1..3 : Scaled(<<-1, 1>>, v)[j] = Times(<<-1, 1>>, v[j])
        BY <1>1, VecOps
      <4>. QED  BY <1>2, <4>1
    <3>7. Times(<<-1, 1>>, XO[i]) = Opposite(XO[i])
      BY <3>4, MinusTerms DEF Opposite
    <3>8. Plus(Minus(P[i], hip[i]), Opposite(Plus(Opposite(hip[i]), lift[i])))
            = Minus(P[i], lift[i])
      BY <3>1, LiftTerms
    <3>. QED  BY <3>2, <3>3, <3>5, <3>6, <3>7, <3>8
  <2>2. VPlus(XP, Scaled(<<-1, 1>>, XO)) \in Vec
    <3>. HIDE DEF XO, XP
    <3>. QED  BY <1>1, <1>2, VecOps
  <2>. QED  BY <1>2, <2>1, <2>2, Equal3 DEF Vec
<1>. QED  BY <1>3, <1>4, <1>5

-----------------------------------------------------------------------------
(* The invariant. *)
\* Foot speeds are consistent: some motion of the body gives the gyroscope its reading, the
\* estimate its velocity, and every joint of a standing leg its rate.
OneMotion ==
  \E motion \in Motions :
    /\ lowState.gyro = motion.w /\ est.velocity = Apply(getRotMat(lowState), motion.v)
    /\ \A leg \in Legs : contact[leg] = 1 => lowState.dq[leg]
         = Holding(leg, lowState.q[leg], motion)

\* What Receive stores: bent legs, a turned body, and speeds of one motion.
Sensed ==
  /\ \A leg \in Legs : lowState.q[leg] \in Postures
  /\ lowState.quaternion \in Attitudes /\ est.position \in Places
  /\ OneMotion

\* What TROTTING's run commands.
Commanded ==
  LET Back == Transpose(getRotMat(lowState)) IN
  /\ \E places \in Goals : \A leg \in Legs :
       goal.pos[leg] = VPlus(est.position, Apply(getRotMat(lowState), places[leg]))
  /\ pushed \in Forces
  /\ \A leg \in Legs :
       /\ contact[leg] = 1 => goal.vel[leg] = Null3
       /\ lowCmd.q[leg] = calcQ(leg, Apply(Back, VMinus(goal.pos[leg], est.position)), "BODY")
       /\ lowCmd.dq[leg] = calcQd(leg, calcQ(leg, getFootPosition(lowState, leg), "BODY"),
                                  Apply(Back, VMinus(goal.vel[leg], est.velocity)))
       /\ contact[leg] = 1
            => lowCmd.tau[leg]
              = calcTau(leg, lowState.q[leg], Apply(Back, Scaled(<<-1, 1>>, pushed[leg])))

\* The body's turn that FREESTAND's stick asks for.
StickTurn == rpyToRotMat(Tilt(stick.lx, rowMax), Tilt(stick.ly, pitchMax),
  Tilt(-stick.rx, yawMax))

\* How far the stick lifts the body.
StickLift == <<Zero, Zero, Times(<<stick.ry, 1>>, heightMax)>>

\* What FREESTAND remembers and commands.
Placed ==
  /\ initVec.OX = getFootPosition(lowState, 0)
  /\ \A leg \in Legs : initVec.XP[leg]
       = VMinus(getFootPosition(lowState, leg), getFootPosition(lowState, 0))
  /\ "q" \in DOMAIN lowCmd
  /\ stick # None =>
       /\ stick \in Sticks
       /\ \A leg \in Legs :
            lowCmd.q[leg].foot
              = Moved(homoMatrixInverse(homoMatrix(VPlus(Scaled(<<-1, 1>>, initVec.OX),
                StickLift), StickTurn)),
                                       initVec.XP[leg])

\* The inductive invariant: each state of the robot keeps, until the next tick, what was measured
\* and what it computed from that, and commands nothing else.
LegsInv ==
  /\ task \in {"idle", "measured", "TROTTING", "FREESTAND"}
  /\ task \in {"idle", "measured"} => stick = None
  /\ task # "idle" => Sensed
  /\ task = "TROTTING" => Commanded
  /\ task = "FREESTAND" => Placed

\* Before the first message nothing is measured and nothing is commanded.
LEMMA LegsInit == Init => LegsInv
  BY DEF Init, LegsInv

\* A message stores postures, attitude and speeds of one motion.
LEMMA LegsReceive ==
  ASSUME NEW q \in [Legs -> Postures], NEW c \in [Legs -> {0, 1}], NEW motion \in Motions,
         NEW e \in Attitudes, NEW place \in Places, Receive(q, c, motion, e, place), LegsInv
  PROVE  LegsInv'
<1>1. task' = "measured" /\ stick' = None
  BY DEF Receive, LegsInv
<1>2. /\ lowState'.q = q /\ lowState'.quaternion = e /\ lowState'.gyro = motion.w
      /\ \A leg \in Legs : c[leg] = 1 => lowState'.dq[leg] = Holding(leg, q[leg], motion)
      /\ est'.position = place /\ est'.velocity = Apply(quatToRotMat(e), motion.v) /\ contact' = c
  BY DEF Receive, Measured
<1>3. OneMotion'
  BY <1>2 DEF OneMotion, getRotMat
<1>4. Sensed'
  BY <1>2, <1>3 DEF Sensed
<1>. QED  BY <1>1, <1>4 DEF LegsInv

\* TROTTING commands angles, rates and torques of the goals and forces of this tick.
LEMMA LegsTrotting ==
  ASSUME NEW places \in Goals, NEW F \in Forces, Trotting_run(places, F), LegsInv
  PROVE  LegsInv'
<1>. DEFINE R == getRotMat(lowState)
            Back == Transpose(R)
            wanted == Wanted(places)
<1>1. task' = "TROTTING" /\ UNCHANGED <<lowState, est, contact, initVec, stick>> /\ goal' = wanted
      /\ pushed' = F
      /\ lowCmd'
           = [q |-> calcQQd(wanted).q, dq |-> calcQQd(wanted).dq, tau |-> calcTau_trot(F, wanted)]
  BY DEF Trotting_run
<1>2. Sensed'
  <2>1. Sensed
    BY DEF LegsInv, Trotting_run
  <2>2. OneMotion'
    BY <1>1, <2>1 DEF Sensed, OneMotion
  <2>. QED  BY <1>1, <2>1, <2>2 DEF Sensed
<1>3. ASSUME NEW leg \in Legs
      PROVE  /\ wanted.pos[leg] = VPlus(est.position, Apply(R, places[leg]))
             /\ contact[leg] = 1 => wanted.vel[leg] = Null3
             /\ lowCmd'.q[leg]
                  = calcQ(leg, Apply(Back, VMinus(wanted.pos[leg], est.position)), "BODY")
             /\ lowCmd'.dq[leg] = calcQd(leg, calcQ(leg, getFootPosition(lowState, leg), "BODY"),
                                         Apply(Back, VMinus(wanted.vel[leg], est.velocity)))
             /\ contact[leg] = 1
                  => lowCmd'.tau[leg]
                    = calcTau(leg, lowState.q[leg], Apply(Back, Scaled(<<-1, 1>>, F[leg])))
  <2>1. wanted.pos[leg] = VPlus(est.position, Apply(R, places[leg]))
        /\ (contact[leg] = 1 => wanted.vel[leg] = Null3)
    BY DEF Wanted
  <2>. HIDE DEF wanted
  <2>2. lowCmd'.q[leg] = calcQ(leg, Apply(Back, VMinus(wanted.pos[leg], est.position)), "BODY")
    BY <1>1 DEF calcQQd, getQ
  <2>3. lowCmd'.dq[leg] = calcQd(leg, calcQ(leg, getFootPosition(lowState, leg), "BODY"),
                                 Apply(Back, VMinus(wanted.vel[leg], est.velocity)))
    BY <1>1 DEF calcQQd, getQd, getFeet2BPositions
  <2>4. ASSUME contact[leg] = 1
        PROVE  lowCmd'.tau[leg]
                 = calcTau(leg, lowState.q[leg], Apply(Back, Scaled(<<-1, 1>>, F[leg])))
    <3>1. contact[leg] # 0
      BY <2>4
    <3>2. lowCmd'.tau = calcTau_trot(F, wanted)
      BY <1>1
    <3>. QED  BY <3>1, <3>2 DEF calcTau_trot, getTau
  <2>. QED  BY <2>1, <2>2, <2>3, <2>4
<1>. HIDE DEF wanted
<1>4. Commanded'
  <2>1. \A leg \in Legs : goal'.pos[leg]
          = VPlus(est'.position, Apply(getRotMat(lowState'), places[leg]))
    BY <1>1, <1>3
  <2>. QED  BY <1>1, <1>3, <2>1 DEF Commanded
<1>. QED  BY <1>1, <1>2, <1>4 DEF LegsInv

\* What an action leaves alone stays as it was measured.
LEMMA SensedStays ==
  ASSUME Sensed, UNCHANGED <<lowState, est, contact>>
  PROVE  Sensed'
<1>1. OneMotion'
  BY DEF Sensed, OneMotion
<1>. QED  BY <1>1 DEF Sensed

\* FREESTAND starts from the measured feet.
LEMMA LegsEnter ==
  ASSUME FreeStand_enter, LegsInv
  PROVE  LegsInv'
<1>1. /\ task' = "FREESTAND" /\ UNCHANGED <<lowState, est, contact, goal, pushed, stick>> /\ stick
           = None
      /\ lowCmd'
           = [q |-> lowState.q, dq |-> [leg \in Legs |-> Null3], tau |-> [leg \in Legs |-> Null3]]
      /\ initVec' = [OX |-> getX(lowState), XP |-> getVecXP(lowState)]
      /\ Sensed
  BY DEF FreeStand_enter, LegsInv
<1>2. Sensed'
  BY <1>1, SensedStays
<1>3. Placed'
  <2>1. initVec'.OX = getFootPosition(lowState', 0)
    BY <1>1 DEF getX
  <2>2. \A leg \in Legs : initVec'.XP[leg]
          = VMinus(getFootPosition(lowState', leg), getFootPosition(lowState', 0))
    BY <1>1 DEF getX, getVecXP
  <2>3. "q" \in DOMAIN lowCmd' /\ stick' = None
    BY <1>1
  <2>. QED  BY <2>1, <2>2, <2>3 DEF Placed
<1>. QED  BY <1>1, <1>2, <1>3 DEF LegsInv

\* FREESTAND's tick turns and lifts the remembered feet as the stick asks.
LEMMA LegsRun ==
  ASSUME NEW v \in Sticks, FreeStand_run(v), LegsInv
  PROVE  LegsInv'
<1>. DEFINE placed == calcOP(Tilt(v.lx, rowMax), Tilt(v.ly, pitchMax), Tilt(-v.rx, yawMax),
              Times(<<v.ry, 1>>, heightMax))
<1>1. /\ task' = "FREESTAND" /\ UNCHANGED <<lowState, est, contact, goal, pushed, initVec>>
      /\ stick' = v
      /\ lowCmd' = [lowCmd EXCEPT !.q = [leg \in Legs |-> Reaching(placed[leg])]]
      /\ Sensed /\ Placed
  BY DEF FreeStand_run, LegsInv
<1>2. Sensed'
  BY <1>1, SensedStays
<1>3. Placed'
  <2>1. lowCmd'.q = [leg \in Legs |-> Reaching(placed[leg])] /\ "q" \in DOMAIN lowCmd'
    BY <1>1 DEF Placed
  <2>2. ASSUME NEW leg \in Legs
        PROVE  /\ lowCmd'.q[leg].foot = placed[leg]
               /\ placed[leg]
                    = Moved(homoMatrixInverse(homoMatrix(VPlus(Scaled(<<-1, 1>>, initVec.OX),
                      StickLift'), StickTurn')), initVec.XP[leg])
    <3>1. lowCmd'.q[leg].foot = placed[leg]
      <4>. HIDE DEF placed
      <4>. QED  BY <2>1 DEF Reaching
    <3>2. placed[leg]
            = Moved(homoMatrixInverse(homoMatrix(VPlus(Scaled(<<-1, 1>>, initVec.OX), StickLift'),
              StickTurn')), initVec.XP[leg])
      BY <1>1 DEF calcOP, StickLift, StickTurn
    <3>. QED  BY <3>1, <3>2
  <2>. HIDE DEF placed
  <2>3. initVec' = initVec /\ lowState' = lowState /\ stick' \in Sticks
    BY <1>1
  <2>. QED  BY <1>1, <2>1, <2>2, <2>3 DEF Placed
<1>. QED  BY <1>1, <1>2, <1>3 DEF LegsInv

\* After the command is sent the next tick starts anew.
LEMMA LegsSend ==
  ASSUME Send, LegsInv
  PROVE  LegsInv'
BY DEF Send, LegsInv

\* No step of the legs breaks the invariant.
LEMMA LegsStep == LegsInv /\ [Next]_vars => LegsInv'
<1>. SUFFICES ASSUME LegsInv, [Next]_vars PROVE LegsInv'
  OBVIOUS
<1>1. ASSUME NEW q \in [Legs -> Postures], NEW c \in [Legs -> {0, 1}], NEW motion \in Motions,
             NEW e \in Attitudes, NEW place \in Places, Receive(q, c, motion, e, place)
      PROVE  LegsInv'
  BY <1>1, LegsReceive
<1>2. ASSUME NEW places \in Goals, NEW F \in Forces, Trotting_run(places, F)
      PROVE  LegsInv'
  BY <1>2, LegsTrotting
<1>3. ASSUME NEW v \in Sticks, FreeStand_run(v) PROVE LegsInv'
  BY <1>3, LegsRun
<1>4. CASE UNCHANGED vars
  <2>1. /\ task' = task /\ stick' = stick /\ goal' = goal /\ pushed' = pushed /\ lowCmd' = lowCmd
        /\ initVec' = initVec
        /\ lowState' = lowState /\ est' = est /\ contact' = contact
    BY <1>4 DEF vars
  <2>2. Sensed => Sensed'
    BY <2>1, SensedStays
  <2>3. Commanded => Commanded'
    BY <2>1 DEF Commanded
  <2>4. Placed => Placed'
    <3>1. StickLift' = StickLift /\ StickTurn' = StickTurn
      BY <2>1 DEF StickLift, StickTurn
    <3>. QED  BY <2>1, <3>1 DEF Placed
  <2>. QED  BY <2>1, <2>2, <2>3, <2>4 DEF LegsInv
<1>. QED  BY <1>1, <1>2, <1>3, <1>4, LegsEnter, LegsSend DEF Next

\* The invariant holds of every tick.
THEOREM LegsKeep == Spec => []LegsInv
BY LegsInit, LegsStep, PTL DEF Spec

-----------------------------------------------------------------------------
(* What follows from it. *)
\* The attitude's matrix turns, and goals and forces are vectors.
LEMMA SensedIs ==
  ASSUME Sensed
  PROVE  /\ Turns(getRotMat(lowState)) /\ getRotMat(lowState) = quatToRotMat(lowState.quaternion)
         /\ lowState.quaternion \in Attitudes
         /\ est.position \in Vec
         /\ \A leg \in Legs : /\ lowState.q[leg] \in Postures /\ lowState.q[leg] \in Joints
                              /\ getFootPosition(lowState, leg) \in Vec
                              /\ calcQ(leg, getFootPosition(lowState, leg), "BODY")
                                   = lowState.q[leg]
<1>1. ASSUME NEW leg \in Legs
      PROVE  /\ lowState.q[leg] \in Postures /\ lowState.q[leg] \in Joints
             /\ getFootPosition(lowState, leg) \in Vec
             /\ calcQ(leg, getFootPosition(lowState, leg), "BODY") = lowState.q[leg]
  <2>1. /\ lowState.q[leg] \in Postures /\ lowState.q[leg] \in Joints
        /\ Negative(Down(lowState.q[leg]))
        /\ Negative(lowState.q[leg][3].s)
    BY PosturesAre DEF Sensed
  <2>2. ~Positive(lowState.q[leg][3].s)
    <3>1. lowState.q[leg][3].s \in Fraction
      BY <2>1, LegParts
    <3>. QED  BY <2>1, <3>1, SignLaws
  <2>. QED  BY <2>1, <2>2, RoundTrip, FootIs DEF getFootPosition
<1>. QED  BY <1>1, QuatTurns, LegTasksAssumption DEF Sensed, getRotMat, Vec

\* What joint rates do to the feet, the body's turning and its speed cancel on a foot that
\* stands.
THEOREM FeetStandStill == Spec => []StandingFeetStandStill
<1>1. LegsInv => StandingFeetStandStill
  <2>. SUFFICES ASSUME LegsInv, task = "measured", NEW leg \in Legs, contact[leg] = 1
                PROVE  getFeetVel(est, lowState)[leg] = Null3
    BY DEF StandingFeetStandStill
  <2>1. Sensed /\ OneMotion
    BY DEF LegsInv, Sensed
  <2>2. PICK motion \in Motions :
          /\ lowState.gyro = motion.w /\ est.velocity = Apply(getRotMat(lowState), motion.v)
          /\ lowState.dq[leg] = Holding(leg, lowState.q[leg], motion)
    BY <2>1 DEF OneMotion
  <2>3. getFeetVel(est, lowState)[leg]
          = VPlus(Apply(getRotMat(lowState),
                        VPlus(calcVEe(leg, lowState.q[leg], lowState.dq[leg]),
                              Apply(skew(lowState.gyro), calcPEe2B(leg, lowState.q[leg])))),
                  est.velocity)
    BY DEF getFeetVel, getFeet2BVelocities, getFootVelocity, getFootPosition
  <2>. QED  BY <2>1, <2>2, <2>3, SensedIs, StandsStill
<1>. QED  BY <1>1, LegsKeep, PTL

\* The legs' torques do the work of the forces that were asked for.
THEOREM TorquesDoTheWork == Spec => []WorkReachesBody
<1>1. LegsInv => WorkReachesBody
  <2>. SUFFICES ASSUME LegsInv, task = "TROTTING", NEW leg \in Legs, contact[leg] = 1
                PROVE  LET R == getRotMat(lowState)
                           arm == Apply(R, calcPEe2B(leg, lowState.q[leg]))
                           velocity == VPlus(est.velocity, cross(Apply(R, lowState.gyro), arm)) IN
                       Dot(lowCmd.tau[leg], lowState.dq[leg]) = Dot(pushed[leg], velocity)
    BY DEF WorkReachesBody
  <2>1. Sensed /\ OneMotion /\ Commanded
    BY DEF LegsInv, Sensed
  <2>2. PICK motion \in Motions :
          /\ lowState.gyro = motion.w /\ est.velocity = Apply(getRotMat(lowState), motion.v)
          /\ lowState.dq[leg] = Holding(leg, lowState.q[leg], motion)
    BY <2>1 DEF OneMotion
  <2>3. /\ pushed[leg] \in Vec
        /\ lowCmd.tau[leg]
             = calcTau(leg, lowState.q[leg],
               Apply(Transpose(getRotMat(lowState)), Scaled(<<-1, 1>>, pushed[leg])))
    BY <2>1, LegTasksAssumption DEF Commanded, Vec
  <2>. QED  BY <2>1, <2>2, <2>3, SensedIs, WorkIs
<1>. QED  BY <1>1, LegsKeep, PTL

\* While the body does not turn, the rates TROTTING commands to a standing leg are the
\* measured ones.
THEOREM RatesStay == Spec => []RatesHoldFeet
<1>1. LegsInv => RatesHoldFeet
  <2>. SUFFICES ASSUME LegsInv, task = "TROTTING", NEW leg \in Legs, contact[leg]
                         = 1, lowState.gyro = Null3
                PROVE  lowCmd.dq[leg] = lowState.dq[leg]
    BY DEF RatesHoldFeet
  <2>1. Sensed /\ OneMotion /\ Commanded
    BY DEF LegsInv, Sensed
  <2>2. PICK motion \in Motions :
          /\ lowState.gyro = motion.w /\ est.velocity = Apply(getRotMat(lowState), motion.v)
          /\ lowState.dq[leg] = Holding(leg, lowState.q[leg], motion)
    BY <2>1 DEF OneMotion
  <2>3. lowCmd.dq[leg]
          = calcQd(leg, lowState.q[leg],
            Apply(Transpose(getRotMat(lowState)), VMinus(Null3, est.velocity)))
    BY <2>1, SensedIs DEF Commanded
  <2>. QED  BY <2>1, <2>2, <2>3, SensedIs, RatesAre, ZenonT(60)
<1>. QED  BY <1>1, LegsKeep, PTL

\* TROTTING's angles put a foot on its goal or, out of reach, stretch the leg towards it.
THEOREM GoalsAreReached == Spec => []GoalIsReached
<1>1. LegsInv => GoalIsReached
  <2>. SUFFICES ASSUME LegsInv, task = "TROTTING" PROVE GoalIsReached
    BY DEF GoalIsReached
  <2>1. Sensed /\ Commanded
    BY DEF LegsInv
  <2>2. PICK places \in Goals : \A leg \in Legs :
          goal.pos[leg] = VPlus(est.position, Apply(getRotMat(lowState), places[leg]))
    BY <2>1 DEF Commanded
  <2>. SUFFICES ASSUME NEW leg \in Legs
       PROVE  LET a == lowCmd.q[leg] IN
              IF a[1] = NaN
              THEN LET p ==
                VMinus(Apply(Transpose(getRotMat(lowState)), VMinus(goal.pos[leg], est.position)),
                  pHip2B[leg]) IN
                   Less(Plus(Square(p[2]), Square(p[3])), Square(abadLinkLength))
              ELSE /\ ~Positive(a[3].s)
                   /\ \/ Landing(leg, a) = goal.pos[leg]
                      \/ LET way  == VMinus(goal.pos[leg], Shoulder(leg, a))
                             done == VMinus(Landing(leg, a), Shoulder(leg, a)) IN
                         /\ a[3] = Angle(One, Zero)
                         /\ cross(way, done) = Null3
                         /\ Less(Dot(done, done), Dot(way, done))
    BY DEF GoalIsReached
  <2>. DEFINE place == places[leg]
              a == lowCmd.q[leg]
              R == getRotMat(lowState)
              h == est.position
  <2>3. place \in Vec /\ HasRoots(leg, VMinus(place, pHip2B[leg]))
    BY LegTasksAssumption DEF Vec
  <2>4. Turns(R) /\ h \in Vec /\ goal.pos[leg] = VPlus(h, Apply(R, place))
    BY <2>1, <2>2, SensedIs
  <2>. HIDE DEF place
  <2>5. Apply(Transpose(R), VMinus(goal.pos[leg], h)) = place
    BY <2>3, <2>4, TurnedBack
  <2>6. a = calcQ(leg, place, "BODY")
    BY <2>1, <2>5 DEF Commanded
  <2>7. Brings(leg, place, a)
    BY <2>3, <2>6, CalcQReaches
  <2>8. Landing(leg, a) = VPlus(h, Apply(R, calcPEe2B(leg, a))) /\ Shoulder(leg, a)
          = VPlus(h, Apply(R, Upper(leg, a)))
    BY DEF Landing, Shoulder, Upper
  <2>. HIDE DEF a
  <2>9. CASE a[1] = NaN
    BY <2>5, <2>7, <2>9 DEF Brings, a
  <2>10. CASE a[1] # NaN
    <3>1. /\ ~Positive(a[3].s)
          /\ \/ Landing(leg, a) = goal.pos[leg]
             \/ /\ a[3] = Angle(One, Zero)
                /\ cross(VMinus(goal.pos[leg], Shoulder(leg, a)),
                     VMinus(Landing(leg, a), Shoulder(leg, a))) = Null3
                /\ Less(Dot(VMinus(Landing(leg, a), Shoulder(leg, a)),
                     VMinus(Landing(leg, a), Shoulder(leg, a))),
                        Dot(VMinus(goal.pos[leg], Shoulder(leg, a)),
                          VMinus(Landing(leg, a), Shoulder(leg, a))))
      BY <2>3, <2>4, <2>7, <2>8, <2>10, BringsInWorld
    <3>. QED  BY <2>10, <3>1 DEF a
  <2>. QED  BY <2>9, <2>10
<1>. QED  BY <1>1, LegsKeep, PTL

\* The stick's turn is one, and left alone it is none.
LEMMA StickIs ==
  ASSUME stick \in Sticks
  PROVE  /\ StickTurn \in Mat3 /\ Turns(Transpose(StickTurn)) /\ StickLift \in Vec
         /\ stick.lx = 0 /\ stick.ly = 0 /\ stick.rx = 0 /\ stick.ry = 0
              => StickLift = NullV /\ \A v \in Vec : Apply(Transpose(StickTurn), v) = v
<1>. DEFINE row == Tilt(stick.lx, rowMax)
            pitch == Tilt(stick.ly, pitchMax)
            yaw == Tilt(-stick.rx, yawMax)
<1>1. /\ stick.lx \in {-1, 0, 1} /\ stick.ly \in {-1, 0, 1} /\ stick.rx \in {-1, 0, 1}
      /\ stick.ry \in {-1, 0, 1}
      /\ rowMax \in Angles /\ pitchMax \in Angles /\ yawMax \in Angles /\ heightMax \in Fraction
  BY LegTasksAssumption
<1>2. ASSUME NEW value \in {-1, 0, 1}, NEW max \in Angles
      PROVE  Tilt(value, max) \in Angles
  <2>1. max.c \in Fraction /\ max.s \in Fraction /\ Plus(Square(max.c), Square(max.s)) = One
    BY AngleParts
  <2>2. CASE value = 0
    BY <2>2, StraightIs DEF Tilt
  <2>3. CASE value = 1
    <3>1. Times(<<1, 1>>, max.s) = max.s
      BY <2>1, Neutral DEF One
    <3>. QED  BY <2>1, <2>3, <3>1 DEF Tilt, Angles, Angle
  <2>4. CASE value = -1
    <3>1. Times(<<-1, 1>>, max.s) = Opposite(max.s) /\ Square(Opposite(max.s)) = Square(max.s)
          /\ Opposite(max.s) \in Fraction
      BY <2>1, MinusTerms, SquareOpposite, MoreClosed DEF Opposite
    <3>2. Tilt(value, max) = Angle(max.c, Opposite(max.s))
      BY <2>4, <3>1 DEF Tilt
    <3>. QED  BY <2>1, <3>1, <3>2 DEF Angles, Angle
  <2>. QED  BY <2>2, <2>3, <2>4
<1>3. row \in Angles /\ pitch \in Angles /\ yaw \in Angles
  <2>1. -stick.rx \in {-1, 0, 1}
    BY <1>1
  <2>. QED  BY <1>1, <1>2, <2>1
<1>4. stick.lx = 0 /\ stick.ly = 0 /\ stick.rx = 0
        => row = Angle(One, Zero) /\ pitch = Angle(One, Zero) /\ yaw = Angle(One, Zero)
  <2>1. \A max : Tilt(0, max) = Angle(One, Zero)
    BY DEF Tilt
  <2>2. \A z \in Int : z + -z = 0 /\ -z \in Int
    OBVIOUS
  <2>3. stick.rx \in Int
    BY <1>1
  <2>4. ASSUME NEW z \in Int, NEW y \in Int, z = 0, z + y = 0 PROVE y = 0
    BY <2>4
  <2>5. stick.rx = 0 => -stick.rx = 0
    BY <2>2, <2>3, <2>4
  <2>. QED  BY <2>1, <2>5
<1>5. Times(<<stick.ry, 1>>, heightMax) \in Fraction
  <2>1. <<stick.ry, 1>> \in Fraction
    BY <1>1, WholeIs
  <2>. QED  BY <1>1, <2>1, Closed
<1>6. StickLift \in Vec
  BY <1>5, VecParts, Closed DEF StickLift
<1>7. stick.ry = 0 => StickLift = NullV
  <2>1. Times(Zero, heightMax) = Zero
    BY <1>1, Neutral
  <2>. QED  BY <2>1 DEF StickLift, NullV, Zero
<1>. HIDE DEF row, pitch, yaw
<1>8. StickTurn = rpyToRotMat(row, pitch, yaw)
  BY DEF StickTurn, row, pitch, yaw
<1>. QED  BY <1>3, <1>4, <1>6, <1>7, <1>8, RpyTurns

\* Whatever FREESTAND's stick asks, the feet stay where they are in the world.
THEOREM FeetStay == Spec => []FeetKeepTheirPlaces
<1>1. LegsInv => FeetKeepTheirPlaces
  <2>. SUFFICES ASSUME LegsInv, task = "FREESTAND", stick # None PROVE FeetKeepTheirPlaces
    BY DEF FeetKeepTheirPlaces
  <2>1. Sensed /\ Placed /\ stick \in Sticks /\ 0 \in Legs
    BY LegTasksAssumption DEF LegsInv, Placed
  <2>. DEFINE T == Transpose(StickTurn)
              P(i) == getFootPosition(lowState, i)
              foot(i) == lowCmd.q[i].foot
  <2>2. T \in Mat3 /\ Turns(T) /\ StickLift \in Vec
    BY <2>1, StickIs DEF Turns
  <2>3. ASSUME NEW i \in Legs
        PROVE  /\ P(i) \in Vec /\ VMinus(P(i), StickLift) \in Vec
               /\ foot(i) = Apply(T, VMinus(P(i), StickLift)) /\ foot(i) \in Vec
    <3>1. P(i) \in Vec /\ P(0) \in Vec
      BY <2>1, SensedIs
    <3>2. VMinus(P(i), StickLift) \in Vec
      BY <2>2, <3>1, VecLaws
    <3>3. foot(i) = Apply(T, VMinus(P(i), StickLift))
      <4>1. foot(i)
              = Moved(homoMatrixInverse(homoMatrix(VPlus(Scaled(<<-1, 1>>, P(0)), StickLift),
                StickTurn)), VMinus(P(i), P(0)))
        BY <2>1 DEF Placed
      <4>2. StickTurn \in Mat3
        BY <2>1, StickIs
      <4>. HIDE DEF P
      <4>. QED  BY <2>2, <3>1, <4>1, <4>2, PlacedFeet
    <3>. QED  BY <2>2, <3>1, <3>2, <3>3, ApplyIs
  <2>4. ASSUME NEW i \in Legs, NEW j \in Legs
        PROVE  Dot(VMinus(foot(i), foot(j)), VMinus(foot(i), foot(j)))
                 = Dot(VMinus(P(i), P(j)), VMinus(P(i), P(j)))
    <3>. DEFINE v == VMinus(P(i), StickLift)
                w == VMinus(P(j), StickLift)
    <3>1. v \in Vec /\ w \in Vec /\ foot(i) = Apply(T, v) /\ foot(j) = Apply(T, w) /\ P(i) \in Vec
          /\ P(j) \in Vec
      BY <2>3
    <3>2. VMinus(v, w) = VMinus(P(i), P(j)) /\ VMinus(v, w) \in Vec
      <4>. HIDE DEF P
      <4>. QED  BY <2>2, <3>1, ShiftedBack
    <3>. HIDE DEF v, w, P, T, foot
    <3>3. VMinus(foot(i), foot(j)) = Apply(T, VMinus(v, w))
      BY <2>2, <3>1, ApplyLaws, Closed
    <3>4. Dot(Apply(T, VMinus(v, w)), Apply(T, VMinus(v, w))) = Dot(VMinus(v, w), VMinus(v, w))
      BY <2>2, <3>2, TurnsKeep
    <3>. QED  BY <3>2, <3>3, <3>4
  <2>5. ASSUME NEW i \in Legs
        PROVE  Dot(VMinus(foot(i), Null3), VMinus(foot(i), Null3))
                 = Dot(VMinus(P(i), StickLift), VMinus(P(i), StickLift))
    <3>. DEFINE v == VMinus(P(i), StickLift)
    <3>1. foot(i) = Apply(T, v) /\ v \in Vec /\ foot(i) \in Vec
      BY <2>3
    <3>. HIDE DEF v, P, T, foot
    <3>2. VMinus(foot(i), Null3) = foot(i)
      BY <3>1, NullLaws DEF Null3, NullV
    <3>. QED  BY <2>2, <3>1, <3>2, TurnsKeep DEF v
  <2>6. ASSUME stick.lx = 0, stick.ly = 0, stick.rx = 0, stick.ry = 0, NEW i \in Legs
        PROVE  calcQ(i, foot(i), "BODY") = lowState.q[i]
    <3>1. StickLift = NullV /\ \A v \in Vec : Apply(T, v) = v
      BY <2>1, <2>6, StickIs
    <3>2. foot(i) = P(i)
      <4>1. P(i) \in Vec /\ foot(i) = Apply(T, VMinus(P(i), StickLift))
        BY <2>3, <2>6
      <4>2. VMinus(P(i), NullV) = P(i)
        BY <4>1, NullLaws
      <4>. QED  BY <3>1, <4>1, <4>2
    <3>. QED  BY <2>1, <2>6, <3>2, SensedIs
  <2>7. getFeet2BPositions(lowState) = [i \in Legs |-> P(i)]
    BY DEF getFeet2BPositions
  <2>. QED  BY <2>4, <2>5, <2>6, <2>7 DEF FeetKeepTheirPlaces, StickLift
<1>. QED  BY <1>1, LegsKeep, PTL
==============================================================================
