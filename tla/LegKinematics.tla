----------------------------- MODULE LegKinematics -----------------------------
(***************************************************************************)
(* One leg of the robot: where its foot is (calcPEe2H, calcPEe2B), which   *)
(* joint angles put the foot at a place (calcQ), and the same for          *)
(* velocities and forces (calcJaco and its users).  Numbers are exact.  An *)
(* angle is its cosine and sine, so that turns of 2 pi are not told apart. *)
(* Legs 0 and 2 are on the right.                                          *)
(***************************************************************************)
EXTENDS Rational

CONSTANTS
  abadLinkLength, hipLinkLength, kneeLinkLength,
  pHip2B      \* where the hip of each leg is in the body's frame

ASSUME LinkAssumption ==
  /\ abadLinkLength \in Fraction /\ Positive(abadLinkLength)
  /\ hipLinkLength \in Fraction /\ Positive(hipLinkLength)
  /\ kneeLinkLength = hipLinkLength   \* as both robots are built

Angle(c, s) == [c |-> c, s |-> s]
Angles == {a \in [c : Fraction, s : Fraction] : Plus(Square(a.c), Square(a.s)) = One}
\* An angle that is not a number.
NaN == Angle(<<0, 0>>, <<0, 0>>)

sideSign(leg) == IF leg \in {0, 2} THEN <<-1, 1>> ELSE One

\* The links as the code signs them: sideways, down, down.
l1(leg) == Times(sideSign(leg), abadLinkLength)
l2 == Minus(Zero, hipLinkLength)
l3 == Minus(Zero, kneeLinkLength)

\* The sum of the angles of thigh and knee.
Sum23(q) ==
  Angle(Minus(Times(q[2].c, q[3].c), Times(q[2].s, q[3].s)),
        Plus(Times(q[2].s, q[3].c), Times(q[2].c, q[3].s)))

\* How far the foot is along the leg's plane, seen from the hip axis.
Down(q) == Plus(Times(l3, Sum23(q).c), Times(l2, q[2].c))
Fore(q) == Plus(Times(l3, Sum23(q).s), Times(l2, q[2].s))

calcPEe2H(leg, q) ==
  << Fore(q),
     Minus(Times(l1(leg), q[1].c), Times(q[1].s, Down(q))),
     Plus(Times(l1(leg), q[1].s), Times(q[1].c, Down(q))) >>

calcPEe2B(leg, q) == VPlus(pHip2B[leg], calcPEe2H(leg, q))

\* Mistake: the hip's own offset swings the foot the wrong way.
calcJaco_WrongOffset(leg, q) ==
  << << Zero, Down(q), Times(l3, Sum23(q).c) >>,
     << Minus(Opposite(Times(q[1].c, Down(q))), Times(l1(leg), q[1].s)),
        Times(q[1].s, Fore(q)), Times(l3, Times(q[1].s, Sum23(q).s)) >>,
     << Minus(Opposite(Times(q[1].s, Down(q))), Times(l1(leg), q[1].c)),
        Opposite(Times(q[1].c, Fore(q))), Opposite(Times(l3, Times(q[1].c, Sum23(q).s))) >> >>

calcJaco(leg, q) ==
  << << Zero, Down(q), Times(l3, Sum23(q).c) >>,
     << Minus(Opposite(Times(q[1].c, Down(q))), Times(l1(leg), q[1].s)),
        Times(q[1].s, Fore(q)), Times(l3, Times(q[1].s, Sum23(q).s)) >>,
     << Plus(Opposite(Times(q[1].s, Down(q))), Times(l1(leg), q[1].c)),
        Opposite(Times(q[1].c, Fore(q))), Opposite(Times(l3, Times(q[1].c, Sum23(q).s))) >> >>

calcVEe(leg, q, qd) == Apply(calcJaco(leg, q), qd)

\* Mistake: the force is turned the way a velocity is.
calcTau_NotTransposed(leg, q, force) == Apply(calcJaco(leg, q), force)

calcTau(leg, q, force) == Apply(Transpose(calcJaco(leg, q)), force)

-----------------------------------------------------------------------------
(* Inverse kinematics *)

\* The integer square root of k, from a guess that is not too small, by Newton's method.
Isqrt[kg \in (Nat \ {0}) \X (Nat \ {0})] ==
  LET next == (kg[2] + kg[1] \div kg[2]) \div 2 IN
  IF next >= kg[2] THEN kg[2] ELSE Isqrt[<<kg[1], next>>]
Whole(k) == IF k = 0 THEN 0 ELSE Isqrt[<<k, (k + 1) \div 2 + 1>>]

\* The root of the square of a fraction.
Root(a) == <<Whole(a[1]), Whole(a[2])>>
IsSquare(a) == \A i \in 1..2 : Whole(a[i]) * Whole(a[i]) = a[i]

atan2(y, x) ==
  LET r == Root(Plus(Square(x), Square(y))) IN
  IF r = Zero THEN Angle(One, Zero) ELSE Angle(Over(x, r), Over(y, r))

\* What is under the root of q1_ik: negative if the foot is nearer to the hip's axis
\* than the first link is long.
UnderRoot(py, pz, link) == Minus(Plus(Square(py), Square(pz)), Square(link))

q1_ik(py, pz, link) ==
  LET len == Root(UnderRoot(py, pz, link)) IN
  atan2(Plus(Times(pz, link), Times(py, len)), Minus(Times(py, link), Times(pz, len)))

\* By the law of cosines, against the cosine of the knee's angle.
KneeCosine(b) ==
  Over(Minus(Plus(Square(l2), Square(l3)), b), Times(<<2, 1>>, Times(l2, l3)))

\* Mistake: the knee bends forward.
q3_ik_Forward(b) ==
  LET temp == KneeCosine(b) IN
  IF Less(One, temp) THEN Angle(<<-1, 1>>, Zero)
  ELSE IF Less(temp, <<-1, 1>>) THEN Angle(One, Zero)
  ELSE Angle(Opposite(temp), Root(Minus(One, Square(temp))))

\* From b, the square of the distance between shoulder and foot: acos of temp, cut to
\* -1..1, less pi.
q3_ik(b) ==
  LET temp == KneeCosine(b) IN
  IF Less(One, temp) THEN Angle(<<-1, 1>>, Zero)
  ELSE IF Less(temp, <<-1, 1>>) THEN Angle(One, Zero)
  ELSE Angle(Opposite(temp), Opposite(Root(Minus(One, Square(temp)))))

q2_ik(q1, q3, px, py, pz) ==
  LET a1 == Minus(Times(py, q1.s), Times(pz, q1.c))
      m1 == Times(l3, q3.s)
      m2 == Plus(l2, Times(l3, q3.c)) IN
  atan2(Plus(Times(m1, a1), Times(m2, px)), Minus(Times(m1, px), Times(m2, a1)))

\* The square of the distance between foot and shoulder.
Reach(p) == Minus(Dot(p, p), Square(abadLinkLength))

\* calcQ, for the frames its callers ask for.
calcQ(leg, pEe, frame) ==
  LET p == IF frame = "HIP" THEN pEe ELSE VMinus(pEe, pHip2B[leg])
      b == Reach(p) IN
  IF Negative(UnderRoot(p[2], p[3], l1(leg)))
  THEN <<NaN, NaN, IF Negative(b) THEN NaN ELSE q3_ik(b)>>
  ELSE LET q1 == q1_ik(p[2], p[3], l1(leg))
           q3 == q3_ik(b) IN
       <<q1, q2_ik(q1, q3, p[1], p[2], p[3]), q3>>

\* All roots that calcQ draws for a place seen from the hip are fractions.
HasRoots(leg, p) ==
  LET under == UnderRoot(p[2], p[3], l1(leg))
      temp == KneeCosine(Reach(p)) IN
  Negative(under) \/ ( /\ IsSquare(under)
                       /\ IF Less(temp, <<-1, 1>>) THEN IsSquare(Reach(p))
                          ELSE IsSquare(Minus(One, Square(temp))) )

\* calcQd of joint angles.  Joint limits keep the knee from being straight, so that no
\* measured leg has a singular Jacobian.
calcQd(leg, q, vEe) == Solved(calcJaco(leg, q), vEe)
===============================================================================
