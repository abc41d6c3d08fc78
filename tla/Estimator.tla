------------------------------- MODULE Estimator -------------------------------
(***************************************************************************)
(* The estimator: a Kalman filter that runs in every tick, after the       *)
(* contacts and phases of the feet are known and before any state of the   *)
(* controller reads a position or velocity.  One axis of it, the vertical  *)
(* one, and one foot: xhat is the body's position, its velocity and the    *)
(* foot's position; y is the foot as seen from the body, its velocity      *)
(* there, and its height, which is always said to be 0.  Numbers are       *)
(* exact; a tick lasts one unit of time.  The code's _RInit and _QInit     *)
(* have zeros between the elements of this axis; their couplings to the    *)
(* other axes and feet, which are not small, are left out, and with them   *)
(* what they do to the sign of the code's covariance.                      *)
(*                                                                         *)
(* Around it: a body that accelerates, a foot that stands or swings or     *)
(* does not keep to the schedule of contacts, and sensors without noise.   *)
(***************************************************************************)
EXTENDS Rational

CONSTANTS
  largeVariance,
  RInit,          \* the variances of the measurements, at trust 1
  QInit,          \* the variances of what the model says of a tick, likewise
  Starts,         \* where the body may be when the program starts
  Accelerations,
  Phases,         \* tenths of a stance or swing
  Ticks           \* bound: the fractions outgrow TLC's numbers later

ASSUME EstimatorAssumption ==
  /\ largeVariance \in Fraction /\ Positive(largeVariance)
  /\ RInit \in [1..3 -> Fraction] /\ \A i \in 1..3 : Positive(RInit[i])
  /\ QInit \in [1..3 -> Fraction] /\ \A i \in 1..3 : ~Negative(QInit[i])
  /\ Positive(QInit[3])
  /\ Starts \subseteq Fraction /\ Accelerations \subseteq Fraction
  /\ Phases \subseteq 0..10

VARIABLES
  truth,                  \* <<body, its velocity, foot>>
  xhat, P,                \* the estimate and its covariance
  xpriori, Ppriori, R, y, \* of the last run
  excuse,                 \* how far the truth may be from the estimate
  tick

vars == <<truth, xhat, P, xpriori, Ppriori, R, y, excuse, tick>>

Diagonal(d) ==
  Vector([i \in 1..3 |-> Vector([j \in 1..3 |-> IF i = j THEN d[i] ELSE Zero])])
Neg == <<-1, 1>>

A == << <<One, One, Zero>>, <<Zero, One, Zero>>, <<Zero, Zero, One>> >>
B == <<Zero, One, Zero>>
C == << <<Neg, Zero, One>>, <<Zero, Neg, Zero>>, <<Zero, Zero, One>> >>

\* _initSystem.
Init ==
  /\ xhat = <<Zero, Zero, Zero>>
  /\ P = Diagonal(<<largeVariance, largeVariance, largeVariance>>)
  /\ xpriori = xhat /\ Ppriori = P /\ R = P /\ y = xhat
  /\ tick = 0
  /\ truth \in {<<p, Zero, Zero>> : p \in Starts}
  /\ excuse = Over(Square(truth[1]), largeVariance)

\* With windowRatio 0.2: the trust in a foot grows from 0 as it lands, and falls to 0 as
\* it leaves.
\* Mistake: as it leaves the foot is trusted to the end.
windowFunc_NoFall(x) == IF x < 2 THEN Frac(x, 2) ELSE One

windowFunc(x) ==
  IF x < 2 THEN Frac(x, 2) ELSE IF x > 8 THEN Frac(10 - x, 2) ELSE One

\* Mistake: a swinging foot is believed as one that stands.
Variances_Believed(contact, phase) == [Q |-> QInit, R |-> RInit]

\* _Q and _R: the foot's place from tick to tick, its velocity and its height are given
\* the large variance while it swings, and more than theirs while it is hardly trusted.
Variances(contact, phase) ==
  LET wary   == Plus(One, Times(Minus(One, windowFunc(phase)), largeVariance))
      of(v)  == IF contact = 0 THEN largeVariance ELSE Times(wary, v)
  IN  [Q |-> <<QInit[1], QInit[2], of(QInit[3])>>,
       R |-> <<RInit[1], of(RInit[2]), of(RInit[3])>>]

Sum(M, N)        == Vector([i \in 1..3 |-> VPlus(M[i], N[i])])
Difference(M, N) == Vector([i \in 1..3 |-> VMinus(M[i], N[i])])
Divided(S, M)    == LET N == Transpose(M) IN Transpose([i \in 1..3 |-> Solved(S, N[i])])
Identity         == Diagonal(<<One, One, One>>)

Predicted(Q) == Sum(Product(Product(A, P), Transpose(A)), Diagonal(Q))
xPredicted(u) == VPlus(Apply(A, xhat), Scaled(u, B))

\* Mistake: the variances of the measurements are forgotten.
Innovation_NoR(prior, noise) == Product(Product(C, prior), Transpose(C))

Innovation(prior, noise) == Sum(noise, Product(Product(C, prior), Transpose(C)))

\* _P, after the measurements.
Covariance(prior, noise, S) ==
  LET PCT == Product(prior, Transpose(C))
      IKC == Difference(Identity, Product(PCT, Divided(S, C))) IN
  Sum(Product(Product(IKC, prior), Transpose(IKC)),
      Product(Product(Product(PCT, Divided(S, noise)), Divided(Transpose(S), C)),
              Transpose(prior)))

\* The run of a tick: u is the acceleration in the world, gravity added.
run(u, measured, contact, phase) ==
  LET w     == Variances(contact, phase)
      prior == Predicted(w.Q)
      noise == Diagonal(w.R)
      S     == Innovation(prior, noise)
      gap   == VMinus(measured, Apply(C, xPredicted(u))) IN
  /\ xhat' = VPlus(xPredicted(u), Apply(Product(prior, Transpose(C)), Solved(S, gap)))
  /\ P' = Covariance(prior, noise, S)
  /\ xpriori' = xPredicted(u) /\ Ppriori' = prior /\ R' = noise /\ y' = measured

-----------------------------------------------------------------------------

\* What should be held against a foot that moves, in a tick, and one that is not on the
\* ground: the large variance if it is to swing, and otherwise its own one, the less the
\* nearer the foot is to the middle of its stance; from two tenths on it counts in full.
Share(phase) == Frac(Min({phase, 10 - phase, 2}), 2)
Due(contact, phase, variance) ==
  IF contact = 0 THEN largeVariance
  ELSE Times(Minus(Plus(One, largeVariance), Times(Share(phase), largeVariance)), variance)

\* A tick: the body accelerates; the foot stays or moves, whatever the wave generator's
\* schedule says of it; the estimator runs on exact measurements of that.
Tick(a, contact, phase, foot) ==
  /\ tick < Ticks
  /\ LET body == Plus(truth[1], truth[2])
         v    == Plus(truth[2], a)
         climb == Minus(foot, truth[3]) IN
     /\ truth' = <<body, v, foot>>
     /\ run(a, <<Minus(foot, body), Minus(climb, v), Zero>>, contact, phase)
     /\ excuse' = Plus(excuse,
          Plus(Over(Square(climb), Due(contact, phase, QInit[3])),
               Plus(Over(Square(climb), Due(contact, phase, RInit[2])),
                    Over(Square(foot), Due(contact, phase, RInit[3])))))
  /\ tick' = tick + 1

Next == \E a \in Accelerations, contact \in {0, 1}, phase \in Phases, foot \in {Zero, One} :
          Tick(a, contact, phase, foot)

Spec == Init /\ [][Next]_vars

-----------------------------------------------------------------------------

\* The inverse of R, which is diagonal.
Weighed(v) == Vector([i \in 1..3 |-> Over(v[i], R[i][i])])

\* The estimate is the best one: pulled back to what was expected and forward to what was
\* measured, each by its variance, it rests.
LeastSquares ==
  VMinus(xhat, xpriori)
    = Apply(Ppriori, Apply(Transpose(C), Weighed(VMinus(y, Apply(C, xhat)))))

\* How far the truth is from the estimate, in standard deviations, squared.
Doubt == LET error == VMinus(truth, xhat) IN Dot(error, Solved(P, error))

\* With exact sensors the truth never gets more doubtful than it was at the start while the
\* foot stands on the ground, whatever the body does and the schedule says.  A foot off the
\* ground, or one that moves, adds no more than its height and its movement over what is
\* due to it: the large variance if it is to swing, and if the schedule takes it for
\* standing the smaller one that goes with the trust at its phase.  So an estimate
\* that a foot drags along says so in its covariance.
DoubtExcused == ~Less(excuse, Doubt)
===============================================================================
