---------------------------- MODULE RobotKinematics ----------------------------
(***************************************************************************)
(* The robot as its controller sees it: LowlevelState's attitude and       *)
(* rates, QuadrupedRobot's feet in the body and in the world, and the      *)
(* Estimator's getters on top of them.  A lowState record holds            *)
(*    q, dq       what the joints of every leg measure                     *)
(*    quaternion, gyro                                                     *)
(* and an est record the estimate's position and velocity.                 *)
(***************************************************************************)
EXTENDS LegKinematics

CONSTANT Legs

Two == <<2, 1>>

\* From twice the products of the quaternion's elements.
RotMat(m) ==
  << << Minus(One, Plus(m[2][2], m[3][3])), Minus(m[1][2], m[0][3]), Plus(m[1][3], m[0][2]) >>,
     << Plus(m[1][2], m[0][3]), Minus(One, Plus(m[1][1], m[3][3])), Minus(m[2][3], m[0][1]) >>,
     << Minus(m[1][3], m[0][2]), Plus(m[2][3], m[0][1]), Minus(One, Plus(m[1][1], m[2][2])) >> >>
quatToRotMat(e) ==
  RotMat([i \in 0..3 |-> [j \in 0..3 |-> Times(Two, Times(e[i + 1], e[j + 1]))]])

getRotMat(lowState) == quatToRotMat(lowState.quaternion)

skew(v) == << <<Zero, Opposite(v[3]), v[2]>>,
              <<v[3], Zero, Opposite(v[1])>>,
              <<Opposite(v[2]), v[1], Zero>> >>

getFootPosition(lowState, leg) == calcPEe2B(leg, lowState.q[leg])
getFootVelocity(lowState, leg) == calcVEe(leg, lowState.q[leg], lowState.dq[leg])

getX(lowState) == getFootPosition(lowState, 0)
getVecXP(lowState) ==
  [leg \in Legs |-> VMinus(getFootPosition(lowState, leg), getX(lowState))]

\* In the body's frame.
getFeet2BPositions(lowState) == [leg \in Legs |-> getFootPosition(lowState, leg)]

\* Mistake: the feet of a body that turns are taken to turn with it.
getFeet2BVelocities_NoTurn(lowState) ==
  [leg \in Legs |-> Apply(getRotMat(lowState), getFootVelocity(lowState, leg))]

\* In the world's directions, seen from the body's centre.
getFeet2BVelocities(lowState) ==
  [leg \in Legs |->
     Apply(getRotMat(lowState),
           VPlus(getFootVelocity(lowState, leg),
                 Apply(skew(lowState.gyro), getFootPosition(lowState, leg))))]

getQ(pos)             == [leg \in Legs |-> calcQ(leg, pos[leg], "BODY")]
getQd(pos, vel)       == [leg \in Legs |-> calcQd(leg, calcQ(leg, pos[leg], "BODY"), vel[leg])]
getTau(q, feetForce)  == [leg \in Legs |-> calcTau(leg, q[leg], feetForce[leg])]

-----------------------------------------------------------------------------
(* Estimator *)

getFootPos(est, lowState, leg) ==
  VPlus(est.position, Apply(getRotMat(lowState), getFootPosition(lowState, leg)))
getFeetPos(est, lowState) == [leg \in Legs |-> getFootPos(est, lowState, leg)]

getFeetVel(est, lowState) ==
  LET relative == getFeet2BVelocities(lowState) IN
  [leg \in Legs |-> VPlus(relative[leg], est.velocity)]

-----------------------------------------------------------------------------
(* mathTools: poses.  Angles are cosine and sine, as in LegKinematics. *)

rotx(a) == << <<One, Zero, Zero>>, <<Zero, a.c, Opposite(a.s)>>, <<Zero, a.s, a.c>> >>
roty(a) == << <<a.c, Zero, a.s>>, <<Zero, One, Zero>>, <<Opposite(a.s), Zero, a.c>> >>
rotz(a) == << <<a.c, Opposite(a.s), Zero>>, <<a.s, a.c, Zero>>, <<Zero, Zero, One>> >>

rpyToRotMat(row, pitch, yaw) == Product(rotz(yaw), Product(roty(pitch), rotx(row)))

homoMatrix(p, R) == [p |-> p, R |-> R]

\* Mistake: the place is turned round, but not turned.
homoMatrixInverse_NotTurned(T) == homoMatrix(Scaled(<<-1, 1>>, T.p), Transpose(T.R))

homoMatrixInverse(T) ==
  homoMatrix(Scaled(<<-1, 1>>, Apply(Transpose(T.R), T.p)), Transpose(T.R))

Moved(T, v) == VPlus(Apply(T.R, v), T.p)
===============================================================================
