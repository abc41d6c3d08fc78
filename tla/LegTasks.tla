------------------------------- MODULE LegTasks -------------------------------
(***************************************************************************)
(* What the states ask of the legs.  TROTTING, in every tick: joint angles *)
(* and rates that bring the feet where the gait wants them (calcQQd), and  *)
(* joint torques that push as the balance controller or the swing wants    *)
(* (calcTau).  FREESTAND: joint angles that turn and lift the body over    *)
(* feet that stay where they were (enter, run).                            *)
(*                                                                         *)
(* Around them: a robot whose feet on the ground do not slip, sensors that *)
(* measure it, and an estimate that knows its velocity.                    *)
(***************************************************************************)
EXTENDS RobotKinematics

CONSTANTS
  Postures,   \* joint angles a leg can measure: foot below the hip, knee back
  Goals,      \* where the gait may want the feet, seen from the body
  Motions,    \* [v, w]: velocities and rates of the body, in its own frame
  Attitudes,  \* unit quaternions
  Places,     \* where the body may be
  Forces,     \* what calF may answer for a foot
  KpSwing, KdSwing,
  Sticks,     \* [lx, ly, rx, ry]
  rowMax, pitchMax, yawMax, heightMax

ASSUME LegTasksAssumption ==
  /\ 0 \in Legs /\ pHip2B \in [Legs -> [1..3 -> Fraction]]
  /\ Postures \subseteq {q \in [1..3 -> Angles] : Negative(Down(q)) /\ Negative(q[3].s)}
  /\ Goals \subseteq {g \in [Legs -> [1..3 -> Fraction]] :
                        \A leg \in Legs : HasRoots(leg, VMinus(g[leg], pHip2B[leg]))}
  /\ Motions \subseteq [v : [1..3 -> Fraction], w : [1..3 -> Fraction]]
  /\ Attitudes \subseteq {e \in [1..4 -> Fraction] :
       Plus(Plus(Square(e[1]), Square(e[2])), Plus(Square(e[3]), Square(e[4]))) = One}
  /\ Places \subseteq [1..3 -> Fraction]
  /\ Forces \subseteq [Legs -> [1..3 -> Fraction]]
  /\ KpSwing \in Fraction /\ KdSwing \in Fraction /\ heightMax \in Fraction
  /\ Sticks \subseteq [lx : {-1, 0, 1}, ly : {-1, 0, 1}, rx : {-1, 0, 1}, ry : {-1, 0, 1}]
  /\ rowMax \in Angles /\ pitchMax \in Angles /\ yawMax \in Angles

VARIABLES
  task,       \* "idle", "measured", "TROTTING" after its run, "FREESTAND" after enter or run
  lowState, est, contact,
  goal,       \* [pos, vel]: what the gait wants of every foot, in the world
  pushed,     \* calF's answer
  lowCmd,     \* [q, dq, tau]
  initVec,    \* FREESTAND's _initVecOX and _initVecXP
  stick

vars == <<task, lowState, est, contact, goal, pushed, lowCmd, initVec, stick>>

None == <<>>
Null3 == <<Zero, Zero, Zero>>

Init ==
  /\ task = "idle" /\ lowState = None /\ est = None /\ contact = None /\ goal = None
  /\ pushed = None /\ lowCmd = None /\ initVec = None /\ stick = None

\* How fast the foot moves with joint i alone: about the hip's axis, or about the axis
\* across the leg through hip or knee.
Across(q) == <<Zero, q[1].c, q[1].s>>
Knee(leg, q) == << Times(l2, q[2].s),
                   Minus(Times(l1(leg), q[1].c), Times(q[1].s, Times(l2, q[2].c))),
                   Plus(Times(l1(leg), q[1].s), Times(q[1].c, Times(l2, q[2].c))) >>
JointMoves(leg, q) ==
  LET foot == calcPEe2H(leg, q) IN
  << cross(<<One, Zero, Zero>>, foot), cross(Across(q), foot),
     cross(Across(q), VMinus(foot, Knee(leg, q))) >>

\* Joint rates with which a foot stays on its place in the world.
Holding(leg, q, motion) ==
  Solved(Transpose(JointMoves(leg, q)),
         Scaled(<<-1, 1>>, VPlus(motion.v, cross(motion.w, calcPEe2B(leg, q)))))

Measured(q, c, motion, e) ==
  [q |-> q, quaternion |-> e, gyro |-> motion.w,
   dq |-> [leg \in Legs |-> IF c[leg] = 1 THEN Holding(leg, q[leg], motion) ELSE <<One, Zero, One>>]]

\* sendRecv and the estimator's run.
Receive(q, c, motion, e, place) ==
  /\ task = "idle"
  /\ task' = "measured"
  /\ lowState' = Measured(q, c, motion, e)
  /\ est' = [position |-> place, velocity |-> Apply(quatToRotMat(e), motion.v)]
  /\ contact' = c
  /\ UNCHANGED <<goal, pushed, lowCmd, initVec, stick>>

\* State_Trotting::calcTau, from calF's answer on.
calcTau_trot(F, goals) ==
  LET pos == getFeetPos(est, lowState)
      vel == getFeetVel(est, lowState)
      swing(leg) == VPlus(Scaled(KpSwing, VMinus(goals.pos[leg], pos[leg])),
                          Scaled(KdSwing, VMinus(goals.vel[leg], vel[leg])))
      G2B_RotMat == Transpose(getRotMat(lowState))
      forceFeetBody == [leg \in Legs |->
        Apply(G2B_RotMat, IF contact[leg] = 0 THEN swing(leg) ELSE Scaled(<<-1, 1>>, F[leg]))] IN
  getTau(lowState.q, forceFeetBody)

\* State_Trotting::calcQQd.
calcQQd(goals) ==
  LET G2B_RotMat == Transpose(getRotMat(lowState))
      posFeet2BGoal == [leg \in Legs |-> Apply(G2B_RotMat, VMinus(goals.pos[leg], est.position))]
      velFeet2BGoal == [leg \in Legs |-> Apply(G2B_RotMat, VMinus(goals.vel[leg], est.velocity))] IN
  [q  |-> getQ(posFeet2BGoal),
   dq |-> getQd(getFeet2BPositions(lowState), velFeet2BGoal)]

\* The gait lets a foot that stands, stand.
Wanted(places) ==
  [pos |-> [leg \in Legs |-> VPlus(est.position, Apply(getRotMat(lowState), places[leg]))],
   vel |-> [leg \in Legs |-> IF contact[leg] = 1 THEN Null3 ELSE <<One, Zero, Zero>>]]

Trotting_run(places, F) ==
  /\ task = "measured"
  /\ task' = "TROTTING"
  /\ goal' = Wanted(places)
  /\ pushed' = F
  /\ LET desired == calcQQd(Wanted(places)) IN
     lowCmd' = [q |-> desired.q, dq |-> desired.dq, tau |-> calcTau_trot(F, Wanted(places))]
  /\ UNCHANGED <<lowState, est, contact, initVec, stick>>

-----------------------------------------------------------------------------
(* FREESTAND *)

\* It is entered from FIXEDSTAND, on feet that rest.
AtRest == /\ est.velocity = Null3 /\ lowState.gyro = Null3
          /\ \A leg \in Legs : contact[leg] = 1

FreeStand_enter ==
  /\ task = "measured" /\ AtRest
  /\ task' = "FREESTAND"
  /\ lowCmd' = [q |-> lowState.q, dq |-> [leg \in Legs |-> Null3], tau |-> [leg \in Legs |-> Null3]]
  /\ initVec' = [OX |-> getX(lowState), XP |-> getVecXP(lowState)]
  /\ UNCHANGED <<lowState, est, contact, goal, pushed, stick>>

\* invNormalize of a stick that is left alone or pushed to its end.
Tilt(value, max) == IF value = 0 THEN Angle(One, Zero) ELSE Angle(max.c, Times(<<value, 1>>, max.s))

calcOP(row, pitch, yaw, height) ==
  LET vecXO == VPlus(Scaled(<<-1, 1>>, initVec.OX), <<Zero, Zero, height>>)
      Tbs   == homoMatrixInverse(homoMatrix(vecXO, rpyToRotMat(row, pitch, yaw))) IN
  [leg \in Legs |-> Moved(Tbs, initVec.XP[leg])]

\* The angles calcQ gives for a place of the foot in the body's frame, left unsolved:
\* after a turn they are no fractions.
Reaching(place) == [foot |-> place]

FreeStand_run(v) ==
  /\ task = "FREESTAND"
  /\ stick' = v
  /\ LET vecOP == calcOP(Tilt(v.lx, rowMax), Tilt(v.ly, pitchMax), Tilt(-v.rx, yawMax),
                         Times(<<v.ry, 1>>, heightMax)) IN
     lowCmd' = [lowCmd EXCEPT !.q = [leg \in Legs |-> Reaching(vecOP[leg])]]
  /\ UNCHANGED <<task, lowState, est, contact, goal, pushed, initVec>>

-----------------------------------------------------------------------------

\* The command goes out, and the next tick measures anew.
Send == /\ task \in {"TROTTING", "FREESTAND"}
        /\ task' = "idle" /\ lowState' = None /\ est' = None /\ contact' = None /\ goal' = None
        /\ pushed' = None /\ lowCmd' = None /\ initVec' = None /\ stick' = None

Next == \/ \E q \in [Legs -> Postures], c \in [Legs -> {0, 1}], motion \in Motions,
              e \in Attitudes, place \in Places : Receive(q, c, motion, e, place)
        \/ \E places \in Goals, F \in Forces : Trotting_run(places, F)
        \/ FreeStand_enter
        \/ \E v \in Sticks : FreeStand_run(v)
        \/ Send

Spec == Init /\ [][Next]_vars

-----------------------------------------------------------------------------

\* Where the joint angles a put the foot, in the world.
Landing(leg, a) == VPlus(est.position, Apply(getRotMat(lowState), calcPEe2B(leg, a)))

\* In the world, from the leg's shoulder: where the hip's link ends.
Shoulder(leg, a) ==
  VPlus(est.position,
        Apply(getRotMat(lowState),
              VPlus(pHip2B[leg], <<Zero, Times(l1(leg), a[1].c), Times(l1(leg), a[1].s)>>)))

\* TROTTING commands angles that put a foot on its goal, whatever the body's place and
\* attitude and wherever the foot is now, and they bend the knee back (calcQQd, calcQ).
\* A goal out of reach stretches the leg towards it.  Only a goal nearer to the hip's axis
\* than the hip's link is long has no angles at all.
GoalIsReached ==
  task = "TROTTING" => \A leg \in Legs :
    LET a == lowCmd.q[leg] IN
    IF a[1] = NaN
    THEN LET p == VMinus(Apply(Transpose(getRotMat(lowState)), VMinus(goal.pos[leg], est.position)),
                         pHip2B[leg]) IN
         Less(Plus(Square(p[2]), Square(p[3])), Square(abadLinkLength))
    ELSE /\ ~Positive(a[3].s)
         /\ \/ Landing(leg, a) = goal.pos[leg]
            \/ LET way  == VMinus(goal.pos[leg], Shoulder(leg, a))
                   done == VMinus(Landing(leg, a), Shoulder(leg, a)) IN
               /\ a[3] = Angle(One, Zero)
               /\ cross(way, done) = Null3
               /\ Less(Dot(done, done), Dot(way, done))

\* To the estimate a foot on the ground stands still, however the body moves and turns
\* over it (getFeet2BVelocities, getFeetVel): joint rates, gyroscope and the estimate's
\* velocity, each in a frame of its own, cancel.
StandingFeetStandStill ==
  task = "measured" => \A leg \in Legs :
    contact[leg] = 1 => getFeetVel(est, lowState)[leg] = Null3

\* The joint torques of the standing legs do on the body the work that calF's forces
\* do on it: joint torque times joint rate is force times the body's velocity at the foot,
\* for every motion that keeps the feet on their places (calcTau).
WorkReachesBody ==
  task = "TROTTING" => \A leg \in Legs :
    contact[leg] = 1 =>
      LET R == getRotMat(lowState)
          arm == Apply(R, calcPEe2B(leg, lowState.q[leg]))
          velocity == VPlus(est.velocity, cross(Apply(R, lowState.gyro), arm)) IN
      Dot(lowCmd.tau[leg], lowState.dq[leg]) = Dot(pushed[leg], velocity)

\* The rates TROTTING commands to a standing leg are those that keep its foot in place
\* while the body moves (calcQQd).  Only while it does not turn: the rates leave the
\* gyroscope out.
RatesHoldFeet ==
  task = "TROTTING" => \A leg \in Legs :
    contact[leg] = 1 /\ lowState.gyro = Null3 => lowCmd.dq[leg] = lowState.dq[leg]

\* Whatever the stick does in FREESTAND, the feet keep their places in the world: they
\* stay as far from each other, and as far from the body once it is lifted, as they were at
\* enter; and a stick left alone leaves every joint where enter measured it (calcOP).
FeetKeepTheirPlaces ==
  task = "FREESTAND" /\ stick # None =>
    LET foot  == [leg \in Legs |-> lowCmd.q[leg].foot]
        entry == getFeet2BPositions(lowState)
        lift  == <<Zero, Zero, Times(<<stick.ry, 1>>, heightMax)>>
        Apart(a, b) == Dot(VMinus(a, b), VMinus(a, b)) IN
    /\ \A i, j \in Legs : Apart(foot[i], foot[j]) = Apart(entry[i], entry[j])
    /\ \A i \in Legs : Apart(foot[i], Null3) = Apart(entry[i], lift)
    /\ stick.lx = 0 /\ stick.ly = 0 /\ stick.rx = 0 /\ stick.ry = 0
         => \A i \in Legs : calcQ(i, foot[i], "BODY") = lowState.q[i]
===============================================================================
