# A model of the Go1 controller

This directory keeps TLA+ models of the control program in `unitree_guide2`
(`junior_ctrl`, `gait_node`) and of the joint controller plug-in, the TLC
configurations that check them and the proofs TLAPS checks. It is read beside the
source; `PROJECT.json` gives, for the definitions, the lines they stand for.

## 1. Inventory

The program walks a simulated Unitree Go1. One process, `junior_ctrl`, holds the
controller; `gait_node` blends gaits; a `ros2_control` plug-in turns motor commands
into joint efforts; Python nodes plot and launch.

| Part | State it keeps | Operations | Talks to |
|---|---|---|---|
| main, `ControlFrame`, `FSM` | `running`, `_mode`, `_currentState`, `_nextState` | `FSM::run` every 2 ms: send, receive, wave generator, estimator, fall check, then NORMAL or CHANGE | everything below |
| ten FSM states | the stand-up ramp, goals, filters; they write `lowCmd` and `_waveStatus` | `enter`, `run`, `exit`, `checkChange` | `CtrlComponents`, the command panel |
| `KeyBoard` (a thread) and `CmdPanel` | `userCmd`, `userValue`, `_c` | `checkCmd`, `changeValue`, `publishGaitCmd` | the control thread through the panel, without a lock; `gait_node` by topic |
| `WaveGenerator` | gait, start time, `_statusPast`, `_contactPast`, `_switchStatus` | `calcContactPhase`, `setPeriod`, `setBias`, `setBeta` | FSM, TRANSITION, the estimator, the gait generator |
| `GaitGenerator`, `FeetEndCal` | start and end of each step, `_firstRun` | `restart`, `run`, `calFootPos` | the walking states |
| the walking command | `_pcd`, `_yawCmd`, `_dYawCmdPast`; MOVE_BASE's `_vx`, `_wz` | `getUserCmd`, `calcCmd`, `twistCallback` | sticks, `/cmd_vel`, the estimate |
| `IOROS` | last motor states and IMU, filled by subscriber threads | `sendRecv`, 13 callbacks | joint controllers, simulator |
| `gait_node` | current gait, target, step, counter | `on_gait_command`, `timer_callback` | keyboard, TRANSITION, phase diagram |
| joint controller plug-in | `lastCmd`, the real-time buffer, lifecycle state | `on_configure`, `on_activate`, `update`, `on_deactivate`, `setCmdCallback` | `IOROS`, the simulator |
| `Estimator` | estimate and covariance | `run`, `getFeetPos`, `getFeetVel` | the walking states |
| `BalanceCtrl`, QuadProg++ | the forces of the last tick; working set and factors | `calF`, `solve_quadprog` | the walking and balancing states |
| `QuadrupedLeg`, `QuadrupedRobot` | none | `calcQ`, `calcQd`, `calcTau`, frames | every state that moves a foot |
| `phase_diagram.py`, launch files, maps | plots, processes | | topics |

What is hard about it:

* **Two threads, one panel, no lock.** The keyboard thread writes `userCmd` and
  `userValue`; so do the fall check (`setPassive`) and every change of state
  (`zeroCmdPanel`). A key can overwrite the protective command.
* **A pipeline of copies.** The panel is copied at the start of a tick, the fall
  check writes it after that, `checkChange` decides on the copy, and the change
  happens one tick later. Every decision is out of date when carried out.
* **Commands stick**, and **states write parts of shared records**.
* **A switch, or a ramp, that is broken off.** The wave generator remembers half a
  switch; TRANSITION retunes it between two calls in a tick; `gait_node` starts a new
  ramp from the middle of another.
* **Torn messages.** Subscriber threads store a message field by field while the control
  thread copies it field by field, and the joint controller's callback builds a command
  in the member the real-time update uses as its scratch.
* **Numbers with conditions on them.** An active-set solver with incremental factors, a
  Kalman filter whose trust in a foot changes with its phase, frames and signs.

`PROJECT.json` lists the hazards line by line, with the properties that cover each.

## 2. The modules

| Module | Models | Interacts |
|---|---|---|
| `FSMStates` | the ten states: operators on the record of motor command, wave status and ramp | |
| `ControlFSM` | the control thread, the keyboard thread, falls and SIGINT | uses `FSMStates` |
| `FallAudit`, `OrderAudit`, `StickAudit`, `PanelAudit` | `ControlFSM` with history variables: where the protective command is, which orders were given, for which state a stick was typed; all three at once | |
| `ModeSupervisor` | abstract: a mode, orders, and what may change the mode | implemented by `OrderAudit` |
| `WaveCaller` | abstract: how a caller may use the wave generator: which statuses follow which, and when gaits are set | implemented by `ControlFSM`, part of `WaveGenerator` |
| `WaveGenerator` | `calcContactPhase` and the setters | composes with `WaveCaller` |
| `GaitGenerator` | the phases handed out, and where each leg's trajectory starts | on top of `WaveGenerator`, which it implements |
| `SwitchAudit` | the same with a count of the ticks a switch has taken | |
| `GaitNode` | the ramp between two gaits | |
| `Subscribers` | topics, executor, callbacks and copies, for any topics and fields | |
| `GaitLink` | `gait_node`, the topic `gait_out`, the sensors and TRANSITION together | composes the two above |
| `LeggedController` | one joint's controller, both threads cut at every field | |
| `JointAudit` | the same with the history of the commands | |
| `JointPromise` | abstract: what a joint promises, with no thread in sight | implemented by `JointAudit` |
| `Rational` | fractions, vectors, matrices | |
| `QuadProg` | `solve_quadprog` and its routines, a step per step of the algorithm | |
| `BalanceCtrl` | `calF` around it, tick after tick | composes with `QuadProg` |
| `LegKinematics`, `RobotKinematics` | the leg's and the robot's kinematics, as operators | |
| `LegTasks` | TROTTING's and FREESTAND's use of them between receiving and sending | uses both |
| `Estimator` | the Kalman filter on the vertical axis and one foot, and the body it watches | |
| `Drive` | user command, reference and foothold of a walk | |
| `MC*` | values of the constants for TLC | |
| `*_proofs` | theorems (eight modules) | |

**ControlFSM** cuts a tick of `FSM::run` at every access to the shared panel. `pc` is
`send` (loop test, `sendCmd`, `recvState`), `cmd` and `value` (the two panel reads of
`IOROS::sendRecv`), `check` (`runWaveGen`, estimator, `checkSafty`, `setPassive`), `act`
(the NORMAL branch, or CHANGE up to `exit()`) and `enter` (the rest of CHANGE, including
the first `run()`). The keyboard thread is cut the same way: `select`, `store`, `test`
(`userCmd == NONE`, and the read in `changeValue`), `write`. The package is built with -O3
(`unitree_guide2/CMakeLists.txt:107`) and `userCmd` is an ordinary member, so `test` may see
the value just stored or read the shared one again: both are in the model. A motor command
keeps, for the 12 joints together, which writer set each field. One stick axis stands for four.

**WaveGenerator, GaitGenerator** count time in slots and write stance ratio and bias as
numerators over `Den`, so `fmod` is an integer `%`. `switching` is any set at the start,
because the constructor leaves `_switchStatus` uninitialised. What calls them is
`WaveCaller`, which never goes from SWING_ALL straight to WAVE_ALL, say. That the FSM is
such a caller is `CallsWaveGenerator`, a refinement checked and proved of `ControlFSM`.
`startP` is "here" when it is the place where the leg stands or stood last.
The cycloid between two steps is left out.

**Subscribers, GaitLink** number the messages of a topic and let a field hold the number
of the message it came with. All subscriptions of the node are in its default, mutually
exclusive callback group, so the executor's two threads run one callback at a time. A full
queue drops its oldest message, and what `gait_node` publishes before it has been matched
reaches nobody. Callbacks store, and `recvState` copies, ordinary members without a lock;
the model takes both in the order they are written in, which neither a compiler at -O3 nor
a machine weaker than x86 guarantees. `TornOneWay` rests on that order, and speaks
only of fields that are stored and copied in different orders: ratio, bias and period; of a
quaternion it excludes nothing. The rounding of the division by `n` is any rounding. `MOVE_GAIT`'s
subscription is another instance of the same constants.

**LeggedController** has a step per access to a field of `lastCmd` or of the
real-time buffer, which is external and modelled as two cells with a lock that protects
the buffer and not `lastCmd`. NaN stands for whatever is not finite. The velocity filtered
from positions is any. A free fall of 0 s (`FREE_FALL_DURATION`) is over at once.

**QuadProg, BalanceCtrl** use exact fractions. `factors` holds, for each of the n columns of
J, that column, the row of R that goes with it, and a weight `w`: the code's column and row are
those divided by the root of `w`, so that the Givens rotations of `add_constraint` and
`delete_constraint`, column after column in the code's order (`Turned`), need no square root;
nor does the Cholesky factor. Two branches are left out: `add_constraint` returning false
(`QuadProg++.cc:552-556`), and the reset after it (391-411). In exact arithmetic a constraint
with a step towards it never depends on those in force. The robot is planar with two legs,
the last forces' weights are 1 and the small `_alpha * _W` is 0; the equalities' and
inequalities' right-hand sides are zero, as `calConstraints` makes them.

**LegKinematics, RobotKinematics, LegTasks** keep an angle as its cosine and sine. Postures
and attitudes are any whose numbers are fractions, and goals those whose roots calcQ draws
exactly (`HasRoots`); the root is Newton's on integers. Thigh and shank are equally long, as
on both robots of `unitreeLeg.h`. In every posture that is measured the foot is below the hip's axis
and the knee bent back. Feet on the ground do not slip; the estimate's velocity is
the body's. FREESTAND's joint angles are left as the places they reach, since most have no
exact angle.

**Estimator** is the vertical axis and one foot: `_xhat` is the body's place and velocity and the
foot's place, `_y` the foot seen from the body, its velocity there and its height.
`windowFunc` scales the process noise as well as the measurements', as in `run`.
`contact` is the wave generator's schedule, and nothing in the model makes the foot keep to it.
The sensors are exact. `RInit` and `QInit` are any diagonal ones: on this axis, the entries of
`_RInit` between the three measurements are zeros. It has others: a full 28 x 28
matrix couples axes and feet (0.784 and -1.631 between a foot's velocities, -0.014 to 0.018
between the feet's places), and is not even positive definite. `Estimator` leaves
the couplings out, and nothing it shows is about the sign of the code's covariance: section 6
says what becomes of that. `_Cu`, the low-pass filters and the odometry topics are left out.

**Drive** is one horizontal axis, and how much of a command falls on it is open. Sticks are
any fractions between -1 and 1; TLC has two of the keyboard's 41 values.
The filter's memory and MOVE_BASE's velocities start with whatever memory held. `told`
remembers whether a stick was moved in this walk, `sway` whether the robot was left alone;
`aim` belongs to one swing, also when a tick is so late that the leg swings again. A foothold
is kept as the centre of the circle the leg stands on and its angle there.

Operators whose comment begins with "Mistake" stand before the definition they spoil. No
specification uses them: they are the mutants of `PROJECT.json`, plausible slips, at least one
for each property, which fails with its slip in place.

## 3. Runs

| Run | Question | Bounds | States |
|---|---|---|---|
| `control` | Does anything one state leaves behind show in the next? Does the FSM use the wave generator as it may? | all 8 mode keys and one stick key, ramp of 2 ticks, stick -1..1 | 5.3 M |
| `control_live` | Do a fall, a held command, any held command settle? | 5 mode keys, ramp of 1 | 0.2 M |
| `panel` | How long does a fall take to reach the motors? Is the FSM a mode supervisor? Can a stick move a state it was not typed for? | 3 mode keys (PASSIVE, FIXEDSTAND, TROTTING), a stick key and space | 2.9 M |
| `wave` | What do the legs do through any switches and retuning? When is a switch over, and from where does a leg swing? | 4 legs; trot, walk, TRANSITION's ratio 1 (12 slots) and bound (8); ticks up to 2 slots apart | 1.6 M |
| `joint` | Which commands does a joint answer, and how strongly? | up to two commands, of PMSM and BRAKE, with fields that are no numbers; both threads at any field | 2.8 M |
| `joint_free` | section 6 | the same | |
| `balance` | Are these the best forces? Do the solver's parts fit together? | 2 legs, 12 wanted sums, all contacts, calls one after another | 23 k |
| `link` | Where does a ramp lead? How old and torn is what a tick reads? | ramps of 2 steps, 2 messages per topic, queues of 1 and 2 | 0.7 M |
| `legs` | Do the kinematics agree with each other and with a rigid body? | 3 postures for each of 2 legs, 4 motions, 2 attitudes, goals in and out of reach | 2.1 k |
| `estimator` | Whom does the filter believe? | 2 ticks; contacts in and out of schedule, 4 phases | 686 |
| `drive` | Does a walk hold its place and aim steadily? | 3 ticks, up to a stance and a half late; pushes beyond every slack, one facing | 0.4 M |
| `drive_still` | section 6 | the same, with a filter that starts empty | |

Why the bounds are enough. The ramp of FIXEDSTAND matters only as zero, under way and
complete; the stick as zero or not, and saturated. Keys beyond those of a run lead to
states that behave as one of those present; `control`, which asks about the states
themselves, has all of them. `panel` has one state of each kind, limp, standing and walking;
that FREESTAND, BALANCETEST and the other walks zero the sticks as TROTTING does, and answer
the limp command, is in its theorems. The pipeline of the fall is five ticks, and its count is
cut there. A period of 8 or 12 slots lets each leg be early, late and on the boundary, and
half a stance lasts as long as the latest tick. A third message or a third field meets
the same queue and order as the second (the proofs have any number). Two legs and a
moment weight of 2 make `balance` add, cut short and drop constraints. `estimator` is
small because its fractions leave TLC's 32-bit integers at the third tick: two ticks let
a foot land, lift, and be believed and doubted, with no, half and full trust. `drive` filters
with a half where the code has 0.9, and ticks are a tenth of a second, for the same reason; the
properties do not depend on either. A filter that starts empty lets TROTTING, and not only
MOVE_BASE, keep its rates for several ticks. None of the bounds is in the proofs.

What the runs show, in words:

* `FallReachesMotors`: from the tick whose check fails, the limp command is on the
  wire by the fourth send after it, also when a change of state is under way, unless the
  operator types something. `FallenSettlesInPassive`: when the typing stops and the
  robot stays down it ends in PASSIVE.
* `ObeysSupervisor`: each change of mode obeys a command that stood on the panel since
  the last change, although it is decided on a copy and carried out a tick later.
* `InheritedStickOnlyByRace`: from its second tick on, a state that moves the body by the
  sticks obeys an older deflection only if a keystroke was between its read and its
  write-back. That race is in the code. The first tick of each state does use the older
  stick (`FSM.cpp:62-64`), and SWINGTEST does not zero them.
* `SomeLegCarries`, `StartsFromStand`: while a switch is under way the legs follow one
  whole wave, never a mixture, so a gait that is supported stays supported.
* `SwitchEnds`: a switch, also one broken off before, is over within one period of the
  gait; with one tick less it fails. It needs stances and swings that no late tick can
  step over (`OnTime`): with a swing shorter than that a leg is never seen in the air.
* `SwingsFromWhereItStands`, `LiftsFromTheStart`: a leg's trajectory starts where the leg
  last stood, and at its beginning, through every order of stops, walks and retunings. Only
  the first steps of a gait whose legs do not take turns are excepted.
* `EffortSafe`, `KeepsPromise`, `ExactUnlessRaced`: whatever the threads tear apart, a
  joint's effort is a number within the limits and answers fields really sent; it
  answers another command than the one stored last only in the two overlaps named.
* `BestForces`: the forces are the optimum, and "infeasible", the verdict nobody looks at,
  does not occur.
* `OnTrack`, `WalksWithinCommands`: wherever a ramp is broken off, the rest leads to the
  last command, and TRANSITION never walks with a ratio, period or bias outside the range of
  the commands, although it may walk with the ratio of one message and the bias of an older.
* `SeenByNextPass`, `TornOneWay`: a stored report is seen by the next pass in every field;
  a copy can mix two messages, but in one direction only.
* `GoalIsReached`: the commanded angles put the foot on its goal; one beyond reach is
  approached along the straight line; only one inside the hip joint yields NaN.
* `MinimumOfWorkingSet`, `FactorsFit`: between two steps of the solver, J and R are what
  factorising the working set from scratch would give, up to signs, and x is the best place
  on it; a rotation left out shows in both.
* `DoubtExcused`: with exact measurements the truth never gets less plausible to the
  filter, but by what a foot moved or stood off the ground, over the variance that its contact
  and its phase make due. A foot that is off the schedule in the middle of its
  stance is believed, and the estimate goes with it; near the ends the fading trust
  makes it cost next to nothing.
* `LeastSquares`: the estimate is at rest between what was expected and what was measured.
* `FootholdStands`, `HoldsItsPlace`: under steady rates a swinging foot is aimed at one place,
  and a robot not told to move returns to where the walk began.

**Fairness.** Only `control_live` assumes any. `FairSpec` says that the control thread
goes on running until it stops (it is a loop with an absolute wait, `SCHED_FIFO`), and
that the keyboard thread finishes with a byte it has read. No key press, fall or SIGINT
is assumed to happen. A stopped process promises nothing, and the liveness properties say
so.

**Deadlock** is checked wherever the system goes on. `drive`, `drive_still` and `estimator` stop at their
bound on ticks, which is no property of the code, and say `CHECK_DEADLOCK FALSE`.

## 4. Proofs

For every ramp length, stick range and key set (`DurationAssumption`,
`StickAssumption`, `KeysAssumption`):

* `ControlFSM_proofs`: `TypeCorrect`, by a lemma per method family and a step per action.
  `CommandIsSpent`: no state answers the command that led into it. `CommandsMatch`,
  `WavesMatch`, `RampIsReset`, `StandBetween` (`NeverSwingToWave`) are not inductive alone:
  BALANCETEST keeps the velocities of its predecessor and the stepping states need a
  stand before them. `StateInv` (`StateInvariant`) adds which states lead to those
  (`Predecessors`), that the ramp is zero between `exit` and `enter` (`RampDuringChange`),
  and the wave status last handed over (`LastWave`). `CallsAsExpected` is the refinement
  of `WaveCaller`: each step of a tick is a call, a change of status it may make, or none.
* Of its audits, in the same module: `FallProtection`; `FallInv` says tick by tick where the
  protective command has got to, and that each state but PASSIVE answers L2_B with PASSIVE
  is the lemma `PassiveCommandWins`. `ImplementsSupervisor`, `OrderSpec =>
  ObeysSupervisor`; `OrderInv` says that the copy and the decision date from after the last
  change. `StickOnlyByRace`; `StickInv` says that an older deflection is on the panel, or in
  the tick's copy of it, only after a keystroke has written it back over `enter`'s zero.

For any legs, gaits, denominator and lateness (`GaitAssumption`, `TimeAssumption`: the
gaits that arrive have a ratio below 1, as all of the keyboard's have):

* `GaitGenerator_proofs`, of the wave generator: `WalksFromStand`, `AlwaysCarried`, `NoZeroSwing`, `StillAtOnce`.
  Two lemmas describe a call (`CallDuringSwitch`, `CallWithoutSwitch`): during a switch the
  contacts handed out equal the ones held on to. `WaveInv` adds what a broken-off switch
  holds on to and which statuses follow which.
* Of the generator of trajectories, in the same module: `KeepsTheWave`, the refinement that carries these theorems over
  to the larger module, and `PhasesStayInRange`. `StartsWhereItStands` and
  `LiftsAtTheStart`, by `FromStand`: a walk that began from a stand either still waits for
  its first leg (`Waits`) or follows the wave by at most a late tick (`Strides`).
  `SwitchesEnd` counts a switch against the clock (`SwitchInv`): a leg that is waited for
  gets on by a slot with every tick (`OnTheWay`), and a period has no room for more of them.

For any commands, positions, velocities and limits (`NumberAssumption`, `LimitAssumption`):

* `JointAudit_proofs`: `EffortIsSafe` rests on the types alone, with a lemma that the
  torque law returns an integer for every reading. `ImplementsPromise` is the refinement of
  `JointPromise`: its invariant says of each cell, scratch field and reading that it was told.
  `ObeysUnlessRaced`: `ExactInv` says, for every place the two threads can be at, which of
  the cells hold the last command unless an overlap has been noted.

For any topics, fields, orders and depths, and for any ramp length and gaits
(`TopicAssumption`, `FieldAssumption`, `CommandAssumption`, `LinkAssumption`):

* `GaitLink_proofs`: `RampLeadsHome`, `ReportsAreSeen`, `TearsOneWay`, `WalkIsWithin`.
  `LinkInv` says what lies in shared memory (the last whole message, overwritten as far as
  the running callback is), that messages come in order, and that every point of a ramp,
  and of what is left of it, lies within the commands. `WalkIsWithin` then needs only that
  what is copied was published.

For any tick, limits, gains, filter, motions and lateness (`NumbersAssumption`: the numbers
are fractions; `TimesAssumption`):

* `Rational_proofs`: the fractions of the numerical models are the rational numbers.
  Euclid's algorithm is a recursive function, and what it returns is proved by complete
  induction (`SetInduction`, the library's `WFMin` for less-than, which needs no operator
  as a parameter): the greatest common divisor (`DivisorIsCommon`). So sums and products are
  in lowest terms, have the values of the schoolbook's (`PlusIs`, `TimesIs`), equal values
  are equal fractions (`Unique`), and the laws of arithmetic hold (`PlusLaws`,
  `TimesLaws`).
  In the same module, vectors and matrices of fractions obey the laws of linear algebra. A fact
  about values becomes one about integers over a common denominator (`Common3`, `SumOver`;
  for long expressions `ValSum`, `ValTimes`, `ValSame`), which the solver decides; `Cramer`,
  `Minors` and `DetTransposed` rest on such polynomials. Cramer's rule solves what has a
  determinant (`SolvedFits`), and of a positive definite matrix finds the only solution
  (`SolvedOnly`). A turn keeps dot products, and turns after each other are a turn
  (`TurnsKeep`, `TurnsProduct`).
* `Drive_proofs`: `FootholdNeverMoves`, `PlaceIsHeld`. `DriveInv`
  adds `AimFits`: the foothold is what the rates of now and the rest of the swing make of
  it, so that a tick takes from the way to go what it adds to the place (`SameFoothold`).

For any positive variances of the three measurements, without couplings between them, any
other variances, accelerations, starts and steps, any schedule, and any number of ticks
(`EstimatorAssumption`):

* `Estimator_proofs`: `EstimateRests`, `DoubtIsExcused`. Neither is inductive. `Inv` adds that
  both covariances are positive definite, which holds because `Estimator` has no couplings
  (the code's covariance is not, section 6), and that the estimate is what
  `run` made of the last measurements. A matrix is known by what it does to vectors
  (`CovarianceIs`), so the long formula of `run` is never multiplied out. The doubt of a tick is
  followed in two halves: the motion costs what the foot moved over its variance
  (`DoubtPredicted`, from a square that is not negative, `MoveCosts`), the measurements cost what
  they claim of a foot that moves or is not on the ground (`DoubtMeasured`, `Expenses`).
  `VariancesAre` says that those of `run` are the ones that are due: `windowFunc`'s three
  branches are one minimum (`TrustIs`, `WaryIs`).

For any links and hips, bent postures, attitudes, motions and forces, and any goals whose roots are
fractions (`LinkAssumption`, `LegTasksAssumption`):

* `LegTasks_proofs`, five theorems, one for each property of the run `legs`.
  `FeetStandStill`, `TorquesDoTheWork`, `RatesStay` need that the Jacobian is the rigid body's
  (`MovesAre`: each column is the cross product of a joint's axis and the arm to the foot)
  and that it is regular in every posture (`Regular`: its determinant is, up to sign, the product of
  the depth of the foot below the hip's axis and the area that thigh and bent shank span,
  `DetJaco`, `KneeArea`). Seen from the world this is carried by `QuatTurns`: the matrix of
  a unit quaternion is a turn.
* Inverse kinematics, in the same module. `IsqrtFinds`: Newton's method ends in the root of a square, by
  induction on its guess (`Descends`). A cosine and sine are known by what they do to one
  vector (`TurnBack`, `TurnDone`), so that `atan2` of a cross and a dot product is the angle from
  one vector to another (`TurnsTo`); hip, knee and thigh follow in turn (`HipAngle`, `KneeCosineIs`,
  `ThighAngle`). `RoundTrip`: in every posture calcQ gives back the angles calcPEe2B
  started from. `CalcQReaches`, for all places: in reach, the foot is put there; too far away,
  the clamped knee stretches the leg straight towards it (`TooFar`); too close cannot
  happen, since thigh and shank are equally long (`NotTooClose`).
* `GoalsAreReached` and `FeetStay` carry this through the frames of a tick. The invariant
  (`LegsInv`, by `LegsKeep`) is needed because the properties relate what one action
  measured to what later ones command: it says of each task which motion the speeds are of
  (`OneMotion`), what was commanded from which goals and forces (`Commanded`), and what FREESTAND
  remembers (`Placed`). Of FREESTAND's turn nothing is used but that it is one (`RpyTurns`).

Only model-checked: the liveness properties (the prover does not do liveness under
fairness) and the four properties of `balance`. Solver and balance controller work on vectors,
factors and working sets of any length, by folds over them, and what a fold returns for
every length takes an induction with an operator as its parameter. That holds for
`ChoiceIsComplete`, too: that the constraint to drop exists, and is not an equality, takes a
least one among quotients, which are numbers only while the factors fit.

## 5. Not modelled

* Rounding, and with it the solver's tolerances and the long run of the filter; that
  the solver terminates is not claimed as a liveness property.
* The cycloid of a swing, the acceleration command of TROTTING and its clamps, the
  the horizontal axes and further feet of the estimator with their couplings, its filters
  and topics.
* MOVE_GAIT's own copy of the gait, which nothing reads.
* The real-robot interface (not compiled), the plotting library, `phase_diagram.py` (a
  plot), launch files, maps and helper nodes (input and output only), generated build
  files, logging.
* A restart of the joint controllers under a running `junior_ctrl`: the code has no
  timeout or handshake between them, so there is no promise to state.

## 6. Disagreements met

Two runs expect a violation.

* `joint_free`: a comment in `update` says the joint does nothing until a command has come, to
  prevent braking before the controller starts. The buffer is made with a default command
  and never empty, the default mode is BRAKE, and the first update after activation brakes.
* `drive_still`: `State_Trotting.cpp:117` says the robot trots in place until the user commands
  motion. `_dYawCmdPast` is not cleared by `enter` or `exit`, so a walk begins by turning at
  nine tenths of the rate the one before ended with; and it is never initialised, so the
  first begins with whatever memory held.

Also seen while modelling, without a run:

* `StopJointsOnDeactivateTest` requires the joints' commands to be zero after `on_deactivate`
  (`test_ros2_unitree_legged_controller.cpp:239-242`). `on_deactivate` renews the command
  buffer and does not touch the interface, so the effort of the last update stays on it.
  `JointPromise` leaves this open: a joint that goes to sleep keeps its effort or lets go.
* `Estimator.h:65` and `:70` call `_P` and `_RInit` covariances. `_RInit` is none:
  R(3,3)R(7,7) = 0.00009 is less than R(3,7)^2 = 0.0001, and `run` never changes that block.
  With all 28 x 28 elements and the code's numbers, in double precision, the
  factorisation of `_P` has negative pivots after the first run of the filter (-1.0e-3, -5.5e-4)
  and still after ten. The forward place of the middle between the front feet, seen from the
  body, has a variance of -1.4e-6 after the first run and of -2.1e-4 after ten.
* `src/README.md:134` tells the operator to press `3` for fixed stand after `2`; key 2 is
  fixed stand and key 3 leads to FREESTAND.
* SWINGTEST passes nine uninitialised torques to `setTau` (`State_SwingTest.cpp:96`),
  whose own message calls a NaN an error.
* The comment at `WaveGenerator.cpp:76` says legs finish their motion before a switch. A
  leg that counts as done follows the wave on, lifts again, and is put down in mid-swing
  once the last leg is done: `_switchStatus(i)` is written and never consulted.
* The comment at `WaveGenerator.cpp:89` says a leg is forced until the wave flips. When a
  stop is broken off, `_contactPast` is not recomputed any more and the legs stay as they
  were while the wave flips under them.
* The phase is the time since start-up modulo the period: a period changed in small steps
  runs through whole cycles, faster the longer the program has run (`WaveGenerator.cpp:134`).
* MOVE_BASE's velocities are not initialised before the first `/cmd_vel`, and persist between
  sessions.
* `FeetEndCal.cpp:39` corrects the heading with the opposite sign to the corrections of
  the velocities in lines 33 and 34.
* The joint rates of `calcQQd` leave the body's rotation out; the line with it is commented
  out (`State_Trotting.cpp:207-208`).
* At the edges of a stance the estimator gives a foot that stands a larger variance
  than one that swings: `(1 + largeVariance) * R` against `largeVariance`.
* MOVE_BASE is unreachable from the keyboard, although a comment in `enumClass.h` names it;
  TRANSITION starts with a stance ratio of 1 that the wave generator's constructor would
  refuse and `setBeta` accepts; MOVE_GAIT stores gaits nothing reads.

## 7. Plan

Done, in this order: the FSM, its states and threads; the fall; the supervisor; the sticks;
the wave generator and its switches; the joint controller and its promise; the gait
generator; `gait_node`, the subscribers and their composition; solver and balance
controller; kinematics and the tasks on them; the estimator; the walking command.

Next, most important first:

1. `RobotSystem`: `ControlFSM` and `LeggedController` composed over the command topic, with
   SIGINT: what the joints do with the last command.
2. Proofs about the solver, first its bookkeeping (`ChoiceIsComplete`).
3. The second horizontal axis in `Drive`, so that the turn of the body is its facing.
