-------------------------------- MODULE Drive --------------------------------
(***************************************************************************)
(* What the user's command makes of a walk: State_Trotting::getUserCmd and *)
(* calcCmd turn a stick, or in MOVE_BASE a twist from the network, into    *)
(* the place, heading and velocities the body is to follow, and            *)
(* FeetEndCal::calFootPos aims a swinging foot by them.                    *)
(*                                                                         *)
(* One horizontal axis stands for two.  How much of the command falls on   *)
(* it (facing) is left open: the body may head anywhere.  A foothold is    *)
(* kept as the centre of the circle the leg stands on and its angle there. *)
(***************************************************************************)
EXTENDS Rational

CONSTANTS
  dt,                    \* CtrlComponents::dt
  Keep,                  \* how much of the old turn rate the filter keeps
  vxLim, wyawLim,        \* the robot's limits, upwards
  vSlack, pSlack,        \* how far calcCmd lets the command run ahead of the body
  kx, kyaw,
  Tstance, Tswing,       \* in slots of dt
  Slip,                  \* the most slots from one tick to the next
  Motions,               \* [v, w]: of the body, over a tick
  Facings,
  Sticks,                \* [ly, rx], each between -1 and 1
  Twists,                \* [vx, wz]
  Leftovers,             \* [past, vx, wz]: what uninitialised memory may hold
  Ticks                  \* bound: the ticks of a behaviour

ASSUME NumbersAssumption ==
  /\ {dt, Keep, vxLim, wyawLim, vSlack, pSlack, kx, kyaw} \subseteq Fraction
  /\ Facings \subseteq Fraction
  /\ Leftovers \subseteq [past : Fraction, vx : Fraction, wz : Fraction]
  /\ Motions \subseteq [v : Fraction, w : Fraction]
  /\ Twists \subseteq [vx : Fraction, wz : Fraction]
  /\ Sticks \subseteq [ly : Fraction, rx : Fraction]

ASSUME TimesAssumption ==
  /\ Tstance \in Nat \ {0} /\ Tswing \in Nat \ {0}
  /\ Slip \in Nat \ {0}
  /\ Ticks \in Nat

VARIABLES
  state,        \* the state that runs: "FIXEDSTAND", "TROTTING" or "MOVE_BASE"
  twist,        \* MOVE_BASE's _vx and _wz
  arriving,     \* the message whose callback is storing its fields, if any
  body,         \* [x, v, yaw, w], as estimator and IMU tell
  dYawCmdPast,  \* TROTTING's
  cmd,          \* [pcd, v, yaw, w]: _pcd, _vCmdGlobal, _yawCmd, _dYawCmd
  clock,        \* how far the leg is in its cycle, which starts with its stance
  foothold,     \* calFootPos' last answer: [centre, angle]
  count,
  sway,         \* history: where the walk began, and whether it was left alone since
  told,         \* history: whether a stick has asked for motion since the walk began
  aim           \* history: the first foothold of this swing and what it was aimed by

vars == <<state, twist, arriving, body, dYawCmdPast, cmd, clock, foothold, count, sway, told, aim>>

None == <<>>

\* Neither class initialises what the first command reads: the filter's memory, or
\* MOVE_BASE's velocities.
Init ==
  /\ state = "FIXEDSTAND"
  /\ \E l \in Leftovers : twist = [vx |-> l.vx, wz |-> l.wz] /\ dYawCmdPast = l.past
  /\ arriving = {}
  /\ body = [x |-> Zero, v |-> Zero, yaw |-> Zero, w |-> Zero]
  /\ cmd = None /\ clock = 0 /\ foothold = None /\ count = 0
  /\ sway = None /\ told = FALSE /\ aim = None

-----------------------------------------------------------------------------

saturation(a, low, high) == IF Less(a, low) THEN low ELSE IF Less(high, a) THEN high ELSE a
Near(a, b, slack) == saturation(a, Minus(b, slack), Plus(b, slack))

\* Between the limits -max and max, as the stick is between -1 and 1.
invNormalize(value, max) == Times(value, max)

Asked(value) == invNormalize(Opposite(value.rx), wyawLim)

\* State_Trotting::getUserCmd.
getUserCmd(value) ==
  LET w == Plus(Times(Keep, dYawCmdPast), Times(Minus(One, Keep), Asked(value))) IN
  [v |-> invNormalize(value.ly, vxLim), w |-> w, past |-> w]

\* State_move_base::getUserCmd: the velocities as they are, unfiltered and unlimited.  A
\* callback that is storing them meanwhile may have stored each or not.
setHighCmd ==
  LET now(field) == {twist[field]} \cup {m[field] : m \in arriving} IN
  {[v |-> vx, w |-> wz, past |-> dYawCmdPast] : vx \in now("vx"), wz \in now("wz")}

\* Mistake: the place to hold is taken from the body anew in every tick.
calcCmd_FromBody(user, facing, b) ==
  LET v == Near(Times(facing, user.v), b.v, vSlack) IN
  [pcd |-> Near(Plus(b.x, Times(v, dt)), b.x, pSlack), v |-> v,
   yaw |-> Plus(cmd.yaw, Times(user.w, dt)), w |-> user.w]

calcCmd(user, facing, b) ==
  LET v == Near(Times(facing, user.v), b.v, vSlack) IN
  [pcd |-> Near(Plus(cmd.pcd, Times(v, dt)), b.x, pSlack), v |-> v,
   yaw |-> Plus(cmd.yaw, Times(user.w, dt)), w |-> user.w]

Swings(c) == c >= Tstance

\* The phase of a swing.
phase(c) == Frac(c - Tstance, Tswing)
getTstance == Times(<<Tstance, 1>>, dt)
getTswing  == Times(<<Tswing, 1>>, dt)

\* Mistake: the way still to go is taken for the way gone.
calFootPos_WayGone(goal, b, ph) ==
  LET ahead(rate) == Plus(Times(rate, Times(ph, getTswing)), Times(rate, Over(getTstance, <<2, 1>>))) IN
  [centre |-> Plus(b.x, Plus(ahead(b.v), Times(kx, Minus(b.v, goal.v)))),
   angle  |-> Plus(b.yaw, Plus(ahead(b.w), Times(kyaw, Minus(goal.w, b.w))))]

\* Where the leg's ideal place will be half a stance after touchdown, corrected by what
\* is wrong with the velocities.
calFootPos(goal, b, ph) ==
  LET toGo == Plus(Times(Minus(One, ph), getTswing), Over(getTstance, <<2, 1>>)) IN
  [centre |-> Plus(b.x, Plus(Times(b.v, toGo), Times(kx, Minus(b.v, goal.v)))),
   angle  |-> Plus(b.yaw, Plus(Times(b.w, toGo), Times(kyaw, Minus(goal.w, b.w))))]

-----------------------------------------------------------------------------

enter(s) ==
  /\ state = "FIXEDSTAND"
  /\ state' = s
  /\ cmd' = [pcd |-> body.x, v |-> Zero, yaw |-> body.yaw, w |-> Zero]
  /\ sway' = [from |-> body.x, still |-> TRUE] /\ told' = FALSE
  /\ UNCHANGED <<twist, arriving, body, dYawCmdPast, clock, foothold, count, aim>>

exit ==
  /\ state # "FIXEDSTAND" /\ count < Ticks
  /\ state' = "FIXEDSTAND"
  /\ cmd' = None /\ sway' = None /\ aim' = None /\ foothold' = None
  /\ UNCHANGED <<twist, arriving, body, dYawCmdPast, clock, count, told>>

\* The body after d slots of the motion m.
Moved(d, m) ==
  LET t == Times(<<d, 1>>, dt) IN
  [x |-> Plus(body.x, Times(m.v, t)), v |-> m.v, yaw |-> Plus(body.yaw, Times(m.w, t)), w |-> m.w]

sway_step(user, b) ==
  sway' = [sway EXCEPT !.still =
             @ /\ user.v = Zero /\ Near(b.v, Zero, vSlack) = b.v /\ Near(b.x, sway.from, pSlack) = b.x]

AimedBy(b, goal) == [v |-> b.v, w |-> b.w, vGoal |-> goal.v, wGoal |-> goal.w]

\* A tick may be so late that the leg swings again.
aim_step(d) ==
  aim' = IF ~Swings(clock') THEN None
         ELSE IF aim = None \/ clock + d >= Tstance + Tswing
              THEN [at |-> foothold', by |-> AimedBy(body', cmd'), steady |-> TRUE]
              ELSE [aim EXCEPT !.steady = @ /\ aim.by = AimedBy(body', cmd')]

\* The part of run that follows the user's command: getUserCmd's answer is user.
Follow(user, facing, d, m) ==
  LET b == Moved(d, m)
      c == (clock + d) % (Tstance + Tswing)
      goal == calcCmd(user, facing, b) IN
  /\ count < Ticks /\ count' = count + 1
  /\ body' = b
  /\ clock' = c
  /\ cmd' = goal
  /\ dYawCmdPast' = user.past
  /\ foothold' = IF Swings(c) THEN calFootPos(goal, b, phase(c)) ELSE foothold
  /\ sway_step(user, b)
  /\ aim_step(d)
  /\ UNCHANGED <<state, twist, arriving>>

run_trotting(value, facing, d, m) ==
  /\ state = "TROTTING"
  /\ Follow(getUserCmd(value), facing, d, m)
  /\ told' = (told \/ value.ly # Zero \/ value.rx # Zero)

run_base(user, facing, d, m) ==
  /\ state = "MOVE_BASE"
  /\ Follow(user, facing, d, m)
  /\ UNCHANGED told

\* The executor thread takes a message, and is done storing it.
twistCallback(m) ==
  /\ arriving = {} /\ arriving' = {m}
  /\ UNCHANGED <<state, twist, body, dYawCmdPast, cmd, clock, foothold, count, sway, told, aim>>
Stored(m) ==
  /\ arriving = {m} /\ arriving' = {} /\ twist' = m
  /\ UNCHANGED <<state, body, dYawCmdPast, cmd, clock, foothold, count, sway, told, aim>>

Next ==
  \/ \E s \in {"TROTTING", "MOVE_BASE"} : enter(s)
  \/ exit
  \/ \E facing \in Facings, d \in 1..Slip, m \in Motions :
       \/ \E value \in Sticks : run_trotting(value, facing, d, m)
       \/ \E user \in setHighCmd : run_base(user, facing, d, m)
  \/ \E m \in Twists : twistCallback(m)
  \/ \E m \in Twists : Stored(m)

Spec == Init /\ [][Next]_vars

-----------------------------------------------------------------------------

\* While body and command keep their rates, a swinging foot is aimed at one place in the
\* world from lift-off to touchdown, late ticks or not (calFootPos): what the body has
\* moved by is what it has no longer to go.
FootholdStands == aim # None /\ aim.steady => foothold = aim.at

\* Walking without being told to move, the robot remembers the place it started from,
\* however it is pushed about: as long as no push was faster than vSlack or further than
\* pSlack, the place to go back to is still that one (calcCmd).
HoldsItsPlace == sway # None /\ sway.still => cmd.pcd = sway.from

\* "The robot will trot in place (zero velocity) until user commands motion"
\* (State_Trotting.cpp:117): a walk nobody has told to move does not turn.
TrotsInPlace == state = "TROTTING" /\ ~told => cmd.w = Zero

-----------------------------------------------------------------------------
(* Why these hold. *)

TypeOK ==
  /\ state \in {"FIXEDSTAND", "TROTTING", "MOVE_BASE"}
  /\ twist \in [vx : Fraction, wz : Fraction] /\ arriving \subseteq [vx : Fraction, wz : Fraction]
  /\ body \in [x : Fraction, v : Fraction, yaw : Fraction, w : Fraction]
  /\ dYawCmdPast \in Fraction
  /\ state # "FIXEDSTAND" => /\ cmd \in [pcd : Fraction, v : Fraction, yaw : Fraction, w : Fraction]
                             /\ sway \in [from : Fraction, still : BOOLEAN]
  /\ clock \in 0..(Tstance + Tswing - 1) /\ count \in 0..Ticks
  /\ told \in BOOLEAN
  /\ state = "FIXEDSTAND" => sway = None /\ aim = None

\* The foothold is what the rates of now and the rest of the swing make of it.
AimFits ==
  aim # None =>
    /\ Swings(clock) /\ aim \in [at : {aim.at}, by : {aim.by}, steady : BOOLEAN]
    /\ aim.steady => /\ aim.by = AimedBy(body, cmd)
                     /\ foothold = aim.at
                     /\ foothold = calFootPos(cmd, body, phase(clock))

DriveInv == TypeOK /\ AimFits /\ HoldsItsPlace
===============================================================================
