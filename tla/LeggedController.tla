--------------------------- MODULE LeggedController ---------------------------
(***************************************************************************)
(* One joint's controller, ros2_unitree_legged_control.cpp.  Two threads   *)
(* share it without a lock of its own: the executor runs setCmdCallback    *)
(* for every command that arrives, and the real-time thread activates,     *)
(* deactivates and updates.  Both use the member lastCmd as scratch: the   *)
(* callback builds the command there before handing it to the real-time    *)
(* buffer, the update copies the buffer's command there and sanitises it   *)
(* in place.  A step here is one access to a field of a shared command.    *)
(*                                                                         *)
(* The real-time buffer is realtime_tools' (external): two cells, swapped  *)
(* by the reader when there is new data and the writer does not hold the   *)
(* lock.  NaN stands for every value that is not finite.  The velocity     *)
(* that computeVel filters from the positions is any of Velocities.        *)
(***************************************************************************)
EXTENDS Integers, Sequences

CONSTANTS
  Commands,              \* the commands that may arrive
  Positions, Velocities, \* what the joint may measure
  Lower, Upper,          \* the joint's limits in the URDF: position,
  VelocityLimit,         \*   velocity
  EffortLimit,           \*   and effort
  PosStop, VelStop,      \* posStopF and velStopF: "do not control this"
  NaN

PMSM  == 10
BRAKE == 0
BrakeDamping == 20

Number == Int \cup {NaN}
FieldName == {"mode", "q", "kp", "dq", "kd", "tau"}
MotorCmd == [FieldName -> Number]

\* The order in which the code touches the fields of lastCmd: setCmdCallback, the
\* copying of a whole message, the sanitising in update, and on_activate.
CallbackOrder == <<"mode", "q", "kp", "dq", "kd", "tau">>
CopyOrder     == <<"mode", "q", "dq", "tau", "kp", "kd">>
SaneOrder     == <<"q", "dq", "kp", "kd", "tau", "mode">>
ActivateOrder == <<"q", "dq", "tau", "mode", "kp", "kd">>

\* What update reads of lastCmd to build servoCmd, in its order: q and dq are read
\* twice, the second time to test for the stop values.
ReadOrder == <<"mode", "pos", "kp", "posStop", "vel", "kd", "velStop", "tau">>
Slot   == {"mode", "pos", "kp", "posStop", "vel", "kd", "velStop", "tau"}
ReadOf == [mode |-> "mode", pos |-> "q", kp |-> "kp", posStop |-> "q",
           vel |-> "dq", kd |-> "kd", velStop |-> "dq", tau |-> "tau"]

ASSUME NumberAssumption ==
  /\ NaN \notin Int
  /\ Commands \subseteq MotorCmd
  /\ Positions \subseteq Int /\ Positions # {}
  /\ Velocities \subseteq Int /\ Velocities # {}
ASSUME LimitAssumption ==
  /\ Lower \in Int /\ Upper \in Int /\ Lower =< Upper
  /\ VelocityLimit \in Nat /\ EffortLimit \in Nat \ {0}
  /\ PosStop \in Int /\ VelStop \in Int

\* CmdType(), and the two commands on_activate leaves in lastCmd.
Default  == [f \in FieldName |-> 0]
FreeFall == [Default EXCEPT !["mode"] = PMSM, !["q"] = PosStop]
Braking  == [Default EXCEPT !["q"] = PosStop, !["kd"] = BrakeDamping]

VARIABLES
  life,        \* the controller's lifecycle state
  limits,      \* the URDF was found and has limits for the joint
  first,       \* first_activation_
  lastCmd,     \* lastCmd, which both threads write
  nonRT, rt,   \* the two cells of rt_command_
  fresh,       \* rt_command_ has new data
  msg,         \* the message setCmdCallback is working on
  cb, cbAt,    \* where the executor thread is: idle, store, lock or copy, which field
  up, upAt,    \* where the real-time thread is: idle, activate, copy, sane or build
  seen,        \* what update has read of lastCmd so far
  effort       \* the effort on the command interface

buffer   == <<nonRT, rt, fresh>>
callback == <<msg, cb, cbAt>>
realtime == <<up, upAt, seen>>
vars     == <<life, limits, first, lastCmd, buffer, callback, realtime, effort>>

TypeOK ==
  /\ life \in {"unconfigured", "inactive", "active"}
  /\ limits \in BOOLEAN /\ first \in BOOLEAN /\ fresh \in BOOLEAN
  /\ lastCmd \in MotorCmd /\ nonRT \in MotorCmd /\ rt \in MotorCmd
  /\ msg \in MotorCmd
  /\ cb \in {"idle", "store", "lock", "copy"} /\ cbAt \in 1..6
  /\ up \in {"idle", "activate", "copy", "sane", "build"} /\ upAt \in 1..9
  /\ up \in {"activate", "copy", "sane"} => upAt \in 1..6
  /\ seen \in [Slot -> Number]
  /\ effort \in Int

Unread == [s \in Slot |-> 0]

Init ==
  /\ life = "unconfigured"
  /\ limits = FALSE
  /\ first = TRUE
  /\ lastCmd = Default
  /\ nonRT = Default /\ rt = Default /\ fresh = FALSE
  /\ msg = Default /\ cb = "idle" /\ cbAt = 1
  /\ up = "idle" /\ upAt = 1
  /\ seen = Unread
  /\ effort = 0

-----------------------------------------------------------------------------
(* The torque law *)

Finite(x) == x # NaN

\* clamp() lets through what compares with nothing.
clamp(x, min, max) ==
  IF ~Finite(x) THEN x ELSE IF x < min THEN min ELSE IF x > max THEN max ELSE x

positionLimits(x, limited) == IF limited THEN clamp(x, Lower, Upper) ELSE x
velocityLimits(x, limited) ==
  IF limited THEN clamp(x, -VelocityLimit, VelocityLimit) ELSE x

\* Mistake: only the upper limit is enforced.
effortLimits_Upper(x, limited) == IF limited THEN clamp(x, x, EffortLimit) ELSE x
effortLimits(x, limited) ==
  IF limited THEN clamp(x, -EffortLimit, EffortLimit) ELSE x

sane(x) == IF Finite(x) THEN x ELSE 0

servoCmd(s, limited) ==
  IF s.mode = PMSM
  THEN [pos          |-> positionLimits(s.pos, limited),
        posStiffness |-> IF s.posStop = PosStop THEN 0 ELSE s.kp,
        vel          |-> velocityLimits(s.vel, limited),
        velStiffness |-> IF s.velStop = VelStop THEN 0 ELSE s.kd,
        torque       |-> effortLimits(s.tau, limited)]
  ELSE [pos |-> 0, posStiffness |-> 0, vel |-> 0,
        velStiffness |-> BrakeDamping, torque |-> 0]

\* A gain that is not positive, or not a number, switches its term off, and so does a
\* target at the stop value.
Term(target, stop, gain, measured) ==
  IF Finite(gain) /\ Finite(target) /\ gain > 0 /\ target # stop
  THEN gain * (target - measured) ELSE 0

\* A feedforward torque that is not a number takes the whole sum with it.
computeTorque(pos, vel, c) ==
  IF ~Finite(c.torque) THEN 0
  ELSE Term(c.pos, PosStop, c.posStiffness, pos)
         + Term(c.vel, VelStop, c.velStiffness, vel) + c.torque

\* The efforts with which the joint may answer what update read.
Efforts(s, limited) ==
  {effortLimits(computeTorque(pos, vel, servoCmd(s, limited)), limited) :
     pos \in Positions, vel \in Velocities}

-----------------------------------------------------------------------------
(* The executor thread *)

\* read_parameters: the robot description is the controller's own parameter, or else the
\* state publisher's, or else the controller manager's.  The first that parses decides
\* whether there are limits for the joint; without any there are none.
Description == {"none", "without limits", "with limits"}
read_parameters ==
  \E found \in [1..3 -> Description] :
    LET parsed == {k \in 1..3 : found[k] # "none"} IN
    limits' = \E k \in parsed : found[k] = "with limits" /\ \A j \in parsed : k <= j

\* on_configure; without a joint name it fails and nothing changes.
on_configure ==
  /\ life = "unconfigured"
  /\ life' = "inactive"
  /\ read_parameters
  /\ nonRT' = Default /\ rt' = Default
  /\ UNCHANGED <<first, lastCmd, fresh, callback, realtime, effort>>

Receive(c) ==
  /\ life # "unconfigured" /\ cb = "idle"
  /\ cb' = "store" /\ cbAt' = 1
  /\ msg' = c
  /\ UNCHANGED <<life, limits, first, lastCmd, buffer, realtime, effort>>

\* Mistake: the damping is not taken over.
StoreField_NoDamping ==
  /\ cb = "store"
  /\ LET f == CallbackOrder[cbAt] IN
       lastCmd' = IF f = "kd" THEN lastCmd ELSE [lastCmd EXCEPT ![f] = msg[f]]
  /\ cb' = IF cbAt = 6 THEN "lock" ELSE "store"
  /\ cbAt' = IF cbAt = 6 THEN 1 ELSE cbAt + 1
  /\ UNCHANGED <<life, limits, first, buffer, msg, realtime, effort>>

\* Mistake: the line for the damping takes the stiffness.
StoreField_Twice ==
  /\ cb = "store"
  /\ LET f == CallbackOrder[cbAt] IN
       lastCmd' = [lastCmd EXCEPT ![f] = msg[IF f = "kd" THEN "kp" ELSE f]]
  /\ cb' = IF cbAt = 6 THEN "lock" ELSE "store"
  /\ cbAt' = IF cbAt = 6 THEN 1 ELSE cbAt + 1
  /\ UNCHANGED <<life, limits, first, buffer, msg, realtime, effort>>

StoreField ==
  /\ cb = "store"
  /\ LET f == CallbackOrder[cbAt] IN lastCmd' = [lastCmd EXCEPT ![f] = msg[f]]
  /\ cb' = IF cbAt = 6 THEN "lock" ELSE "store"
  /\ cbAt' = IF cbAt = 6 THEN 1 ELSE cbAt + 1
  /\ UNCHANGED <<life, limits, first, buffer, msg, realtime, effort>>

\* writeFromNonRT(lastCmd) copies under the buffer's lock - from lastCmd, which the
\* lock does not protect.
LockBuffer ==
  /\ cb = "lock"
  /\ cb' = "copy"
  /\ UNCHANGED <<life, limits, first, lastCmd, buffer, msg, cbAt, realtime, effort>>

CopyField ==
  /\ cb = "copy"
  /\ LET f == CopyOrder[cbAt] IN nonRT' = [nonRT EXCEPT ![f] = lastCmd[f]]
  /\ IF cbAt = 6
     THEN cb' = "idle" /\ cbAt' = 1 /\ fresh' = TRUE /\ msg' = Default
     ELSE cb' = "copy" /\ cbAt' = cbAt + 1 /\ UNCHANGED <<fresh, msg>>
  /\ UNCHANGED <<life, limits, first, lastCmd, rt, realtime, effort>>

setCmdCallback == StoreField \/ LockBuffer \/ CopyField

Locked == cb = "copy"

-----------------------------------------------------------------------------
(* The real-time thread *)

\* on_activate writes lastCmd field by field; it does not touch the buffer.
on_activate ==
  /\ life = "inactive" /\ up = "idle"
  /\ up' = "activate" /\ upAt' = 1
  /\ UNCHANGED <<life, limits, first, lastCmd, buffer, callback, seen, effort>>

ActivateField ==
  /\ up = "activate"
  /\ LET f == ActivateOrder[upAt]
         c == IF first THEN FreeFall ELSE Braking
     IN  lastCmd' = [lastCmd EXCEPT ![f] = c[f]]
  /\ IF upAt = 6
     THEN up' = "idle" /\ upAt' = 1 /\ life' = "active" /\ first' = FALSE
     ELSE up' = "activate" /\ upAt' = upAt + 1 /\ UNCHANGED <<life, first>>
  /\ UNCHANGED <<limits, buffer, callback, seen, effort>>

\* Assigning a new buffer to rt_command_ writes its empty command to the writer's
\* side, under the lock; the effort on the interface stays.
on_deactivate ==
  /\ life = "active" /\ up = "idle" /\ ~Locked
  /\ life' = "inactive"
  /\ nonRT' = Default /\ fresh' = TRUE
  /\ UNCHANGED <<limits, first, lastCmd, rt, callback, realtime, effort>>

\* readFromRT swaps the cells; what the writer gets back it overwrites before anyone
\* reads it.  It is never null, so update never stops here.
readFromRT ==
  /\ life = "active" /\ up = "idle"
  /\ IF fresh /\ ~Locked
     THEN rt' = nonRT /\ fresh' = FALSE /\ UNCHANGED nonRT
     ELSE UNCHANGED buffer
  /\ up' = "copy" /\ upAt' = 1
  /\ UNCHANGED <<life, limits, first, lastCmd, callback, seen, effort>>

TakeField ==
  /\ up = "copy"
  /\ LET f == CopyOrder[upAt] IN lastCmd' = [lastCmd EXCEPT ![f] = rt[f]]
  /\ up' = IF upAt = 6 THEN "sane" ELSE "copy"
  /\ upAt' = IF upAt = 6 THEN 1 ELSE upAt + 1
  /\ UNCHANGED <<life, limits, first, buffer, callback, seen, effort>>

SaneField ==
  /\ up = "sane"
  /\ LET f == SaneOrder[upAt]
         v == lastCmd[f]
     IN  lastCmd' = [lastCmd EXCEPT ![f] =
           IF f = "mode" THEN IF v \in {PMSM, BRAKE} THEN v ELSE BRAKE ELSE sane(v)]
  /\ up' = IF upAt = 6 THEN "build" ELSE "sane"
  /\ upAt' = IF upAt = 6 THEN 1 ELSE upAt + 1
  /\ UNCHANGED <<life, limits, first, buffer, callback, seen, effort>>

\* In BRAKE nothing but the mode is read.
Built == up = "build" /\ (upAt = 9 \/ (upAt = 2 /\ seen.mode # PMSM))

ReadField ==
  /\ up = "build" /\ ~Built
  /\ LET s == ReadOrder[upAt] IN seen' = [seen EXCEPT ![s] = lastCmd[ReadOf[s]]]
  /\ upAt' = upAt + 1
  /\ UNCHANGED <<life, limits, first, lastCmd, buffer, callback, up, effort>>

Finish ==
  /\ up' = "idle" /\ upAt' = 1
  /\ seen' = Unread
  /\ UNCHANGED <<life, limits, first, lastCmd, buffer, callback>>

\* The free-fall period is FREE_FALL_DURATION = 0 seconds long: it is always over.
WriteEffort ==
  /\ Built
  /\ effort' \in Efforts(seen, limits)
  /\ Finish

\* No position on the state interface: update gives up before writing.
NoPosition ==
  /\ Built
  /\ UNCHANGED effort
  /\ Finish

update == readFromRT \/ TakeField \/ SaneField \/ ReadField \/ WriteEffort \/ NoPosition

Next == \/ on_configure
        \/ \E c \in Commands : Receive(c)
        \/ setCmdCallback
        \/ on_activate \/ ActivateField \/ on_deactivate
        \/ update

Spec == Init /\ [][Next]_vars

-----------------------------------------------------------------------------

\* Whatever a command holds, and however the threads tear it apart, the effort is a
\* number, and within the limit wherever the URDF gives one.
EffortSafe == effort \in Int /\ (limits => effort \in -EffortLimit..EffortLimit)
===============================================================================
