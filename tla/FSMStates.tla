------------------------------ MODULE FSMStates ------------------------------
(***************************************************************************)
(* The states of the Go1 controller's finite state machine: what their     *)
(* enter, run and exit methods do to the low-level command, to the wave    *)
(* status and to the stand-up ramp, and where checkChange sends them.      *)
(*                                                                         *)
(* A method is a function of the "body" record                             *)
(*    cmd      the 12 motor commands of CtrlComponents::lowCmd             *)
(*    wave     CtrlComponents::_waveStatus                                 *)
(*    percent  State_FixedStand::_percent, in steps of 1/Duration          *)
(* and returns the body it leaves behind.  A motor command keeps, for the  *)
(* 12 joints together, only which writer set each of its fields.           *)
(***************************************************************************)
EXTENDS Naturals

CONSTANT Duration    \* ticks of the stand-up ramp (State_FixedStand::_duration)

ASSUME DurationAssumption == Duration \in Nat \ {0}

UserCommand == {"NONE", "START", "L2_A", "L2_B", "L2_X", "L2_Y",
                "L1_X", "L1_A", "L1_Y"}
WaveStatus  == {"STANCE_ALL", "SWING_ALL", "WAVE_ALL"}
FSMMode     == {"NORMAL", "CHANGE"}
StateName   == {"PASSIVE", "FIXEDSTAND", "FREESTAND", "TROTTING", "TRANSITION",
                "MOVE_BASE", "MOVE_GAIT", "BALANCETEST", "SWINGTEST", "STEPTEST"}

\* gain: "damp" Kp 0 Kd 8, "stance" the position gains, "leg0" position gains
\* with leg 0 on swing gains, "zero", "stable", "walk" swing or stable per leg.
MotorCmd == [gain : {"damp", "stance", "leg0", "zero", "stable", "walk"},
             q    : {"zero", "measured", "ramp", "posture", "gait"},
             dq   : {"zero", "gait"},
             tau  : {"zero", "control", "nan"}]
Body     == [cmd : MotorCmd, wave : WaveStatus, percent : 0..Duration]

LimpCmd   == [gain |-> "damp",   q |-> "zero",     dq |-> "zero", tau |-> "zero"]
StanceCmd == [gain |-> "stance", q |-> "measured", dq |-> "zero", tau |-> "zero"]

\* What a read of the nine torques State_SwingTest leaves uninitialised gives.
Uninitialised == {"control", "nan"}

-----------------------------------------------------------------------------
(* State_Passive *)
Passive_enter(b)       == [b EXCEPT !.cmd = LimpCmd, !.wave = "SWING_ALL"]
\* Mistake: PASSIVE also answers START, as the stands do.
Passive_checkChange_Starts(c) ==
  CASE c = "L2_A" -> "FIXEDSTAND" [] c = "START" -> "TROTTING" [] OTHER -> "PASSIVE"

Passive_checkChange(c) == IF c = "L2_A" THEN "FIXEDSTAND" ELSE "PASSIVE"

(* State_FixedStand *)
\* Mistakes: enter keeps the torque and velocity it finds; enter forgets
\* setAllStance; run lets the ramp grow; exit forgets to reset it.
FixedStand_enter_KeepsTau(b) ==
  [b EXCEPT !.cmd = [StanceCmd EXCEPT !.tau = b.cmd.tau, !.dq = b.cmd.dq],
            !.wave = "STANCE_ALL"]
FixedStand_enter_NoStance(b) == [b EXCEPT !.cmd = StanceCmd]
FixedStand_run_Grows(b)      == [b EXCEPT !.cmd.q = "ramp", !.percent = @ + 1]

FixedStand_enter(b) == [b EXCEPT !.cmd = StanceCmd, !.wave = "STANCE_ALL"]
FixedStand_run(b)   == [b EXCEPT !.cmd.q = "ramp",
                                 !.percent = IF @ < Duration THEN @ + 1 ELSE Duration]
FixedStand_exit(b)  == [b EXCEPT !.percent = 0]
FixedStand_checkChange(c) ==
  CASE c = "L2_B"  -> "PASSIVE"
    [] c = "L2_X"  -> "FREESTAND"
    [] c = "START" -> "TROTTING"
    [] c = "L1_X"  -> "BALANCETEST"
    [] c = "L1_A"  -> "SWINGTEST"
    [] c = "L1_Y"  -> "STEPTEST"
    [] c = "L2_Y"  -> "MOVE_GAIT"
    [] OTHER       -> "FIXEDSTAND"

(* State_FreeStand *)
FreeStand_enter(b) == [b EXCEPT !.cmd = StanceCmd, !.wave = "STANCE_ALL"]
FreeStand_run(b)   == [b EXCEPT !.cmd.q = "posture"]
\* Mistake: the key that leads to FREESTAND leads out of it, too.
FreeStand_checkChange_Toggles(c) ==
  CASE c \in {"L2_A", "L2_X"} -> "FIXEDSTAND"
    [] c = "L2_B"  -> "PASSIVE"
    [] c = "START" -> "TRANSITION"
    [] OTHER       -> "FREESTAND"

FreeStand_checkChange(c) ==
  CASE c = "L2_A"  -> "FIXEDSTAND"
    [] c = "L2_B"  -> "PASSIVE"
    [] c = "START" -> "TRANSITION"
    [] OTHER       -> "FREESTAND"

(* State_Trotting, and State_move_base which inherits run and exit *)
Trotting_run(b)  == [b EXCEPT !.cmd = [gain |-> "walk", q |-> "gait",
                                       dq |-> "gait", tau |-> "control"],
                              !.wave = "WAVE_ALL"]
Trotting_exit(b) == [b EXCEPT !.wave = "SWING_ALL"]
Trotting_checkChange(c) ==
  CASE c = "L2_B" -> "PASSIVE" [] c = "L2_A" -> "FIXEDSTAND" [] OTHER -> "TROTTING"
MoveBase_checkChange(c) ==
  CASE c = "L2_B" -> "PASSIVE" [] c = "L2_A" -> "FIXEDSTAND" [] OTHER -> "MOVE_BASE"

(* State_GaitTransition, and State_move_gait which inherits run and exit *)
GaitTransition_run(b)  == [b EXCEPT !.cmd = [gain |-> "walk", q |-> "gait",
                                             dq |-> "gait", tau |-> "control"],
                                    !.wave = "WAVE_ALL"]
GaitTransition_exit(b) == [b EXCEPT !.wave = "SWING_ALL"]
GaitTransition_checkChange(c) ==
  CASE c = "L2_B" -> "PASSIVE" [] c = "L2_A" -> "FIXEDSTAND" [] OTHER -> "TRANSITION"
MoveGait_checkChange(c) ==
  CASE c = "L2_B" -> "PASSIVE" [] c = "L2_A" -> "FIXEDSTAND" [] OTHER -> "MOVE_GAIT"

(* State_BalanceTest: dq keeps what the previous state left *)
BalanceTest_enter(b) == [b EXCEPT !.wave = "STANCE_ALL"]
BalanceTest_run(b)   ==
  [b EXCEPT !.cmd = [@ EXCEPT !.gain = "stable", !.q = "measured", !.tau = "control"]]
BalanceTest_checkChange(c) ==
  CASE c = "L2_B" -> "PASSIVE" [] c = "L2_A" -> "FIXEDSTAND" [] OTHER -> "BALANCETEST"

(* State_SwingTest: "junk" is the outcome of reading the torques it never sets *)
SwingTest_enter(b) == [b EXCEPT !.cmd = [StanceCmd EXCEPT !.gain = "leg0"],
                                !.wave = "SWING_ALL"]
SwingTest_run(b, junk) == [b EXCEPT !.cmd.q = "posture", !.cmd.tau = junk]
\* Mistake: SWINGTEST cannot be left for FIXEDSTAND.
SwingTest_checkChange_NoStand(c) == IF c = "L2_B" THEN "PASSIVE" ELSE "SWINGTEST"
SwingTest_checkChange(c) ==
  CASE c = "L2_B" -> "PASSIVE" [] c = "L2_A" -> "FIXEDSTAND" [] OTHER -> "SWINGTEST"

(* State_StepTest: q and dq keep what the previous state left *)
StepTest_enter(b) == [b EXCEPT !.wave = "WAVE_ALL"]
StepTest_run(b)   == [b EXCEPT !.cmd.gain = "zero", !.cmd.tau = "control"]
StepTest_exit(b)  == [b EXCEPT !.wave = "SWING_ALL"]
StepTest_checkChange(c) ==
  CASE c = "L2_B" -> "PASSIVE" [] c = "L2_A" -> "FIXEDSTAND" [] OTHER -> "STEPTEST"

-----------------------------------------------------------------------------
(* Dispatch on the current state, as the virtual calls of FSM::run do.     *)

enter(s, b) ==
  CASE s = "PASSIVE"     -> Passive_enter(b)
    [] s = "FIXEDSTAND"  -> FixedStand_enter(b)
    [] s = "FREESTAND"   -> FreeStand_enter(b)
    [] s = "BALANCETEST" -> BalanceTest_enter(b)
    [] s = "SWINGTEST"   -> SwingTest_enter(b)
    [] s = "STEPTEST"    -> StepTest_enter(b)
    [] OTHER             -> b     \* the walking states set only their own goals

run(s, b, junk) ==
  CASE s = "PASSIVE"                   -> b
    [] s = "FIXEDSTAND"                -> FixedStand_run(b)
    [] s = "FREESTAND"                 -> FreeStand_run(b)
    [] s \in {"TROTTING", "MOVE_BASE"} -> Trotting_run(b)
    [] s \in {"TRANSITION", "MOVE_GAIT"} -> GaitTransition_run(b)
    [] s = "BALANCETEST"               -> BalanceTest_run(b)
    [] s = "SWINGTEST"                 -> SwingTest_run(b, junk)
    [] s = "STEPTEST"                  -> StepTest_run(b)

exit(s, b) ==
  CASE s = "FIXEDSTAND"                -> FixedStand_exit(b)
    [] s \in {"TROTTING", "MOVE_BASE"} -> Trotting_exit(b)
    [] s \in {"TRANSITION", "MOVE_GAIT"} -> GaitTransition_exit(b)
    [] s = "STEPTEST"                  -> StepTest_exit(b)
    [] OTHER                           -> b

checkChange(s, c) ==
  CASE s = "PASSIVE"     -> Passive_checkChange(c)
    [] s = "FIXEDSTAND"  -> FixedStand_checkChange(c)
    [] s = "FREESTAND"   -> FreeStand_checkChange(c)
    [] s = "TROTTING"    -> Trotting_checkChange(c)
    [] s = "TRANSITION"  -> GaitTransition_checkChange(c)
    [] s = "MOVE_BASE"   -> MoveBase_checkChange(c)
    [] s = "MOVE_GAIT"   -> MoveGait_checkChange(c)
    [] s = "BALANCETEST" -> BalanceTest_checkChange(c)
    [] s = "SWINGTEST"   -> SwingTest_checkChange(c)
    [] s = "STEPTEST"    -> StepTest_checkChange(c)

\* The states whose enter, and whose exit, call IOInterface::zeroCmdPanel.
Walking       == {"TROTTING", "TRANSITION", "MOVE_BASE", "MOVE_GAIT"}
\* Mistake: the walking states do not zero the sticks when entered.
ZeroesOnEnter_NotWalking == {"FREESTAND", "BALANCETEST", "STEPTEST"}
ZeroesOnEnter == Walking \cup {"FREESTAND", "BALANCETEST", "STEPTEST"}
ZeroesOnExit  == ZeroesOnEnter \cup {"SWINGTEST"}

\* The states whose run calls CtrlComponents::runWaveGen once more in the tick.
RunsWaveGen == {"TRANSITION", "MOVE_GAIT"}
=============================================================================
