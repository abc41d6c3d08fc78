-------------------------- MODULE ControlFSM_proofs --------------------------
(***************************************************************************)
(* Proofs about the control FSM, for every ramp length, stick range and    *)
(* key set: the methods of the states keep the types, and so does Next; no *)
(* state shows what the one before it has left behind; and, from its       *)
(* audits, a fall reaches the motors in four ticks, the FSM obeys the mode *)
(* supervisor, and no stick moves a state it was not typed for.            *)
(***************************************************************************)
EXTENDS PanelAudit, TLAPS

\* Which state checkChange returns is always one of the list: getNextState never
\* falls through to the null pointer of INVALID (FSM.cpp:73-74,116-117).
LEMMA CheckChangeType ==
  ASSUME NEW s \in StateName, NEW c \in UserCommand
  PROVE  checkChange(s, c) \in StateName
  BY DEF StateName, checkChange, Passive_checkChange, FixedStand_checkChange,
         FreeStand_checkChange, Trotting_checkChange, GaitTransition_checkChange,
         MoveBase_checkChange, MoveGait_checkChange, BalanceTest_checkChange,
         SwingTest_checkChange, StepTest_checkChange

\* The passive command of the keys, which is also the one of the fall protection,
\* sends every state to PASSIVE at once (State_*.cpp, checkChange).
LEMMA PassiveCommandWins ==
  ASSUME NEW s \in StateName
  PROVE  checkChange(s, "L2_B") = "PASSIVE"
  BY DEF StateName, checkChange, Passive_checkChange, FixedStand_checkChange,
         FreeStand_checkChange, Trotting_checkChange, GaitTransition_checkChange,
         MoveBase_checkChange, MoveGait_checkChange, BalanceTest_checkChange,
         SwingTest_checkChange, StepTest_checkChange

\* A command obeyed is spent: userCmd stays on the panel, and the state it led to
\* does not answer it again.
THEOREM CommandIsSpent ==
  ASSUME NEW s \in StateName, NEW c \in UserCommand
  PROVE  checkChange(checkChange(s, c), c) = checkChange(s, c)
<1> USE DEF checkChange, Passive_checkChange, FixedStand_checkChange,
        FreeStand_checkChange, Trotting_checkChange, GaitTransition_checkChange,
        MoveBase_checkChange, MoveGait_checkChange, BalanceTest_checkChange,
        SwingTest_checkChange, StepTest_checkChange
<1>1. CASE s = "PASSIVE"
  BY <1>1 DEF UserCommand
<1>2. CASE s = "FIXEDSTAND"
  <2>1. CASE c = "L2_B"   BY <1>2, <2>1
  <2>2. CASE c = "L2_X"   BY <1>2, <2>2
  <2>3. CASE c = "START"  BY <1>2, <2>3
  <2>4. CASE c \in {"L1_X", "L1_A", "L1_Y"}  BY <1>2, <2>4
  <2>5. CASE c = "L2_Y"   BY <1>2, <2>5
  <2>6. CASE c \in {"NONE", "L2_A"}  BY <1>2, <2>6
  <2>. QED  BY <2>1, <2>2, <2>3, <2>4, <2>5, <2>6 DEF UserCommand
<1>3. CASE s = "FREESTAND"
  <2>1. CASE c \in {"L2_A", "L2_B", "START"}  BY <1>3, <2>1
  <2>2. CASE c \notin {"L2_A", "L2_B", "START"}  BY <1>3, <2>2
  <2>. QED  BY <2>1, <2>2
<1>4. CASE s \in {"TROTTING", "TRANSITION", "MOVE_BASE", "MOVE_GAIT"}
  <2>1. CASE c \in {"L2_A", "L2_B"}  BY <1>4, <2>1
  <2>2. CASE c \notin {"L2_A", "L2_B"}  BY <1>4, <2>2
  <2>. QED  BY <2>1, <2>2
<1>5. CASE s \in {"BALANCETEST", "SWINGTEST", "STEPTEST"}
  <2>1. CASE c \in {"L2_A", "L2_B"}  BY <1>5, <2>1
  <2>2. CASE c \notin {"L2_A", "L2_B"}  BY <1>5, <2>2
  <2>. QED  BY <2>1, <2>2
<1>. QED  BY <1>1, <1>2, <1>3, <1>4, <1>5 DEF StateName

-----------------------------------------------------------------------------
(* The methods of the states map bodies to bodies.                         *)

LEMMA CommandTypes ==
  LimpCmd \in MotorCmd /\ StanceCmd \in MotorCmd
  BY DEF LimpCmd, StanceCmd, MotorCmd

LEMMA EnterType ==
  ASSUME NEW s \in StateName, NEW b \in Body
  PROVE  enter(s, b) \in Body
  BY CommandTypes
  DEF enter, Body, MotorCmd, WaveStatus, StanceCmd, Passive_enter, FixedStand_enter,
      FreeStand_enter, BalanceTest_enter, SwingTest_enter, StepTest_enter

LEMMA RunType ==
  ASSUME NEW s \in StateName, NEW b \in Body, NEW junk \in Uninitialised
  PROVE  run(s, b, junk) \in Body
<1> USE DEF run, Body, MotorCmd
<1>1. CASE s \in {"PASSIVE", "FREESTAND"}
  BY <1>1 DEF FreeStand_run
<1>7. CASE s = "FIXEDSTAND"
  <2> DEFINE percent == IF b.percent < Duration THEN b.percent + 1 ELSE Duration
             cmd     == [b.cmd EXCEPT !.q = "ramp"]
  <2>1. percent \in 0..Duration
    BY DurationAssumption
  <2>2. cmd \in MotorCmd
    OBVIOUS
  <2>3. run(s, b, junk) = [cmd |-> cmd, wave |-> b.wave, percent |-> percent]
    BY <1>7 DEF FixedStand_run
  <2> HIDE DEF percent, cmd
  <2>4. b.wave \in WaveStatus
    OBVIOUS
  <2>5. [cmd |-> cmd, wave |-> b.wave, percent |-> percent] \in Body
    <3> HIDE DEF MotorCmd
    <3>. QED  BY <2>1, <2>2, <2>4
  <2>. QED  BY <2>3, <2>5
<1>2. CASE s \in {"TROTTING", "MOVE_BASE"}
  BY <1>2 DEF Trotting_run, WaveStatus
<1>3. CASE s \in {"TRANSITION", "MOVE_GAIT"}
  BY <1>3 DEF GaitTransition_run, WaveStatus
<1>4. CASE s = "BALANCETEST"
  BY <1>4 DEF BalanceTest_run
<1>5. CASE s = "SWINGTEST"
  BY <1>5 DEF SwingTest_run, Uninitialised
<1>6. CASE s = "STEPTEST"
  BY <1>6 DEF StepTest_run
<1>. QED  BY <1>1, <1>2, <1>3, <1>4, <1>5, <1>6, <1>7 DEF StateName

LEMMA ExitType ==
  ASSUME NEW s \in StateName, NEW b \in Body
  PROVE  exit(s, b) \in Body
  BY DurationAssumption
  DEF exit, Body, WaveStatus, FixedStand_exit, Trotting_exit, GaitTransition_exit,
      StepTest_exit

LEMMA CheckCmdType == ASSUME NEW k PROVE checkCmd(k) \in UserCommand
  BY DEF checkCmd, UserCommand

LEMMA ChangeValueType ==
  ASSUME NEW k \in {"up", "down"}, NEW v \in Stick
  PROVE  changeValue(k, v) \in Stick
  BY StickAssumption DEF changeValue, Stick

-----------------------------------------------------------------------------

LEMMA TypeInit == Init => TypeOK
<1> SUFFICES ASSUME Init PROVE TypeOK
  OBVIOUS
<1>1. body \in Body
  BY CommandTypes, DurationAssumption DEF Init, Body, WaveStatus
<1>2. sent \in MotorCmd
  BY CommandTypes DEF Init
<1>3. 0 \in Stick
  BY StickAssumption DEF Stick
<1>. QED
  BY <1>1, <1>2, <1>3 DEF Init, TypeOK, StateName, FSMMode, WaveStatus, UserCommand

LEMMA TypeStep == TypeOK /\ [Next]_vars => TypeOK'
<1> SUFFICES ASSUME TypeOK, [Next]_vars PROVE TypeOK'
  OBVIOUS
<1> USE DEF TypeOK
<1>1. CASE SendRecv
  BY <1>1 DEF SendRecv, panel, keyboard, Body
<1>2. CASE GetUserCmd
  BY <1>2 DEF GetUserCmd, panel, keyboard
<1>3. CASE GetUserValue
  BY <1>3 DEF GetUserValue, panel, keyboard
<1>4. CASE CheckSafty
  BY <1>4 DEF CheckSafty, keyboard, Body, UserCommand
<1>5. CASE RunNormal
  <2>1. body' \in Body
    BY <1>5, RunType DEF RunNormal
  <2>2. mode' \in FSMMode /\ nextState' \in StateName
    BY <1>5, CheckChangeType DEF RunNormal, FSMMode
  <2>3. waveIn' \in WaveStatus
    BY <1>5 DEF RunNormal, Body
  <2>. QED  BY <1>5, <2>1, <2>2, <2>3 DEF RunNormal, panel, keyboard
<1>6. CASE ExitState
  <2>1. body' \in Body
    BY <1>6, ExitType DEF ExitState
  <2>. QED  BY <1>6, <2>1, StickAssumption DEF ExitState, keyboard, Stick
<1>7. CASE EnterState
  <2>1. body' \in Body
    BY <1>7, EnterType, RunType DEF EnterState
  <2>2. waveIn' \in WaveStatus
    <3>1. enter(nextState, body).wave \in WaveStatus
      BY EnterType DEF Body
    <3>. QED  BY <1>7, <3>1 DEF EnterState
  <2>. QED  BY <1>7, <2>1, <2>2, StickAssumption DEF EnterState, keyboard, Stick, FSMMode
<1>8. CASE Stop
  BY <1>8 DEF Stop, panel, keyboard
<1>9. CASE StoreCmd
  BY <1>9, CheckCmdType DEF StoreCmd, control
<1>10. CASE TestCmd
  <2>1. stick' \in Stick
    BY <1>10, ChangeValueType DEF TestCmd
  <2>. QED  BY <1>10, <2>1 DEF TestCmd, control, panel
<1>11. CASE WriteValue
  BY <1>11, StickAssumption DEF WriteValue, control, Stick
<1>12. ASSUME NEW k \in Keys, ReadKey(k) PROVE TypeOK'
  BY <1>12, StickAssumption DEF ReadKey, control, Stick
<1>13. CASE Tilt
  BY <1>13 DEF Tilt, control, panel, keyboard
<1>14. CASE Interrupt
  BY <1>14 DEF Interrupt, control, panel, keyboard
<1>15. CASE UNCHANGED vars
  BY <1>15 DEF vars, control, panel, keyboard
<1>. QED
  BY <1>1, <1>2, <1>3, <1>4, <1>5, <1>6, <1>7, <1>8, <1>9, <1>10, <1>11, <1>12,
     <1>13, <1>14, <1>15
  DEF Next, ControlThread, KeyboardThread

\* Every reachable state of the process is well typed: no transition leads outside
\* the state list, the stick stays saturated and the ramp within its length.
THEOREM TypeCorrect == Spec => []TypeOK
  BY TypeInit, TypeStep, PTL DEF Spec
-----------------------------------------------------------------------------
(* What a state leaves behind never shows in the next one.  Two states     *)
(* overwrite only part of the motor command and the stepping states rely   *)
(* on a stand before them, so the invariant also says which states lead to *)
(* those (Predecessors).                                                   *)

\* The states that need a certain predecessor are reached from it only.
LEMMA PredecessorsOfChange ==
  ASSUME NEW s \in StateName, NEW c \in UserCommand, checkChange(s, c) # s
  PROVE  /\ checkChange(s, c) = "BALANCETEST" => s = "FIXEDSTAND"
         /\ checkChange(s, c) \in Stepping => s \in {"FIXEDSTAND", "FREESTAND"}
  BY DEF StateName, Stepping, Walking, checkChange, Passive_checkChange,
         FixedStand_checkChange, FreeStand_checkChange, Trotting_checkChange,
         GaitTransition_checkChange, MoveBase_checkChange, MoveGait_checkChange,
         BalanceTest_checkChange, SwingTest_checkChange, StepTest_checkChange

\* BALANCETEST writes neither the velocities nor what lies outside the motor command.
LEMMA BalanceTestKeeps ==
  ASSUME NEW s \in StateName, NEW b \in Body, NEW junk,
         s = "BALANCETEST", Fits(b.cmd, s)
  PROVE  LET r == run(s, b, junk) IN
         /\ Fits(r.cmd, s) /\ r.wave = b.wave /\ r.percent = b.percent
<1> DEFINE r == run(s, b, junk)
<1>1. r = BalanceTest_run(b)
  BY DEF run
<1>2. b.cmd.dq = "zero"
  BY DEF Fits, Walking
<1>3. /\ r.wave = b.wave /\ r.percent = b.percent
      /\ r.cmd = [b.cmd EXCEPT !.gain = "stable", !.q = "measured", !.tau = "control"]
  BY <1>1 DEF BalanceTest_run, Body
<1>4. r.cmd.gain = "stable" /\ r.cmd.dq = "zero"
  BY <1>2, <1>3 DEF Body, MotorCmd
<1>5. Fits(r.cmd, s)
  BY <1>4 DEF Fits, Walking
<1>. QED  BY <1>3, <1>5

\* run() keeps a command that fits, the wave status of its state, and a zero ramp
\* outside FIXEDSTAND.
LEMMA RunKeeps ==
  ASSUME NEW s \in StateName, NEW b \in Body, NEW junk \in Uninitialised,
         Fits(b.cmd, s), b.wave = WaveOf(s), s # "FIXEDSTAND" => b.percent = 0
  PROVE  LET r == run(s, b, junk) IN
         /\ Fits(r.cmd, s) /\ r.wave = WaveOf(s)
         /\ s # "FIXEDSTAND" => r.percent = 0
<1>6. CASE s = "BALANCETEST"
  BY <1>6, BalanceTestKeeps DEF WaveOf
<1> USE DEF Body, MotorCmd, Fits, WaveOf, run, Walking, Standing, Stepping
<1>1. CASE s = "PASSIVE"
  BY <1>1
<1>2. CASE s = "FIXEDSTAND"
  BY <1>2, ZenonT(60) DEF FixedStand_run, StanceCmd
<1>3. CASE s = "FREESTAND"
  BY <1>3 DEF FreeStand_run, StanceCmd
<1>4. CASE s \in {"TROTTING", "MOVE_BASE"}
  BY <1>4 DEF Trotting_run
<1>5. CASE s \in {"TRANSITION", "MOVE_GAIT"}
  BY <1>5, ZenonT(60) DEF GaitTransition_run
<1>7. CASE s = "SWINGTEST"
  BY <1>7 DEF SwingTest_run
<1>8. CASE s = "STEPTEST"
  BY <1>8 DEF StepTest_run
<1>. QED  BY <1>1, <1>2, <1>3, <1>4, <1>5, <1>6, <1>7, <1>8 DEF StateName

\* enter() followed by run() establishes the command and the wave status of the
\* state, from any body whose ramp is reset - BALANCETEST from FIXEDSTAND only.
LEMMA EntryEstablishes ==
  ASSUME NEW s \in StateName, NEW b \in Body, NEW junk \in Uninitialised,
         b.percent = 0, s = "BALANCETEST" => Fits(b.cmd, "FIXEDSTAND")
  PROVE  LET r == run(s, enter(s, b), junk) IN
         /\ Fits(r.cmd, s) /\ r.wave = WaveOf(s)
         /\ s # "FIXEDSTAND" => r.percent = 0
<1> DEFINE e == enter(s, b)
<1> USE DEF Fits, WaveOf, Walking, Standing, Stepping
<1>1. e \in Body
  BY EnterType
<1>2. CASE s \in Walking \cup {"PASSIVE", "FREESTAND", "SWINGTEST"}
  <2>1. CASE s = "PASSIVE"
    <3>1. e = [b EXCEPT !.cmd = LimpCmd, !.wave = "SWING_ALL"]
      BY <2>1 DEF enter, Passive_enter
    <3>2. e.cmd = LimpCmd /\ e.wave = "SWING_ALL" /\ e.percent = 0
      BY <3>1 DEF Body
    <3>. QED  BY <2>1, <3>2 DEF run
  <2>2. CASE s = "FREESTAND"
    <3>1. e.cmd = StanceCmd /\ e.wave = "STANCE_ALL" /\ e.percent = 0
      BY <2>2 DEF Body, enter, FreeStand_enter
    <3>. QED  BY <2>2, <1>1, <3>1 DEF Body, run, FreeStand_run, StanceCmd
  <2>3. CASE s = "SWINGTEST"
    <3>1. /\ e.cmd = [StanceCmd EXCEPT !.gain = "leg0"]
          /\ e.wave = "SWING_ALL" /\ e.percent = 0
      BY <2>3 DEF Body, enter, SwingTest_enter
    <3>. QED  BY <2>3, <1>1, <3>1 DEF Body, run, SwingTest_run, StanceCmd
  <2>4. CASE s \in Walking
    <3>1. e = b
      BY <2>4 DEF enter
    <3>. QED
      BY <2>4, <3>1 DEF Body, run, Trotting_run, GaitTransition_run
  <2>. QED  BY <1>2, <2>1, <2>2, <2>3, <2>4
<1>3. CASE s = "FIXEDSTAND"
  <2>1. e.cmd = StanceCmd /\ e.wave = "STANCE_ALL"
    BY <1>3 DEF Body, enter, FixedStand_enter
  <2>. QED  BY <1>3, <1>1, <2>1 DEF Body, run, FixedStand_run, StanceCmd
<1>4. CASE s = "BALANCETEST"
  <2>1. e.cmd = b.cmd /\ e.wave = "STANCE_ALL" /\ e.percent = 0
    BY <1>4 DEF Body, enter, BalanceTest_enter
  <2>2. e.cmd \in MotorCmd /\ e.cmd.dq = "zero"
    BY <1>4, <1>1, <2>1 DEF Body, StanceCmd
  <2>. QED  BY <1>4, <1>1, <2>1, <2>2 DEF Body, MotorCmd, run, BalanceTest_run
<1>5. CASE s = "STEPTEST"
  <2>1. e.cmd \in MotorCmd /\ e.wave = "WAVE_ALL" /\ e.percent = 0
    BY <1>5, <1>1 DEF Body, enter, StepTest_enter
  <2>. QED  BY <1>5, <1>1, <2>1 DEF Body, MotorCmd, run, StepTest_run
<1>. QED  BY <1>2, <1>3, <1>4, <1>5 DEF StateName

\* exit() leaves the motor command alone and the ramp at zero; leaving a stand
\* keeps the wave status too.
LEMMA ExitResets ==
  ASSUME NEW s \in StateName, NEW b \in Body, s # "FIXEDSTAND" => b.percent = 0
  PROVE  /\ exit(s, b).cmd = b.cmd /\ exit(s, b).percent = 0
         /\ s \in {"FIXEDSTAND", "FREESTAND"} => exit(s, b).wave = b.wave
  BY DEF Body, exit, FixedStand_exit, Trotting_exit, GaitTransition_exit,
         StepTest_exit

-----------------------------------------------------------------------------

LEMMA StandWave ==
  ASSUME NEW s \in {"FIXEDSTAND", "FREESTAND"}
  PROVE  WaveOf(s) = "STANCE_ALL"
  BY DEF WaveOf, Standing, Stepping, Walking

LEMMA StateStart == Init => StateInv
  BY DEF Init, StateInv, CommandMatchesState, WaveMatchesState, RampRestarts,
         Predecessors, RampDuringChange, LastWave, Fits, WaveOf, Standing, Stepping,
         Walking, LimpCmd

LEMMA StateStep == TypeOK /\ StateInv /\ [Next]_vars => StateInv'
<1> SUFFICES ASSUME TypeOK, StateInv, [Next]_vars PROVE StateInv'
  OBVIOUS
<1> USE DEF StateInv, CommandMatchesState, WaveMatchesState, RampRestarts,
            Predecessors, RampDuringChange, LastWave
<1>1. CASE CheckSafty
  <2>1. WaveOf(currentState) # "SWING_ALL" \/ currentState \notin Stepping
    BY DEF WaveOf, Stepping, Standing, Walking
  <2>. QED  BY <1>1, <2>1 DEF CheckSafty, keyboard
<1>2. CASE RunNormal
  <2>1. CommandMatchesState' /\ body'.wave = WaveOf(currentState) /\ RampRestarts'
    BY <1>2, RunKeeps DEF RunNormal, TypeOK
  <2>2. Predecessors'
    BY <1>2, PredecessorsOfChange DEF RunNormal, TypeOK
  <2>. QED  BY <1>2, <2>1, <2>2 DEF RunNormal
<1>3. CASE ExitState
  <2>1. body'.cmd = body.cmd /\ body'.percent = 0
    BY <1>3, ExitResets DEF ExitState, TypeOK
  <2>2. nextState \in Stepping => body'.wave = "STANCE_ALL"
    <3>1. nextState \in Stepping => currentState \in {"FIXEDSTAND", "FREESTAND"}
      BY <1>3 DEF ExitState
    <3>. QED  BY <1>3, <3>1, ExitResets, StandWave DEF ExitState, TypeOK
  <2>. QED  BY <1>3, <2>1, <2>2 DEF ExitState
<1>4. CASE EnterState
  <2>1. CommandMatchesState' /\ body'.wave = WaveOf(nextState) /\ RampRestarts'
    BY <1>4, EntryEstablishes DEF EnterState, TypeOK
  <2>2. nextState \in Stepping => waveIn' # "SWING_ALL"
    <3>1. nextState \in RunsWaveGen => enter(nextState, body) = body
      BY DEF RunsWaveGen, enter
    <3>2. nextState \in Stepping => waveIn = "STANCE_ALL"
      <4>1. nextState \in Stepping => currentState \in {"FIXEDSTAND", "FREESTAND"}
        BY <1>4 DEF EnterState
      <4>2. waveIn = WaveOf(currentState)
        BY <1>4 DEF EnterState
      <4>. QED  BY <4>1, <4>2, StandWave
    <3>. QED  BY <1>4, <3>1, <3>2 DEF EnterState
  <2>. QED  BY <1>4, <2>1, <2>2 DEF EnterState
<1>5. CASE SendRecv
  BY <1>5 DEF SendRecv
<1>6. CASE GetUserCmd
  BY <1>6 DEF GetUserCmd
<1>7. CASE GetUserValue
  BY <1>7 DEF GetUserValue
<1>8. CASE Stop
  BY <1>8 DEF Stop
<1>9. CASE UNCHANGED control
  BY <1>9 DEF control
<1>. QED
  <2>1. \/ ControlThread
        \/ UNCHANGED control
    BY DEF Next, KeyboardThread, StoreCmd, TestCmd, WriteValue, ReadKey, Tilt,
           Interrupt, vars
  <2>. QED
    BY <2>1, <1>1, <1>2, <1>3, <1>4, <1>5, <1>6, <1>7, <1>8, <1>9 DEF ControlThread

\* What each state relies on from those before it: which they can be, what they left in the
\* command, the wave status and the ramp.
THEOREM StateInvariant == Spec => []StateInv
  BY StateStart, StateStep, TypeCorrect, PTL DEF Spec

\* The motor command always is the one the current state stands for.
THEOREM CommandsMatch == Spec => []CommandMatchesState
<1>1. StateInv => CommandMatchesState
  BY DEF StateInv
<1>. QED  BY <1>1, StateInvariant, PTL

\* The wave status always fits the current state, between changes of state.
THEOREM WavesMatch == Spec => []WaveMatchesState
<1>1. StateInv => WaveMatchesState
  BY DEF StateInv
<1>. QED  BY <1>1, StateInvariant, PTL

\* The stand-up ramp is reset whenever FIXEDSTAND is left.
THEOREM RampIsReset == Spec => []RampRestarts
<1>1. StateInv => RampRestarts
  BY DEF StateInv
<1>. QED  BY <1>1, StateInvariant, PTL

\* The wave generator is never taken from all legs in the air straight to stepping.
THEOREM StandBetween == Spec => NeverSwingToWave
<1>1. TypeOK /\ StateInv /\ [Next]_vars
        => [~(waveIn = "SWING_ALL" /\ waveIn' = "WAVE_ALL")]_vars
  <2> SUFFICES ASSUME TypeOK, StateInv, Next
               PROVE  ~(waveIn = "SWING_ALL" /\ waveIn' = "WAVE_ALL")
    OBVIOUS
  <2>1. CASE CheckSafty
    <3>1. waveIn' = WaveOf(currentState)
      BY <2>1 DEF CheckSafty, StateInv, WaveMatchesState
    <3>2. waveIn' = "WAVE_ALL" => currentState \in Stepping
      BY <3>1 DEF WaveOf
    <3>. QED  BY <3>2 DEF StateInv, LastWave
  <2>2. CASE RunNormal
    <3>1. waveIn' # waveIn => currentState \in Stepping
      BY <2>2 DEF RunNormal, RunsWaveGen, Stepping, Walking
    <3>. QED  BY <3>1 DEF StateInv, LastWave
  <2>3. CASE EnterState
    <3>1. waveIn' # waveIn => nextState \in Stepping /\ waveIn' = body.wave
      BY <2>3 DEF EnterState, RunsWaveGen, Stepping, Walking, enter
    <3>. QED  BY <2>3, <3>1 DEF EnterState, StateInv, LastWave
  <2>4. CASE waveIn' = waveIn
    BY <2>4
  <2>. QED
    BY <2>1, <2>2, <2>3, <2>4 DEF Next, ControlThread, KeyboardThread, SendRecv, GetUserCmd,
       GetUserValue, ExitState, Stop, StoreCmd, TestCmd,
       WriteValue, ReadKey, Tilt, Interrupt, control
<1>. QED  BY <1>1, StateInvariant, TypeCorrect, PTL DEF Spec, NeverSwingToWave

-----------------------------------------------------------------------------
(* The caller of the wave generator                                        *)

\* What is walking after a change of state, and with which wave status.
LEMMA WalksOf ==
  ASSUME NEW s \in StateName
  PROVE  /\ walkOf(s) = "transition" <=> s \in RunsWaveGen
         /\ WaveOf(s) = "WAVE_ALL" <=> walkOf(s) # "none"
         /\ walkOf(s) \in {"none", "trotting", "transition"}
         /\ WaveOf(s) \in WaveStatus
         /\ s \in RunsWaveGen => s \in Walking
  BY DEF walkOf, WaveOf, RunsWaveGen, Stepping, Standing, Walking, WaveStatus, StateName

\* exit() of a state that walks, and of no other, stops the wave.
LEMMA ExitStops ==
  ASSUME NEW s \in StateName, NEW b \in Body
  PROVE  exit(s, b).wave = IF walkOf(s) = "none" THEN b.wave ELSE "SWING_ALL"
  BY DEF Body, exit, FixedStand_exit, Trotting_exit, GaitTransition_exit, StepTest_exit,
         walkOf, RunsWaveGen, Stepping, Walking, StateName

LEMMA CallsStart == Init => Caller!CallInit
  BY DEF Init, Caller!CallInit, walkOf, RunsWaveGen, Stepping, Walking

LEMMA CallsStep ==
  TypeOK /\ StateInv /\ [Next]_vars => [Caller!CallNext]_(Caller!calls)
<1> SUFFICES ASSUME TypeOK, StateInv, [Next]_vars
             PROVE  Caller!CallNext \/ UNCHANGED Caller!calls
  OBVIOUS
<1> USE DEF Caller!calls
<1>1. CASE CheckSafty
  <2>1. Caller!CallInTick
    BY <1>1, WalksOf DEF CheckSafty, TypeOK, Caller!CallInTick
  <2>. QED  BY <2>1 DEF Caller!CallNext
<1>2. CASE RunNormal
  <2>1. body.wave = WaveOf(currentState) /\ body'.wave = WaveOf(currentState)
    BY <1>2, StateStep DEF RunNormal, StateInv, WaveMatchesState
  <2>2. CASE currentState \in RunsWaveGen
    <3>1. body'.wave = "WAVE_ALL"
      BY <2>1, <2>2, WalksOf DEF TypeOK
    <3>2. Caller!CallInRun
      BY <1>2, <2>2, <3>1 DEF RunNormal, Caller!CallInRun
    <3>. QED  BY <3>2 DEF Caller!CallNext
  <2>3. CASE currentState \notin RunsWaveGen
    BY <1>2, <2>1, <2>3 DEF RunNormal
  <2>. QED  BY <2>2, <2>3
<1>3. CASE ExitState
  <2>1. /\ body.wave = WaveOf(currentState) /\ waveIn' = waveIn /\ currentState' = currentState
        /\ body'.wave = IF walkOf(currentState) = "none" THEN body.wave ELSE "SWING_ALL"
        /\ pc = "act" /\ pc' = "enter"
    BY <1>3, ExitStops DEF ExitState, TypeOK, StateInv, WaveMatchesState
  <2>2. CASE walkOf(currentState) = "none"
    BY <2>1, <2>2, WalksOf DEF TypeOK
  <2>3. CASE walkOf(currentState) # "none"
    <3>1. body.wave = "WAVE_ALL"
      BY <2>1, <2>3, WalksOf DEF TypeOK
    <3>2. Caller!GoStill("SWING_ALL")
      BY <2>1, <2>3, <3>1 DEF Caller!GoStill
    <3>. QED  BY <3>2 DEF Caller!CallNext
  <2>. QED  BY <2>2, <2>3
<1>4. CASE EnterState
  <2>1. /\ body'.wave = WaveOf(nextState) /\ currentState' = nextState
        /\ pc = "enter" /\ pc' = "send" /\ nextState \in StateName
    BY <1>4, StateStep DEF EnterState, TypeOK, StateInv, WaveMatchesState
  <2>2. CASE nextState \in Stepping
    <3>1. waveIn = "STANCE_ALL" /\ body.wave = "STANCE_ALL"
      <4>1. currentState \in {"FIXEDSTAND", "FREESTAND"} /\ waveIn = WaveOf(currentState)
            /\ body.wave = "STANCE_ALL"
        BY <2>1, <2>2 DEF StateInv, RampDuringChange, Predecessors, LastWave
      <4>. QED  BY <4>1, StandWave
    <3>2. waveIn' = waveIn
      BY <1>4, <3>1 DEF EnterState, RunsWaveGen, enter
    <3>3. walkOf(nextState) # "none" /\ body'.wave = "WAVE_ALL"
      <4>1. walkOf(nextState) # "none"
        BY <2>2 DEF walkOf
      <4>. QED  BY <2>1, <4>1, WalksOf
    <3>4. Caller!GoTrotting \/ Caller!GoTransition
      BY <2>1, <3>1, <3>2, <3>3, WalksOf DEF Caller!GoTrotting, Caller!GoTransition
    <3>. QED  BY <3>4 DEF Caller!CallNext
  <2>3. CASE nextState \notin Stepping
    <3>1. nextState \notin RunsWaveGen
      BY <2>3 DEF RunsWaveGen, Stepping, Walking
    <3>2. walkOf(nextState) = "none" /\ waveIn' = waveIn
      BY <1>4, <2>3, <3>1 DEF walkOf, EnterState
    <3>3. body'.wave \in {"STANCE_ALL", "SWING_ALL"}
      BY <2>1, <3>2, WalksOf DEF WaveStatus
    <3>4. Caller!GoStill(body'.wave) \/ UNCHANGED Caller!calls
      BY <2>1, <3>1, <3>2 DEF Caller!GoStill
    <3>. QED  BY <3>3, <3>4 DEF Caller!CallNext
  <2>. QED  BY <2>2, <2>3
<1>5. CASE SendRecv \/ GetUserCmd \/ GetUserValue \/ Stop
  BY <1>5 DEF SendRecv, GetUserCmd, GetUserValue, Stop
<1>6. CASE UNCHANGED control
  BY <1>6 DEF control
<1>. QED
  BY <1>1, <1>2, <1>3, <1>4, <1>5, <1>6 DEF Next, vars, ControlThread, KeyboardThread, StoreCmd,
     TestCmd, WriteValue, ReadKey, Tilt, Interrupt

\* To the wave generator the FSM is the caller the generator's own theorems are about: they
\* hold of the two together (FSM::run, State_GaitTransition::run).
THEOREM CallsAsExpected == Spec => CallsWaveGenerator
  BY CallsStart, CallsStep, TypeCorrect, StateInvariant, PTL DEF Spec, CallsWaveGenerator,
     Caller!CallSpec

-----------------------------------------------------------------------------
(* A fall reaches the motors.  FallInv is the inductive invariant: it follows *)
(* the protective command through the pipeline of the FSM tick by tick.       *)

LEMMA FallStart == FallInit => FallInv
  BY DEF FallInit, Init, FallInv, TripRange, PanelHoldsTrip, TripIsRead, Pipeline,
         Limp, Phases, FallBound

\* Entering PASSIVE, and running it, leaves the limp command.
LEMMA PassiveIsLimp ==
  ASSUME NEW b \in Body, NEW junk
  PROVE  /\ run("PASSIVE", enter("PASSIVE", b), junk).cmd = LimpCmd
         /\ run("PASSIVE", b, junk) = b
         /\ exit("PASSIVE", b) = b
  BY DEF run, enter, exit, Passive_enter, Body

LEMMA FallStep == TypeOK /\ FallInv /\ [FallNext]_<<vars, trip>> => FallInv'
<1> SUFFICES ASSUME TypeOK, FallInv, [FallNext]_<<vars, trip>> PROVE FallInv'
  OBVIOUS
<1> USE DEF FallInv, TripRange, PanelHoldsTrip, TripIsRead, Pipeline, Heading,
            Arrived, Limp, Phases, FallBound, trip_step, Checked, Begun, Stored
<1>1. CASE SendRecv /\ trip_step
  BY <1>1 DEF SendRecv, panel, keyboard, TypeOK
<1>2. CASE GetUserCmd /\ trip_step
  BY <1>2 DEF GetUserCmd, panel, keyboard, TypeOK
<1>3. CASE GetUserValue /\ trip_step
  BY <1>3 DEF GetUserValue, panel, keyboard, TypeOK
<1>4. CASE CheckSafty /\ trip_step
  BY <1>4 DEF CheckSafty, keyboard, TypeOK
<1>5. CASE RunNormal /\ trip_step
  <2>1. trip' = trip /\ userCmd' = userCmd /\ lowState' = lowState /\ sent' = sent
        /\ currentState' = currentState /\ pc = "act" /\ pc' = "send" /\ mode = "NORMAL"
    BY <1>5 DEF RunNormal, panel, keyboard
  <2>2. currentState = "PASSIVE" => body' = body
    BY <1>5, PassiveIsLimp DEF RunNormal, TypeOK
  <2>3. lowState.userCmd = "L2_B" => Heading'
    BY <1>5, PassiveCommandWins DEF RunNormal, TypeOK
  <2>4. lowState.userCmd = "L2_B" /\ currentState = "PASSIVE" => mode' = "NORMAL"
    BY <1>5, PassiveCommandWins DEF RunNormal, TypeOK
  <2>. QED  BY <2>1, <2>2, <2>3, <2>4
<1>6. CASE ExitState /\ trip_step
  <2>1. currentState = "PASSIVE" => body' = body
    BY <1>6, PassiveIsLimp DEF ExitState, TypeOK
  <2>. QED  BY <1>6, <2>1 DEF ExitState, keyboard
<1>7. CASE EnterState /\ trip_step
  <2>1. nextState = "PASSIVE" => body'.cmd = LimpCmd
    BY <1>7, PassiveIsLimp DEF EnterState, TypeOK
  <2>. QED  BY <1>7, <2>1 DEF EnterState, keyboard
<1>8. CASE Stop /\ trip_step
  BY <1>8 DEF Stop, panel, keyboard
<1>9. CASE StoreCmd /\ trip_step
  BY <1>9 DEF StoreCmd, control
<1>10. CASE TestCmd /\ trip_step
  BY <1>10 DEF TestCmd, control, panel
<1>11. CASE WriteValue /\ trip_step
  BY <1>11 DEF WriteValue, control
<1>12. ASSUME NEW k \in Keys, ReadKey(k), trip_step PROVE FallInv'
  BY <1>12 DEF ReadKey, control
<1>13. CASE Tilt /\ trip_step
  BY <1>13 DEF Tilt, control, panel, keyboard
<1>14. CASE Interrupt /\ trip_step
  BY <1>14 DEF Interrupt, control, panel, keyboard
<1>15. CASE UNCHANGED <<vars, trip>>
  BY <1>15 DEF vars, control, panel
<1>. QED
  BY <1>1, <1>2, <1>3, <1>4, <1>5, <1>6, <1>7, <1>8, <1>9, <1>10, <1>11, <1>12,
     <1>13, <1>14, <1>15
  DEF FallNext, Next, ControlThread, KeyboardThread

\* The typing invariant holds with the history variable too.
LEMMA FallType == FallSpec => []TypeOK
<1>1. FallInit => TypeOK
  BY TypeInit DEF FallInit
<1>2. TypeOK /\ [FallNext]_<<vars, trip>> => TypeOK'
  BY TypeStep DEF FallNext, vars
<1>. QED  BY <1>1, <1>2, PTL DEF FallSpec

\* Where the protective command of checkSafty has got to, tick by tick.
THEOREM FallInvariant == FallSpec => []FallInv
<1>. QED  BY FallStart, FallStep, FallType, PTL DEF FallSpec

\* The protective command of checkSafty is on the wire by the send of the fourth
\* tick after the one that detects the fall, unless a key is stored in between.
THEOREM FallProtection == FallSpec => []FallReachesMotors
<1>1. FallInv => FallReachesMotors
  BY DEF FallInv, Pipeline, Arrived, FallReachesMotors, FallBound
<1>. QED  BY <1>1, FallInvariant, PTL

-----------------------------------------------------------------------------
(* The control FSM implements the mode supervisor: every step of the two      *)
(* threads is an order, a change that obeys a recent order, or a stutter.     *)

LEMMA OrderStart == OrderInit => OrderInv
  BY DEF OrderInit, Init, OrderInv, CopyIsRecent, DecisionIsRecent, PanelIsRecent,
         DecidedFirst

\* All steps but EnterState keep the state they decided in and add to "given".
LEMMA OrderStep == TypeOK /\ OrderInv /\ [OrderNext]_<<vars, given>> => OrderInv'
<1> SUFFICES ASSUME TypeOK, OrderInv, [OrderNext]_<<vars, given>> PROVE OrderInv'
  OBVIOUS
<1> DEFINE Kept == given' = IF pc = "enter" /\ pc' = "send" THEN {userCmd}
                            ELSE given \cup {userCmd'}
<1> USE DEF OrderInv, CopyIsRecent, DecisionIsRecent, PanelIsRecent, DecidedFirst
<1>1. CASE SendRecv /\ Kept
  BY <1>1 DEF SendRecv, panel, keyboard
<1>2. CASE GetUserCmd /\ Kept
  BY <1>2 DEF GetUserCmd, panel, keyboard, TypeOK
<1>3. CASE GetUserValue /\ Kept
  BY <1>3 DEF GetUserValue, panel, keyboard, TypeOK
<1>4. CASE CheckSafty /\ Kept
  BY <1>4 DEF CheckSafty, keyboard
<1>5. CASE RunNormal /\ Kept
  BY <1>5 DEF RunNormal, panel, keyboard
<1>6. CASE ExitState /\ Kept
  BY <1>6 DEF ExitState, keyboard
<1>7. CASE EnterState /\ Kept
  BY <1>7 DEF EnterState, keyboard
<1>8. CASE Stop /\ Kept
  BY <1>8 DEF Stop, panel, keyboard
<1>9. CASE StoreCmd /\ Kept
  BY <1>9 DEF StoreCmd, control
<1>10. CASE TestCmd /\ Kept
  BY <1>10 DEF TestCmd, control, panel
<1>11. CASE WriteValue /\ Kept
  BY <1>11 DEF WriteValue, control
<1>12. ASSUME NEW k \in Keys, ReadKey(k), Kept PROVE OrderInv'
  BY <1>12 DEF ReadKey, control
<1>13. CASE Tilt /\ Kept
  BY <1>13 DEF Tilt, control, panel, keyboard
<1>14. CASE Interrupt /\ Kept
  BY <1>14 DEF Interrupt, control, panel, keyboard
<1>15. CASE UNCHANGED <<vars, given>>
  BY <1>15 DEF vars, control, panel
<1>. QED
  BY <1>1, <1>2, <1>3, <1>4, <1>5, <1>6, <1>7, <1>8, <1>9, <1>10, <1>11, <1>12,
     <1>13, <1>14, <1>15
  DEF OrderNext, Next, ControlThread, KeyboardThread

LEMMA OrderType == OrderSpec => []TypeOK
<1>1. OrderInit => TypeOK
  BY TypeInit DEF OrderInit
<1>2. TypeOK /\ [OrderNext]_<<vars, given>> => TypeOK'
  BY TypeStep DEF OrderNext, vars
<1>. QED  BY <1>1, <1>2, PTL DEF OrderSpec

-----------------------------------------------------------------------------

\* Only EnterState changes the state, and then from the decision pending.
LEMMA OnlyEnterChanges ==
  ASSUME Next, ~(pc = "enter" /\ pc' = "send")
  PROVE  currentState' = currentState
  BY DEF Next, ControlThread, KeyboardThread, SendRecv, GetUserCmd, GetUserValue,
         CheckSafty, RunNormal, ExitState, EnterState, Stop, StoreCmd, TestCmd,
         WriteValue, ReadKey, Tilt, Interrupt, control

LEMMA EnterChanges ==
  ASSUME Next, pc = "enter", pc' = "send"
  PROVE  currentState' = nextState /\ userCmd' = userCmd
  BY DEF Next, ControlThread, KeyboardThread, SendRecv, GetUserCmd, GetUserValue,
         CheckSafty, RunNormal, ExitState, EnterState, Stop, StoreCmd, TestCmd,
         WriteValue, ReadKey, Tilt, Interrupt, control

LEMMA SupervisedStart == OrderInit => Supervisor!SupervisorInit
  BY DEF OrderInit, Init, Supervisor!SupervisorInit

LEMMA SupervisedStep ==
  TypeOK /\ TypeOK' /\ OrderInv /\ [OrderNext]_<<vars, given>>
    => [Supervisor!SupervisorNext]_<<currentState, userCmd, given>>
<1> SUFFICES ASSUME TypeOK, TypeOK', OrderInv, OrderNext
             PROVE  Supervisor!SupervisorNext
  BY DEF vars, control, panel
<1>1. CASE pc = "enter" /\ pc' = "send"
  <2>1. PICK c \in given : nextState = checkChange(currentState, c)
                           /\ nextState # currentState
    BY <1>1 DEF OrderInv, DecisionIsRecent, DecidedFirst
  <2>2. Supervisor!Change(c)
    BY <1>1, <2>1, EnterChanges DEF OrderNext, Supervisor!Change
  <2>. QED  BY <2>2 DEF Supervisor!SupervisorNext
<1>2. CASE ~(pc = "enter" /\ pc' = "send")
  <2>1. Supervisor!Order(userCmd')
    BY <1>2, OnlyEnterChanges DEF OrderNext, Supervisor!Order
  <2>2. userCmd' \in UserCommand
    BY DEF TypeOK
  <2>. QED  BY <2>1, <2>2 DEF Supervisor!SupervisorNext
<1>. QED  BY <1>1, <1>2

\* The copy of the panel and the decision taken on it date from after the last change.
THEOREM OrderInvariant == OrderSpec => []OrderInv
<1>. QED  BY OrderStart, OrderStep, OrderType, PTL DEF OrderSpec

\* The process of two threads, ticks and copies implements the supervisor.
THEOREM ImplementsSupervisor == OrderSpec => ObeysSupervisor
<1>. QED
  BY OrderInvariant, OrderType, SupervisedStart, SupervisedStep, PTL
  DEF OrderSpec, ObeysSupervisor, Supervisor!SupervisorSpec

-----------------------------------------------------------------------------
(* No stick moves a state it was not typed for, but by the race of a          *)
(* keystroke with enter().                                                    *)

\* Every state that the sticks move zeroes them when it is entered.
LEMMA MovedStatesZero == MovedBySticks \subseteq ZeroesOnEnter
  BY DEF MovedBySticks, ZeroesOnEnter, Walking

LEMMA StickStart == StickInit => StickInv
  BY DEF StickInit, Init, StickInv, MovedBySticks

\* A new state begins with a clean panel.
LEMMA EntryIsClean ==
  ASSUME TypeOK, Next, Entered
  PROVE  StickInv'
<1>1. EnterState
  BY DEF Entered, Next, ControlThread, KeyboardThread, SendRecv, GetUserCmd,
         GetUserValue, CheckSafty, RunNormal, ExitState, Stop, StoreCmd, TestCmd,
         WriteValue, ReadKey, Tilt, Interrupt, control
<1>2. currentState' \in MovedBySticks => userValue' = 0
  BY <1>1, MovedStatesZero DEF EnterState
<1>. QED  BY <1>2 DEF Entered, StickInv

\* Only EnterState changes the state, and only GetUserValue begins a check.
LEMMA StateAndCheck ==
  ASSUME Next
  PROVE  /\ ~(pc = "enter" /\ pc' = "send") => currentState' = currentState
         /\ pc' \in {"check", "act"}
              => pc \in {"check", "act"} \/ (pc = "value" /\ pc' = "check")
  BY DEF Next, ControlThread, KeyboardThread, SendRecv, GetUserCmd, GetUserValue,
         CheckSafty, RunNormal, ExitState, EnterState, Stop, StoreCmd, TestCmd,
         WriteValue, ReadKey, Tilt, Interrupt, control

\* The keyboard moves while the control thread rests.
LEMMA KeysApart ==
  ASSUME Next, kpc' # kpc
  PROVE  pc' = pc
  BY DEF Next, ControlThread, KeyboardThread, SendRecv, GetUserCmd, GetUserValue,
         CheckSafty, RunNormal, ExitState, EnterState, Stop, StoreCmd, TestCmd,
         WriteValue, ReadKey, Tilt, Interrupt, control, keyboard

\* Within a state the history only ever forgets, copies, or records a loss.
LEMMA StateKeepsClean ==
  ASSUME StickInv, Next, currentState' = currentState,
         Copied \/ Spaced \/ TakenUp \/ PutBack \/ NoStick
  PROVE  StickInv'
<1> SUFFICES ASSUME currentState \in MovedBySticks
             PROVE  /\ userOld' => lost'
                    /\ pc' \in {"check", "act"} => (lowOld' => lost')
  BY DEF StickInv
<1> DEFINE Late  == pc \in {"check", "act"}
           Late1 == pc' \in {"check", "act"}
<1>1. (userOld => lost) /\ (Late => (lowOld => lost))
  BY DEF StickInv
<1>2. Late1 => Late \/ (pc = "value" /\ pc' = "check")
  BY StateAndCheck
<1>3. kpc' # kpc => (Late1 <=> Late)
  BY KeysApart
<1>4. CASE Copied
  <2>1. lowOld' = userOld /\ userOld' = userOld /\ lost' = lost
    BY <1>4 DEF Copied
  <2>. QED  BY <2>1, <1>1
<1>5. CASE Spaced
  <2>1. ~userOld' /\ lowOld' = lowOld /\ lost' = lost
    BY <1>5 DEF Spaced
  <2>2. Late1 <=> Late
    BY <1>5, <1>3 DEF Spaced
  <2>. QED  BY <2>1, <2>2, <1>1
<1>6. CASE TakenUp
  <2>1. userOld' = userOld /\ lowOld' = lowOld /\ lost' = lost /\ kpc' # kpc
    BY <1>6 DEF TakenUp
  <2>. QED  BY <2>1, <1>3, <1>1
<1>7. CASE PutBack
  <2>1. kpc' # kpc
    BY <1>7 DEF PutBack
  <2>2. userOld' = stickOld /\ lowOld' = lowOld /\ lost' = (lost \/ stickOld)
    BY <1>7 DEF PutBack
  <2>. QED  BY <2>1, <2>2, <1>3, <1>1
<1>8. CASE NoStick
  <2>1. userOld' = userOld /\ lowOld' = lowOld /\ lost' = lost
    BY <1>8 DEF NoStick, audit
  <2>2. Late1 => Late
    BY <1>8, <1>2 DEF NoStick
  <2>. QED  BY <2>1, <2>2, <1>1
<1>. QED  BY <1>4, <1>5, <1>6, <1>7, <1>8

LEMMA StickStep == TypeOK /\ StickInv /\ [StickNext]_<<vars, audit>> => StickInv'
<1> SUFFICES ASSUME TypeOK, StickInv, [StickNext]_<<vars, audit>> PROVE StickInv'
  OBVIOUS
<1>1. CASE StickNext /\ Entered
  BY <1>1, EntryIsClean DEF StickNext, stick_step
<1>2. CASE StickNext /\ ~Entered
  <2>1. Copied \/ Spaced \/ TakenUp \/ PutBack \/ NoStick
    BY <1>2 DEF StickNext, stick_step
  <2>2. ~(pc = "enter" /\ pc' = "send")
    BY <2>1, <1>2, KeysApart DEF StickNext, stick_step, Copied, Spaced, TakenUp, PutBack, NoStick
  <2>. QED  BY <1>2, <2>1, <2>2, StateAndCheck, StateKeepsClean DEF StickNext
<1>3. CASE UNCHANGED <<vars, audit>>
  BY <1>3 DEF vars, control, panel, audit, StickInv
<1>. QED  BY <1>1, <1>2, <1>3

LEMMA StickType == StickSpec => []TypeOK
<1>1. StickInit => TypeOK
  BY TypeInit DEF StickInit
<1>2. TypeOK /\ [StickNext]_<<vars, audit>> => TypeOK'
  BY TypeStep DEF StickNext, vars
<1>. QED  BY <1>1, <1>2, PTL DEF StickSpec

\* In every state that the sticks move, an old deflection on the panel or in the
\* tick's copy has come back over the zeroing of enter().
THEOREM StickInvariant == StickSpec => []StickInv
<1>. QED  BY StickStart, StickStep, StickType, PTL DEF StickSpec

\* A deflection typed for an earlier state moves a later one only by the race of
\* changeValue with enter().
THEOREM StickOnlyByRace == StickSpec => []InheritedStickOnlyByRace
<1>1. StickInv => InheritedStickOnlyByRace
  BY DEF StickInv, InheritedStickOnlyByRace
<1>. QED  BY <1>1, StickInvariant, PTL
==============================================================================
