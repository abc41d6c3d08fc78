------------------------------ MODULE ControlFSM ------------------------------
(***************************************************************************)
(* The junior_ctrl process: the 500 Hz control thread (main's loop around  *)
(* FSM::run) and the keyboard thread (KeyBoard::run), which share the      *)
(* command panel - userCmd and userValue - without a lock.                 *)
(*                                                                         *)
(* One tick of the control thread is cut at every access to the panel:     *)
(*    "send"   the loop test of main, sendCmd, recvState                   *)
(*    "cmd"    lowState->userCmd   = getUserCmd()                          *)
(*    "value"  lowState->userValue = getUserValue()                        *)
(*    "check"  runWaveGen, the estimator, checkSafty and setPassive        *)
(*    "act"    the NORMAL branch of FSM::run, or CHANGE up to exit()       *)
(*    "enter"  the rest of the CHANGE branch                               *)
(* Everything else a tick does touches only what this thread owns.         *)
(* The keyboard thread is cut the same way: "select", "store", "test",     *)
(* "write".                                                                *)
(***************************************************************************)
EXTENDS FSMStates, Integers

CONSTANTS
  Keys,       \* the keys the operator may press, a subset of Key
  StickMax    \* steps from 0 to the saturated stick (20 of 0.05 in KeyBoard)

\* "up" stands for w d i l, "down" for s a k j, "gait" for t p y g h u o, and
\* "other" for any other byte and for the end of the input.
Key == {"1", "2", "3", "4", "5", "0", "9", "8", "gait", "space", "up", "down", "other"}

ASSUME KeysAssumption  == Keys \subseteq Key
ASSUME StickAssumption == StickMax \in Nat \ {0}

VARIABLES
  pc,            \* where the control thread is in its tick
  currentState,  \* FSM::_currentState
  nextState,     \* FSM::_nextState
  mode,          \* FSM::_mode
  body,          \* lowCmd, _waveStatus and the ramp: see FSMStates
  lowState,      \* this tick's copy of the IMU attitude and of the panel
  sent,          \* the motor commands last published
  waveIn,        \* the status last given to WaveGenerator::calcContactPhase
  userCmd,       \* CmdPanel::userCmd      (shared)
  userValue,     \* CmdPanel::userValue    (shared), one axis of it
  kpc,           \* where the keyboard thread is
  key,           \* KeyBoard::_c
  stick,         \* the value changeValue has read and not yet written back
  fallen,        \* the body is tilted by more than 60 degrees
  running        \* main's flag, cleared by SIGINT

control  == <<pc, currentState, nextState, mode, body, lowState, sent, waveIn>>
panel    == <<userCmd, userValue>>
keyboard == <<kpc, key, stick>>
vars     == <<control, panel, keyboard, fallen, running>>

Stick == (-StickMax)..StickMax

TypeOK ==
  /\ pc \in {"send", "cmd", "value", "check", "act", "enter", "stopped"}
  /\ currentState \in StateName
  /\ nextState \in StateName
  /\ mode \in FSMMode
  /\ body \in Body
  /\ lowState \in [userCmd : UserCommand, userValue : Stick, fallen : BOOLEAN]
  /\ sent \in MotorCmd
  /\ waveIn \in WaveStatus
  /\ userCmd \in UserCommand
  /\ userValue \in Stick
  /\ kpc \in {"select", "store", "test", "write"}
  /\ key \in Keys \cup {"none"}
  /\ stick \in Stick
  /\ fallen \in BOOLEAN
  /\ running \in BOOLEAN

\* The FSM constructor has entered PASSIVE and the threads are about to run.
\* lowState and sent have no value yet; the first tick writes both before use.
Init ==
  /\ pc = "send"
  /\ currentState = "PASSIVE"
  /\ nextState = "PASSIVE"
  /\ mode = "NORMAL"
  /\ body = [cmd |-> LimpCmd, wave |-> "SWING_ALL", percent |-> 0]
  /\ lowState = [userCmd |-> "NONE", userValue |-> 0, fallen |-> FALSE]
  /\ sent = LimpCmd
  /\ waveIn = "SWING_ALL"
  /\ userCmd = "NONE"
  /\ userValue = 0
  /\ kpc = "select"
  /\ key = "none"
  /\ stick = 0
  /\ fallen = FALSE
  /\ running = TRUE

-----------------------------------------------------------------------------
(* The control thread *)

SendRecv ==
  /\ pc = "send" /\ running
  /\ sent' = body.cmd
  /\ lowState' = [lowState EXCEPT !.fallen = fallen]
  /\ pc' = "cmd"
  /\ UNCHANGED <<currentState, nextState, mode, body, waveIn, panel, keyboard,
                 fallen, running>>

\* Mistake: a panel without a command does not overwrite the last one.
GetUserCmd_KeepsLast ==
  /\ pc = "cmd"
  /\ lowState' = IF userCmd = "NONE" THEN lowState
                 ELSE [lowState EXCEPT !.userCmd = userCmd]
  /\ pc' = "value"
  /\ UNCHANGED <<currentState, nextState, mode, body, sent, waveIn, panel,
                 keyboard, fallen, running>>

GetUserCmd ==
  /\ pc = "cmd"
  /\ lowState' = [lowState EXCEPT !.userCmd = userCmd]
  /\ pc' = "value"
  /\ UNCHANGED <<currentState, nextState, mode, body, sent, waveIn, panel,
                 keyboard, fallen, running>>

GetUserValue ==
  /\ pc = "value"
  /\ lowState' = [lowState EXCEPT !.userValue = userValue]
  /\ pc' = "check"
  /\ UNCHANGED <<currentState, nextState, mode, body, sent, waveIn, panel,
                 keyboard, fallen, running>>

\* Mistakes: the fall check has no effect; it has none during a change of state.
CheckSafty_Ignored ==
  /\ pc = "check"
  /\ waveIn' = body.wave
  /\ pc' = "act"
  /\ UNCHANGED <<currentState, nextState, mode, body, lowState, sent, panel,
                 keyboard, fallen, running>>
CheckSafty_OnlyNormal ==
  /\ pc = "check"
  /\ waveIn' = body.wave
  /\ userCmd' = IF lowState.fallen /\ mode = "NORMAL" THEN "L2_B" ELSE userCmd
  /\ pc' = "act"
  /\ UNCHANGED <<currentState, nextState, mode, body, lowState, sent, userValue,
                 keyboard, fallen, running>>

CheckSafty ==
  /\ pc = "check"
  /\ waveIn' = body.wave
  /\ userCmd' = IF lowState.fallen THEN "L2_B" ELSE userCmd
  /\ pc' = "act"
  /\ UNCHANGED <<currentState, nextState, mode, body, lowState, sent, userValue,
                 keyboard, fallen, running>>

\* _currentState->run(), then checkChange() and, on a different name, getNextState.
RunNormal ==
  /\ pc = "act" /\ mode = "NORMAL"
  /\ \E junk \in Uninitialised : body' = run(currentState, body, junk)
  /\ waveIn' = IF currentState \in RunsWaveGen THEN body.wave ELSE waveIn
  /\ LET next == checkChange(currentState, lowState.userCmd)
     IN  IF next # currentState
         THEN mode' = "CHANGE" /\ nextState' = next
         ELSE UNCHANGED <<mode, nextState>>
  /\ pc' = "send"
  /\ UNCHANGED <<currentState, lowState, sent, panel, keyboard, fallen, running>>

ExitState ==
  /\ pc = "act" /\ mode = "CHANGE"
  /\ body' = exit(currentState, body)
  /\ userValue' = IF currentState \in ZeroesOnExit THEN 0 ELSE userValue
  /\ pc' = "enter"
  /\ UNCHANGED <<currentState, nextState, mode, lowState, sent, waveIn, userCmd,
                 keyboard, fallen, running>>

\* enter() of the next state, then its first run() - on this tick's lowState.
EnterState ==
  /\ pc = "enter"
  /\ currentState' = nextState
  /\ mode' = "NORMAL"
  /\ LET entered == enter(nextState, body)
     IN  /\ \E junk \in Uninitialised : body' = run(nextState, entered, junk)
         /\ waveIn' = IF nextState \in RunsWaveGen THEN entered.wave ELSE waveIn
  /\ userValue' = IF nextState \in ZeroesOnEnter THEN 0 ELSE userValue
  /\ pc' = "send"
  /\ UNCHANGED <<nextState, lowState, sent, userCmd, keyboard, fallen, running>>

\* main leaves its loop: no further command is sent.
Stop ==
  /\ pc = "send" /\ ~running
  /\ pc' = "stopped"
  /\ UNCHANGED <<currentState, nextState, mode, body, lowState, sent, waveIn,
                 panel, keyboard, fallen, running>>

ControlThread == \/ SendRecv \/ GetUserCmd \/ GetUserValue \/ CheckSafty
                 \/ RunNormal \/ ExitState \/ EnterState \/ Stop

-----------------------------------------------------------------------------
(* The keyboard thread *)

checkCmd(k) ==
  CASE k = "1" -> "L2_B"
    [] k = "2" -> "L2_A"
    [] k = "3" -> "L2_X"
    [] k = "4" -> "START"
    [] k = "5" -> "L2_Y"
    [] k = "0" -> "L1_X"
    [] k = "9" -> "L1_A"
    [] k = "8" -> "L1_Y"
    [] OTHER   -> "NONE"

changeValue(k, v) ==
  CASE k = "up"   -> IF v < StickMax THEN v + 1 ELSE StickMax
    [] k = "down" -> IF v > -StickMax THEN v - 1 ELSE -StickMax

\* select() and read() return a byte; checkCmd zeroes the sticks on a space.
ReadKey(k) ==
  /\ kpc = "select" /\ pc # "stopped"
  /\ key' = k
  /\ userValue' = IF k = "space" THEN 0 ELSE userValue
  /\ kpc' = "store"
  /\ UNCHANGED <<control, userCmd, stick, fallen, running>>

StoreCmd ==
  /\ kpc = "store"
  /\ userCmd' = checkCmd(key)
  /\ kpc' = "test"
  /\ UNCHANGED <<control, userValue, key, stick, fallen, running>>

\* if(userCmd == NONE) changeValue(): a compiler may test the value just stored
\* or read the shared one again.  changeValue reads userValue here.
TestCmd ==
  /\ kpc = "test"
  /\ \E seen \in {checkCmd(key), userCmd} :
       IF seen = "NONE" /\ key \in {"up", "down"}
       THEN /\ stick' = changeValue(key, userValue)
            /\ kpc' = "write"
            /\ UNCHANGED key
       ELSE /\ key' = "none"
            /\ kpc' = "select"
            /\ UNCHANGED stick
  /\ UNCHANGED <<control, panel, fallen, running>>

WriteValue ==
  /\ kpc = "write"
  /\ userValue' = stick
  /\ stick' = 0
  /\ key' = "none"
  /\ kpc' = "select"
  /\ UNCHANGED <<control, userCmd, fallen, running>>

KeyboardThread == StoreCmd \/ TestCmd \/ WriteValue

-----------------------------------------------------------------------------
(* The world: the body falls or is set upright, and SIGINT arrives.        *)

Tilt      == fallen' = ~fallen /\ UNCHANGED <<control, panel, keyboard, running>>
Interrupt == running /\ running' = FALSE /\ UNCHANGED <<control, panel, keyboard, fallen>>

Next == \/ ControlThread
        \/ KeyboardThread
        \/ \E k \in Keys : ReadKey(k)
        \/ Tilt
        \/ Interrupt

Spec == Init /\ [][Next]_vars

\* The control thread runs every 2 ms until it stops, and a keyboard thread
\* that has a byte finishes with it.  Nobody has to press a key.
FairSpec == Spec /\ WF_vars(ControlThread) /\ WF_vars(KeyboardThread)
-----------------------------------------------------------------------------
(* Safety *)

\* The command a state stands for.
Fits(cmd, s) ==
  CASE s = "PASSIVE"     -> cmd = LimpCmd
    [] s = "FIXEDSTAND"  -> cmd = [StanceCmd EXCEPT !.q = "ramp"]
    [] s = "FREESTAND"   -> cmd = [StanceCmd EXCEPT !.q = "posture"]
    [] s \in Walking     -> cmd.gain = "walk" /\ cmd.dq = "gait"
    [] s = "BALANCETEST" -> cmd.gain = "stable" /\ cmd.dq = "zero"
    [] s = "SWINGTEST"   -> cmd.gain = "leg0" /\ cmd.dq = "zero"
    [] s = "STEPTEST"    -> cmd.gain = "zero" /\ cmd.tau = "control"

Standing == {"FIXEDSTAND", "FREESTAND", "BALANCETEST"}
Stepping == Walking \cup {"STEPTEST"}
WaveOf(s) == CASE s \in Standing -> "STANCE_ALL"
               [] s \in Stepping -> "WAVE_ALL"
               [] OTHER          -> "SWING_ALL"

\* The motor command is the one its state stands for, whatever state ran before:
\* PASSIVE is limp, the two stands hold a position with no feed-forward torque
\* or velocity, BALANCETEST inherits no leg velocity.  enter() and run() write
\* only some fields (State_*.cpp); the others come from the predecessor.
CommandMatchesState == Fits(body.cmd, currentState)

\* Except in the middle of a change of state, the wave status fits the state: legs
\* in the air when passive or swinging one, all down when standing, stepping when
\* walking.  It is set in enter, in run or in exit, depending on the state.
WaveMatchesState == pc # "enter" => body.wave = WaveOf(currentState)

\* The stand-up ramp starts from the measured posture each time FIXEDSTAND is
\* entered: a ramp left half-way would make the joints jump by its remainder.
RampRestarts == currentState # "FIXEDSTAND" => body.percent = 0

\* calcContactPhase is never asked to go straight from all legs in the air to
\* stepping; it has no case for that switch, and relies on a stand in between.
NeverSwingToWave ==
  [][~(waveIn = "SWING_ALL" /\ waveIn' = "WAVE_ALL")]_vars

\* To the wave generator the control thread is the caller that WaveGenerator is built
\* on, with both of its calls in a tick of TRANSITION.
walkOf(s) == CASE s \in RunsWaveGen            -> "transition"
               [] s \in Stepping \ RunsWaveGen -> "trotting"
               [] OTHER                       -> "none"

Caller == INSTANCE WaveCaller WITH
  status     <- waveIn,
  waveStatus <- body.wave,
  walk       <- IF pc = "enter" THEN "none" ELSE walkOf(currentState),
  due        <- pc = "act" /\ currentState \in RunsWaveGen

CallsWaveGenerator == Caller!CallSpec

\* Why these hold: which states lead to the ones that inherit something, the ramp
\* between exit() and enter(), and the status of the tick before.
Predecessors ==
  mode = "CHANGE" =>
    /\ nextState = "BALANCETEST" => currentState = "FIXEDSTAND"
    /\ nextState \in Stepping => currentState \in {"FIXEDSTAND", "FREESTAND"}
RampDuringChange == pc = "enter" => mode = "CHANGE" /\ body.percent = 0
LastWave ==
  /\ pc \in {"act", "enter"} => waveIn = WaveOf(currentState)
  /\ currentState \in Stepping => waveIn # "SWING_ALL"
  /\ pc = "enter" /\ nextState \in Stepping => body.wave = "STANCE_ALL"

StateInv == /\ CommandMatchesState /\ WaveMatchesState /\ RampRestarts
            /\ Predecessors /\ RampDuringChange /\ LastWave

-----------------------------------------------------------------------------
(* Liveness, under FairSpec.  A stopped process promises nothing. *)

Stopped == pc = "stopped"

\* A body that stays down ends up limp and stays limp once the operator stops
\* typing: checkSafty repeats setPassive in every tick.  (While keys keep
\* coming each of them may overwrite the protective command.)
FallenSettlesInPassive ==
  (<>[]fallen /\ <>[](kpc = "select")) => <>[](currentState = "PASSIVE" \/ Stopped)

\* The two commands every state but PASSIVE answers: left on the panel, passive
\* leads to PASSIVE and fixed stand leads to FIXEDSTAND, from anywhere.
HeldCommandWins ==
  /\ <>[](userCmd = "L2_B") => <>[](currentState = "PASSIVE" \/ Stopped)
  /\ <>[](userCmd = "L2_A") => <>[](currentState = "FIXEDSTAND" \/ Stopped)

\* userCmd is never cleared after use, so a command is seen by every later tick
\* too: it must not make the machine cycle.
HeldCommandSettles ==
  (\E c \in UserCommand : <>[](userCmd = c)) =>
     (\E s \in StateName : <>[](currentState = s \/ Stopped))
=============================================================================
