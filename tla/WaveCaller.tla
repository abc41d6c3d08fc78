------------------------------ MODULE WaveCaller ------------------------------
(***************************************************************************)
(* What the control FSM does to the wave generator, for the generator to   *)
(* build on (WaveGenerator, which composes with this) and for the FSM to   *)
(* keep to (CallsWaveGenerator in ControlFSM).  The FSM runs the generator *)
(* once in every tick, and TRANSITION and MOVE_GAIT, which retune it,      *)
(* once more in theirs; from SWING_ALL the wave status never goes straight *)
(* to WAVE_ALL.  "trotting" stands for every state that walks without      *)
(* retuning, "transition" for the two that retune.                         *)
(***************************************************************************)
VARIABLES
  status,       \* the status last handed in
  waveStatus,   \* CtrlComponents::_waveStatus
  walk,         \* the state that is walking, if any
  due           \* TRANSITION has still to make its call of this tick

calls == <<status, waveStatus, walk, due>>

WaveStatus == {"STANCE_ALL", "SWING_ALL", "WAVE_ALL"}

CallInit ==
  /\ status = "SWING_ALL"
  /\ waveStatus = "SWING_ALL"
  /\ walk = "none"
  /\ due = FALSE

\* runWaveGen in FSM::run.
CallInTick ==
  /\ ~due
  /\ status' = waveStatus
  /\ due' = (walk = "transition")
  /\ UNCHANGED <<waveStatus, walk>>

\* runWaveGen and setStartWave in the run of State_GaitTransition.
CallInRun ==
  /\ due
  /\ status' = waveStatus
  /\ waveStatus' = "WAVE_ALL"
  /\ due' = FALSE
  /\ UNCHANGED walk

\* The exit() of a state and the enter() of another that does not walk.  The tick of the
\* change has called the generator, and TRANSITION makes no call of its own any more.
GoStill(s) ==
  /\ waveStatus # s
  /\ waveStatus' = s
  /\ walk' = "none"
  /\ due' = FALSE
  /\ UNCHANGED status

\* Entering a state that walks, with its first run.
GoTrotting ==
  /\ waveStatus = "STANCE_ALL" /\ status = "STANCE_ALL"
  /\ waveStatus' = "WAVE_ALL"
  /\ walk' = "trotting"
  /\ UNCHANGED <<status, due>>

\* The same with a state whose first run retunes and calls again.
GoTransition ==
  /\ waveStatus = "STANCE_ALL" /\ status = "STANCE_ALL"
  /\ waveStatus' = "WAVE_ALL"
  /\ walk' = "transition"
  /\ UNCHANGED <<status, due>>

CallNext == \/ CallInTick
            \/ CallInRun
            \/ \E s \in {"STANCE_ALL", "SWING_ALL"} : GoStill(s)
            \/ GoTrotting
            \/ GoTransition

CallSpec == CallInit /\ [][CallNext]_calls
===============================================================================
