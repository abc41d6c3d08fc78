------------------------------ MODULE FallAudit ------------------------------
(***************************************************************************)
(* How long a fall takes to reach the motors.  A history variable follows  *)
(* the protective command of FSM::run: "trip" is 0 while none is pending,  *)
(* 1 from the tick whose checkSafty fails, and one more with each tick     *)
(* that begins, up to FallBound.  A command typed by the operator wipes    *)
(* the panel (KeyBoard.cpp:156), so it starts the count afresh.            *)
(***************************************************************************)
EXTENDS ControlFSM

VARIABLE trip

FallBound == 5

Checked == pc = "check" /\ pc' = "act"
Begun   == pc = "send" /\ pc' = "cmd"
Stored  == kpc = "store" /\ kpc' = "test"

trip_step ==
  trip' = IF Stored THEN 0
          ELSE IF Checked /\ lowState.fallen /\ trip = 0 THEN 1
          ELSE IF Begun /\ trip \in 1..(FallBound - 1) THEN trip + 1
          ELSE trip

FallInit == Init /\ trip = 0
FallNext == Next /\ trip_step
FallSpec == FallInit /\ [][FallNext]_<<vars, trip>>

\* Once checkSafty has failed and the operator types nothing, the command on the
\* wire is the limp one by the send of the fourth tick after, and the machine is
\* in PASSIVE - whatever command was already in the pipeline and whether or not
\* a change of state was under way.
FallReachesMotors ==
  trip = FallBound => currentState = "PASSIVE" /\ mode = "NORMAL" /\ sent = LimpCmd

-----------------------------------------------------------------------------
(* Why: the pipeline behind the bound, tick by tick.                       *)

\* Only the control thread writes the panel until a key is stored.
PanelHoldsTrip == trip > 0 => userCmd = "L2_B"

\* In every tick after the one of the fall, the panel read returns it.
TripIsRead ==
  trip > 1 /\ pc \in {"value", "check", "act", "enter"} => lowState.userCmd = "L2_B"

Heading == \/ mode = "NORMAL" /\ currentState = "PASSIVE"
           \/ mode = "CHANGE" /\ nextState = "PASSIVE"
Arrived == currentState = "PASSIVE" /\ mode = "NORMAL" /\ body.cmd = LimpCmd

\* The tick of the fall may still decide a change by the command it read before;
\* the next carries it out or decides for PASSIVE; the one after decides for
\* PASSIVE at the latest; the third enters it; the fourth sends it.
Pipeline ==
  /\ trip = 2 /\ pc = "send" => mode = "NORMAL" \/ Heading
  /\ trip = 3 /\ pc \in {"cmd", "value", "check", "act"} => mode = "NORMAL" \/ Heading
  /\ trip = 3 /\ pc \in {"send", "enter"} => Heading
  /\ trip = 4 => Heading
  /\ trip = 4 /\ pc \in {"send", "stopped"} => Arrived
  /\ trip = 5 => Arrived /\ sent = LimpCmd

\* PASSIVE's command is limp from its entry on, and mode and pc agree.
Limp   == currentState = "PASSIVE" => body.cmd = LimpCmd
Phases == pc = "enter" => mode = "CHANGE"

TripRange == trip \in 0..FallBound

FallInv == TripRange /\ PanelHoldsTrip /\ TripIsRead /\ Pipeline /\ Limp /\ Phases
=============================================================================
