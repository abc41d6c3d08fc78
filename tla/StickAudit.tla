------------------------------ MODULE StickAudit ------------------------------
(***************************************************************************)
(* Which state a stick value was typed for.  History variables mark a      *)
(* value as inherited when it was typed before the current state was       *)
(* entered: userOld for the panel, lowOld for this tick's copy, stickOld   *)
(* for the value in flight in KeyBoard::changeValue; lost records that     *)
(* such a value was written back over the zeroing of an entry.             *)
(***************************************************************************)
EXTENDS ControlFSM

VARIABLES userOld, lowOld, stickOld, lost

audit == <<userOld, lowOld, stickOld, lost>>

StickInit == Init /\ userOld = FALSE /\ lowOld = FALSE /\ stickOld = FALSE /\ lost = FALSE

Entered  == /\ pc = "enter" /\ pc' = "send"
            /\ userOld' = (userValue' # 0)
            /\ lowOld' = TRUE
            /\ stickOld' = (kpc = "write")
            /\ lost' = FALSE
Copied   == /\ pc = "value" /\ pc' = "check"
            /\ lowOld' = userOld
            /\ UNCHANGED <<userOld, stickOld, lost>>
Spaced   == /\ kpc = "select" /\ kpc' = "store" /\ key' = "space"
            /\ userOld' = FALSE
            /\ UNCHANGED <<lowOld, stickOld, lost>>
TakenUp  == /\ kpc = "test" /\ kpc' = "write"
            /\ stickOld' = userOld
            /\ UNCHANGED <<userOld, lowOld, lost>>
PutBack  == /\ kpc = "write" /\ kpc' = "select"
            /\ userOld' = stickOld
            /\ lost' = (lost \/ stickOld)
            /\ stickOld' = FALSE
            /\ UNCHANGED lowOld
NoStick  == /\ ~(pc = "enter" /\ pc' = "send") /\ ~(pc = "value" /\ pc' = "check")
            /\ ~(kpc = "select" /\ kpc' = "store" /\ key' = "space")
            /\ ~(kpc = "test" /\ kpc' = "write") /\ ~(kpc = "write" /\ kpc' = "select")
            /\ UNCHANGED audit

stick_step == Entered \/ Copied \/ Spaced \/ TakenUp \/ PutBack \/ NoStick

StickNext == Next /\ stick_step
StickSpec == StickInit /\ [][StickNext]_<<vars, audit>>

\* The states that move the body by the sticks (SWINGTEST moves one leg by them,
\* and starts from what it finds).
MovedBySticks == {"FREESTAND", "BALANCETEST", "TROTTING", "TRANSITION", "MOVE_GAIT"}

\* A state that moves the body by the sticks obeys only what was typed for it: from
\* its second tick on, a deflection typed in an earlier state moves the robot only
\* if one keystroke in flight undid the zeroing by enter().
InheritedStickOnlyByRace ==
  pc = "act" /\ mode = "NORMAL" /\ currentState \in MovedBySticks
    => (lowOld /\ lowState.userValue # 0 => lost)

\* Why: enter() leaves nothing old on the panel of such a state, and what comes back
\* comes back by way of a keystroke in flight.
StickInv ==
  currentState \in MovedBySticks =>
    /\ userOld => lost
    /\ pc \in {"check", "act"} => (lowOld => lost)
=============================================================================
