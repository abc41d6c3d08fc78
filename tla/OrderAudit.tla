------------------------------ MODULE OrderAudit ------------------------------
(***************************************************************************)
(* The control FSM implements the mode supervisor.  The history variable   *)
(* given is the set of commands that stood on the panel since the current  *)
(* state was entered.                                                      *)
(***************************************************************************)
EXTENDS ControlFSM

VARIABLE given

OrderInit == Init /\ given = {"NONE"}
OrderNext == /\ Next
             /\ given' = IF pc = "enter" /\ pc' = "send" THEN {userCmd}
                         ELSE given \cup {userCmd'}
OrderSpec == OrderInit /\ [][OrderNext]_<<vars, given>>

Supervisor == INSTANCE ModeSupervisor WITH
  Modes <- StateName, Orders <- UserCommand, First <- "PASSIVE", Quiet <- "NONE",
  Obey <- checkChange, mode <- currentState, order <- userCmd, recent <- given

\* Every change of state obeys a command that stood on the panel since the last
\* change, although the decision is taken one tick before the change and on a
\* copy of the panel that may be out of date by then.
ObeysSupervisor == Supervisor!SupervisorSpec

-----------------------------------------------------------------------------
(* Why: the copy a decision is taken on, and the decision itself, date from *)
(* after the last change.                                                  *)
CopyIsRecent     == pc \in {"value", "check", "act"} => lowState.userCmd \in given
DecisionIsRecent == mode = "CHANGE" =>
  \E c \in given : nextState = checkChange(currentState, c) /\ nextState # currentState
PanelIsRecent    == userCmd \in given
DecidedFirst     == pc = "enter" => mode = "CHANGE"

OrderInv == CopyIsRecent /\ DecisionIsRecent /\ PanelIsRecent /\ DecidedFirst
=============================================================================
