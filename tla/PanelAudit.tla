------------------------------ MODULE PanelAudit ------------------------------
(***************************************************************************)
(* The control FSM under its three audits at once: the one that follows a  *)
(* fall to the motors, the one that remembers which commands were given,   *)
(* and the one that remembers for which state a stick was typed.  No       *)
(* history variable restrains the program or the others, so a behaviour of *)
(* PanelSpec is one of FallSpec, of OrderSpec and of StickSpec.            *)
(***************************************************************************)
EXTENDS FallAudit, OrderAudit, StickAudit

PanelInit == FallInit /\ OrderInit /\ StickInit
PanelNext == OrderNext /\ trip_step /\ stick_step
PanelSpec == PanelInit /\ [][PanelNext]_<<vars, trip, given, audit>>
===============================================================================
