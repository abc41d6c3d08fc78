---------------------------- MODULE MCGaitGenerator ----------------------------
(* The keyboard's kinds of gait, in quarters of a period of 8 or 12 slots: half a  *)
(* stance and a whole swing last no less than the latest tick.                     *)
EXTENDS SwitchAudit, TLC

MCGait(p, r, b) == [period |-> p, stRatio |-> r, bias |-> b]

MCTrot   == MCGait(12, 2, <<0, 2, 2, 0>>)
MCStand  == MCGait(12, 4, <<0, 2, 2, 0>>)
MCWalk   == MCGait(12, 3, <<0, 2, 3, 1>>)
MCBound  == MCGait(8, 3, <<0, 0, 2, 2>>)

MCGaits == {MCWalk, MCBound}
===============================================================================
