----------------------------- MODULE MCGaitLink -----------------------------
(* The imu with the first and the last component of its attitude, and gait_out    *)
(* with one bias for all legs, in the orders of imuCallback, recvState,           *)
(* gaitCmdCallback and run.                                                      *)
EXTENDS GaitLink, TLC

MCParts    == {"beta", "bias"}
MCTopics   == {"imu", "gait_out"}
MCFields   == {"q0", "q3"} \cup MCParts
MCTopicOf  == [q0 |-> "imu", q3 |-> "imu",
               beta |-> "gait_out", bias |-> "gait_out"]
MCPlace    == [q0 |-> 1, q3 |-> 2, beta |-> 1, bias |-> 2]
MCTurn     == [q0 |-> 1, q3 |-> 2, bias |-> 1, beta |-> 2]
MCSize     == [imu |-> 2, gait_out |-> 2]
MCPasses   == {"recvState", "run"}
MCPassOf   == [imu |-> "recvState", gait_out |-> "run"]
MCLength   == [recvState |-> 2, run |-> 2]
MCMaxMsg   == [imu |-> 2, gait_out |-> 2]
MCDepth    == [imu |-> 1, gait_out |-> 2]

MCGait(r, b) == [beta |-> r, bias |-> b]
MCHome     == MCGait(5, 4)
MCTarget   == MCGait(10, 4)
MCCommands == {MCGait(6, 0)}
=============================================================================
