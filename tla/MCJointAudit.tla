----------------------------- MODULE MCJointAudit -----------------------------
(* A command that holds a position, one that pushes without position control,    *)
(* both with a torque that is not a number, and one that brakes.                 *)
EXTENDS JointAudit, TLC

Cmd(m, q, kp, dq, kd, tau) ==
  [mode |-> m, q |-> q, kp |-> kp, dq |-> dq, kd |-> kd, tau |-> tau]

MCHold == Cmd(PMSM, 0, 3, 0, 0, NaN)
MCPush == Cmd(PMSM, PosStop, 3, 0, 0, NaN)
MCBrake == Cmd(BRAKE, 0, 3, 0, 0, NaN)
MCCommands == {MCHold, MCPush, MCBrake}

(* One command, then another: two that differ, so that an old one shows.          *)
FewCommands == heard \in {<<>>, <<MCHold>>, <<MCHold, MCPush>>, <<MCHold, MCBrake>>}
===============================================================================
