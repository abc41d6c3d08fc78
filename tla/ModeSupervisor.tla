---------------------------- MODULE ModeSupervisor ----------------------------
(***************************************************************************)
(* What the operator is promised about modes, with no thread, tick, motor  *)
(* or memory in sight: the robot is in one mode; orders arrive, from the   *)
(* keys or from the fall protection, each replacing the one before; and    *)
(* the mode changes only by obeying an order given since it last changed.  *)
(***************************************************************************)
CONSTANTS
  Modes, Orders,     \* the modes of the robot, and the orders it knows
  First, Quiet,      \* the mode it starts in, and the order that asks nothing
  Obey(_, _)         \* the mode an order leads to from a mode

VARIABLES
  mode,      \* the mode the robot is in
  order,     \* the order that stands now
  recent     \* the orders that stood since the mode last changed

SupervisorInit == mode = First /\ order = Quiet /\ recent = {Quiet}

Order(o) == /\ order' = o
            /\ recent' = recent \cup {o}
            /\ UNCHANGED mode

Change(o) == /\ Obey(mode, o) # mode
             /\ mode' = Obey(mode, o)
             /\ recent' = {order}
             /\ UNCHANGED order

SupervisorNext == \/ \E o \in Orders : Order(o)
                  \/ \E o \in recent : Change(o)

SupervisorSpec == SupervisorInit /\ [][SupervisorNext]_<<mode, order, recent>>
=============================================================================
