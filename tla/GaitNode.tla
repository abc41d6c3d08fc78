------------------------------ MODULE GaitNode ------------------------------
(***************************************************************************)
(* gait_node: a command for another gait is answered with n gaits, one     *)
(* every 5 ms, that lead from the present gait to the one commanded.  The  *)
(* numbers of a gait (stance ratio, period, bias of each leg) are integers *)
(* in units of the grain to which the division by n is rounded.  The       *)
(* node's one thread runs its two callbacks in turn.                       *)
(***************************************************************************)
EXTENDS Integers

CONSTANTS
  Parts,       \* the numbers a gait consists of
  Commands,    \* the gaits that may be commanded
  Home,        \* the gait the node starts with
  n            \* the steps of a transition

Gait == [Parts -> Int]

ASSUME CommandAssumption ==
  Commands \subseteq Gait /\ Home \in Gait /\ n \in Nat \ {0}

VARIABLES i, target, curr, step

nodeVars == <<i, target, curr, step>>

Near(x, y) == x - y < n /\ y - x < n

\* What d / n may be rounded to.
Rounded(d) == {s \in (IF d < 0 THEN d..0 ELSE 0..d) : Near(n * s, d)}

Zero == [p \in Parts |-> 0]

NodeInit ==
  /\ i = 0
  /\ target = Home
  /\ curr = Home
  /\ step = Zero

\* Mistake: the ramp is reckoned from where the last one was to end.
on_gait_command_FromTarget(g) ==
  /\ target' = g
  /\ step' \in [Parts -> UNION {Rounded(g[p] - target[p]) : p \in Parts}]
  /\ \A p \in Parts : step'[p] \in Rounded(g[p] - target[p])
  /\ i' = 0
  /\ UNCHANGED curr

on_gait_command(g) ==
  /\ target' = g
  /\ step' \in [Parts -> UNION {Rounded(g[p] - curr[p]) : p \in Parts}]
  /\ \A p \in Parts : step'[p] \in Rounded(g[p] - curr[p])
  /\ i' = 0
  /\ UNCHANGED curr

\* Mistake: one step too many.
timer_callback_OneMore ==
  /\ IF i <= n THEN /\ curr' = [p \in Parts |-> curr[p] + step[p]]
                    /\ i' = i + 1
               ELSE UNCHANGED <<curr, i>>
  /\ UNCHANGED <<target, step>>

\* The timer moves curr, which the node then publishes.
timer_callback ==
  /\ IF i < n THEN /\ curr' = [p \in Parts |-> curr[p] + step[p]]
                   /\ i' = i + 1
              ELSE UNCHANGED <<curr, i>>
  /\ UNCHANGED <<target, step>>

NodeNext == timer_callback \/ \E g \in Commands : on_gait_command(g)
NodeSpec == NodeInit /\ [][NodeNext]_nodeVars

-----------------------------------------------------------------------------

NodeTypeOK ==
  /\ i \in 0..n
  /\ target \in Commands \cup {Home}
  /\ curr \in Gait /\ step \in Gait

\* Wherever in a transition another gait is commanded, what is left of the ramp leads
\* to the last command: the sum of the steps to come ends within the rounding of it.
OnTrack == \A p \in Parts : Near(target[p], curr[p] + (n - i) * step[p])

\* The least and the greatest value of part p that was asked for.
Asked(p) == {g[p] : g \in Commands \cup {Home}}
Within(p, x) == /\ \E y \in Asked(p) : y < x + n
                /\ \E y \in Asked(p) : x < y + n

\* No gait on the way leaves the range of those commanded, but for the rounding, however
\* often a ramp is broken off and begun anew: ratio below 1, period above 0.
StaysWithin == \A p \in Parts : Within(p, curr[p])
=============================================================================
