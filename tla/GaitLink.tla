------------------------------ MODULE GaitLink ------------------------------
(***************************************************************************)
(* From the command for a gait to the legs: gait_node publishes on         *)
(* gait_out, State_GaitTransition subscribes to it beside the sensors of   *)
(* IOROS, and its run retunes the wave generator with what it finds.  log  *)
(* is what gait_node has published.                                        *)
(***************************************************************************)
EXTENDS GaitNode, Subscribers, Sequences

CONSTANTS
  GaitOut,    \* the topic gait_out, whose fields are the parts of a gait
  Target      \* the _target... members before the first message

ASSUME LinkAssumption ==
  /\ GaitOut \in Topics
  /\ Parts = {f \in Fields : TopicOf[f] = GaitOut}
  /\ Target \in Gait

VARIABLE log

linkVars == <<nodeVars, rosVars, log>>

LinkInit == NodeInit /\ RosInit /\ log = <<>>

\* The timer of gait_node.  What it publishes before the subscriber has been matched
\* reaches nobody.
TimerTick ==
  /\ timer_callback
  /\ \/ Publish(GaitOut) /\ log' = Append(log, curr')
     \/ sent[GaitOut] = 0 /\ UNCHANGED <<rosVars, log>>

GaitCommand(g) == on_gait_command(g) /\ UNCHANGED <<rosVars, log>>

SensorMessage(t) ==
  t # GaitOut /\ Publish(t) /\ UNCHANGED <<nodeVars, log>>

Threads == (Executor \/ Copy) /\ UNCHANGED <<nodeVars, log>>

LinkNext == \/ TimerTick
            \/ \E g \in Commands : GaitCommand(g)
            \/ \E t \in Topics : SensorMessage(t)
            \/ Threads

LinkSpec == LinkInit /\ [][LinkNext]_linkVars

TypeOK == NodeTypeOK /\ RosTypeOK /\ log \in Seq(Gait) /\ Len(log) = sent[GaitOut]

\* The gait the wave generator is retuned with.
Retuned == [p \in Parts |-> IF copy[p] = 0 THEN Target[p] ELSE log[copy[p]][p]]

\* Messages dropped, copies torn, ramps broken off: once a first message has come, TRANSITION
\* walks with a stance ratio, a period and biases in the range of the gaits commanded.
WalksWithinCommands ==
  \A p \in Parts : copy[p] # 0 => Within(p, Retuned[p])

-----------------------------------------------------------------------------
(* Why: everything on the way is within the commands, and what is copied   *)
(* was published.                                                          *)
LogWithin == \A k \in 1..Len(log) : \A p \in Parts : Within(p, log[k][p])

LinkInv == TypeOK /\ RosInv /\ OnTrack /\ StaysWithin /\ LogWithin
=============================================================================
