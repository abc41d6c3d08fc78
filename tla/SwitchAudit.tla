----------------------------- MODULE SwitchAudit -----------------------------
(***************************************************************************)
(* How long the wave generator takes over a switch.  The history variable  *)
(* held counts the ticks since it was last handed another status or gait.  *)
(***************************************************************************)
EXTENDS GaitGenerator

VARIABLE held

\* The ticks of one period: by the last of them every leg has been let go.
Patience == gait.period

Ticked == ~due /\ now' # now

held_step ==
  held' = IF status' # status \/ gait' # gait THEN 0
          ELSE IF Ticked /\ held < Patience THEN held + 1
          ELSE held

SwitchInit == GaitInit /\ held = 0
SwitchNext == GaitNext /\ held_step
SwitchSpec == SwitchInit /\ [][SwitchNext]_<<gaitVars, held>>

\* Every leg both stands and swings, and for no less time than a tick may be late.
OnTime(g) == Slip * Den <= Stance(g) /\ Slip * Den <= Swing(g)

\* A switch is over, and every leg does what the status and the gait ask, once
\* they have been left alone for a period - whether or not the switch before was
\* broken off.  It takes a gait that is on time: under TRANSITION's initial stance
\* ratio of 1 no leg ever lifts for the others to wait for, and a late tick can pass
\* over a swing that is shorter than it.  (WaveGenerator::calcContactPhase.)
SwitchEnds ==
  held >= Patience /\ OnTime(gait)
    => /\ statusPast = status /\ switching = {}
       /\ contact = calcWave(status, gait, now)

\* Why: a leg that is waited for gets on by a slot with every tick, and reaches the
\* other end of its stance or swing two ticks before the period is over.
Awaited(i) == IF status = "WAVE_ALL" THEN contactPast[i]
                                     ELSE calcWave(status, gait, now)[i]

OnTheWay(i) ==
  LET x == normalT(i, gait, now) IN
  IF Awaited(i) = 1 THEN Stance(gait) + held * Den <= x
                    ELSE held * Den <= x /\ x < Stance(gait)

SwitchInv ==
  /\ statusPast # status => switching # {}
  /\ OnTime(gait) /\ switching # {} =>
       IF statusPast = status /\ status # "WAVE_ALL" THEN held = 0
       ELSE \A i \in switching : OnTheWay(i)
  /\ OnTime(gait) /\ held >= Patience => contact = calcWave(status, gait, now)
===============================================================================
