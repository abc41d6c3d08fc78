---------------------------- MODULE GaitGenerator ----------------------------
(***************************************************************************)
(* The swing trajectory on top of the wave generator: GaitGenerator::run,  *)
(* which every tick of a walking state calls with that tick's contacts and *)
(* phases.  The phase of a leg, from 0 to 1 within its stance or swing, is *)
(* a fraction of integers.  Of a trajectory only its two ends are kept:    *)
(* how far along a swing begins (phase), and where startP was taken -      *)
(* where the foot stands ("here"), at a place it has left since ("left"),  *)
(* or in mid-air ("air").                                                  *)
(***************************************************************************)
EXTENDS WaveGenerator

VARIABLES
  phase,      \* the phases handed out
  phasePast,  \* WaveGenerator::_phasePast
  firstRun,   \* GaitGenerator::_firstRun
  startP,     \* where GaitGenerator::_startP was taken
  stood,      \* the contacts of the generator's last run
  sure        \* history: all legs were on the ground when it was restarted

trajectory == <<firstRun, startP, stood, sure>>
phases     == <<phase, phasePast>>
gaitVars   == <<vars, phases, trajectory>>

Fraction(n, d) == [num |-> n, den |-> d]
Half == Fraction(1, 2)

\* _normalT, in slots over Den.
normalT(i, g, t) ==
  (t * Den + g.period * Den - g.period * g.bias[i]) % (g.period * Den)

\* Mistake: the swing is measured from the start of the cycle.
calcPhase_WholeCycle(s, g, t) ==
  [i \in Legs |->
     IF s # "WAVE_ALL" THEN Half
     ELSE IF InStance(i, g, t) THEN Fraction(normalT(i, g, t), g.stRatio * g.period)
     ELSE Fraction(normalT(i, g, t), (Den - g.stRatio) * g.period)]

calcPhase(s, g, t) ==
  [i \in Legs |->
     IF s # "WAVE_ALL" THEN Half
     ELSE IF InStance(i, g, t) THEN Fraction(normalT(i, g, t), g.stRatio * g.period)
     ELSE Fraction(normalT(i, g, t) - g.stRatio * g.period, (Den - g.stRatio) * g.period)]

\* The phases calcContactPhase hands out along with the contacts: a leg held to its
\* past contact is held to its past phase.
handOutPhases ==
  LET aim == calcWave(waveStatus, gait', now') IN
  /\ phasePast' = IF waveStatus = statusPast THEN phasePast
                  ELSE calcPhase(statusPast, gait', now')
  /\ phase' = [i \in Legs |-> IF contact'[i] = aim[i]
                              THEN calcPhase(waveStatus, gait', now')[i]
                              ELSE phasePast'[i]]

Early(x) == 2 * x.num < x.den

\* GaitGenerator::run with contacts c and phases p.
run(first, c, p) ==
  /\ startP' = [i \in Legs |->
       IF first /\ c[i] = 0 THEN "air"
       ELSE IF first \/ (c[i] = 1 /\ Early(p[i])) THEN "here"
       ELSE IF c[i] = 1 /\ stood[i] = 0 THEN "left"
       ELSE startP[i]]
  /\ sure' = IF first THEN c = AllLegs ELSE sure
  /\ firstRun' = FALSE
  /\ stood' = c

GaitInit ==
  /\ Init
  /\ phase = [i \in Legs |-> Half]
  /\ phasePast = [i \in Legs |-> Half]
  /\ firstRun = TRUE
  /\ startP = [i \in Legs |-> "air"]
  /\ stood = NoLegs
  /\ sure = FALSE

\* A tick: the wave generator, then the run of the state that walks.
Tick == /\ RunWaveGen
        /\ handOutPhases
        /\ IF walk = "trotting" THEN run(firstRun, contact', phase')
                                ELSE UNCHANGED trajectory

\* enter() restarts the trajectories.
TickOfTransition == /\ TransitionRun
                    /\ handOutPhases
                    /\ run(firstRun \/ walk = "none", contact', phase')

\* Mistake: the trajectories of the last walk are taken up again.
Walk_NoRestart == /\ StartTrotting
                  /\ run(firstRun, contact, phase)
                  /\ UNCHANGED phases

\* enter() restarts the generator, and the first run follows in the same tick.
Walk == /\ StartTrotting
        /\ run(TRUE, contact, phase)
        /\ UNCHANGED phases

\* Limp legs go anywhere, and a leg that was in the air is put down where it is.
Stay(s) == /\ Still(s)
           /\ startP' = [i \in Legs |-> IF s = "SWING_ALL" \/ stood[i] = 0 THEN "left"
                                        ELSE startP[i]]
           /\ UNCHANGED <<phases, firstRun, stood, sure>>

Command(g) == setGaitCmd(g) /\ UNCHANGED <<phases, trajectory>>

GaitNext == \/ Tick
            \/ TickOfTransition
            \/ \E s \in {"STANCE_ALL", "SWING_ALL"} : Stay(s)
            \/ Walk
            \/ \E g \in Gaits : Command(g)

GaitSpec == GaitInit /\ [][GaitNext]_gaitVars

-----------------------------------------------------------------------------

\* The phases handed to the estimator and to the swing trajectory lie between 0 and
\* 1 - windowFunc complains of others - through every switch and retuning.
PhaseInRange == \A i \in Legs : phase[i].num \in 0..phase[i].den /\ phase[i].den > 0

\* How long a leg stands and swings in a cycle, in slots over Den.
Stance(g) == g.stRatio * g.period
Swing(g)  == (Den - g.stRatio) * g.period

\* Walking a gait that is left alone, from a stand with all legs on the ground, the
\* trajectory of every leg starts where the leg stands or stood last: no landing is
\* so late in the stance that startP misses it - as long as no tick comes later than
\* half a stance takes.
SwingsFromWhereItStands ==
  walk = "trotting" /\ sure /\ 2 * Slip * Den <= Stance(gait)
    => \A i \in Legs : startP[i] = "here"

\* Only legs that move together are in the air together.
Alternating(g) ==
  \A t \in 0..(Cycle - 1) : \A i, j \in Legs :
    ~InStance(i, g, t) /\ ~InStance(j, g, t) => g.bias[i] = g.bias[j]
AlternatingGaits == {g \in AllGaits : Alternating(g)}

\* In a gait whose legs take turns, a leg that lifts off begins its swing at the
\* beginning, also the first to lift off: a phase well into the swing would throw the
\* foot to the middle of its path.
LiftsFromTheStart ==
  [][walk = "trotting" /\ sure /\ gait \in AlternatingGaits =>
       \A i \in Legs : contact[i] = 1 /\ contact'[i] = 0 =>
         phase'[i].num < 2 * Slip * Den]_gaitVars
-----------------------------------------------------------------------------
(* Why these hold: a walk that starts from a stand waits, all legs on the ground, for  *)
(* those that would have to begin in mid-swing, and then hands out the wave as it is.  *)

\* A stand with all legs on the ground is over with its switch.
StandSettles ==
  status = "STANCE_ALL" /\ contact = AllLegs => statusPast = "STANCE_ALL" /\ switching = {}

Waits   == /\ statusPast = "STANCE_ALL" /\ contact = AllLegs
           /\ status = "STANCE_ALL" => switching = {}
           /\ status = "WAVE_ALL" =>
                switching # {} /\ \A i \in switching : ~InStance(i, gait, now)
Strides == /\ statusPast = "WAVE_ALL" /\ status = "WAVE_ALL" /\ switching = {}
           /\ contact \in {AllLegs, calcWave("WAVE_ALL", gait, now)}
           /\ Alternating(gait) => \A i \in Legs :
                contact[i] = 1 => normalT(i, gait, now) < Stance(gait) + Slip * Den

FromStand ==
  walk = "trotting" =>
    /\ waveStatus = "WAVE_ALL" /\ ~firstRun
    /\ sure => /\ stood = contact
               /\ status # "SWING_ALL" /\ (Waits \/ Strides)
               /\ SwingsFromWhereItStands
===============================================================================
