---------------------------- MODULE WaveGenerator ----------------------------
(***************************************************************************)
(* The wave generator, which decides 500 times a second which legs carry   *)
(* the robot: WaveGenerator::calcContactPhase, called by FSM::run in every *)
(* tick and once more by the run of State_GaitTransition, which retunes it *)
(* first.  Time is counted in slots of one tick; stance ratio and bias are *)
(* numerators over Den.  The phase of a leg within its stance or swing is  *)
(* left out.                                                               *)
(*                                                                         *)
(* The caller is the control FSM, of which only the calls are kept:        *)
(* WaveCaller.                                                             *)
(***************************************************************************)
EXTENDS Integers, WaveCaller

CONSTANTS
  Legs,
  Den,       \* the denominator of stance ratios and biases
  Gaits,     \* the gaits that may arrive on the gait topics
  Trot,      \* the gait the generator is constructed with
  Stand,     \* TRANSITION's gait until one arrives: stance ratio 1
  Slip,      \* the most slots from one tick to the next
  Cycle      \* a common multiple of all periods, after which time wraps

Gait == [period : Nat \ {0}, stRatio : 0..Den, bias : [Legs -> 0..Den]]
AllGaits == Gaits \cup {Trot, Stand}

ASSUME GaitAssumption ==
  /\ Den \in Nat \ {0}
  /\ Legs # {}
  /\ AllGaits \subseteq Gait
  /\ Stand.stRatio = Den
  /\ \A g \in Gaits \cup {Trot} : g.stRatio < Den
ASSUME TimeAssumption ==
  /\ Slip \in Nat \ {0}
  /\ Cycle \in Nat \ {0}
  /\ \A g \in AllGaits : Cycle % g.period = 0

VARIABLES
  now,          \* getSystemTime() - _startT, in slots
  gait,         \* _period, _stRatio, _bias
  statusPast,   \* _statusPast
  switching,    \* the legs whose _switchStatus is not 0
  contactPast,  \* _contactPast
  contact,      \* the contacts handed out
  target        \* State_GaitTransition::_target...

generator == <<now, gait, statusPast, switching, contactPast, contact>>
vars      == <<generator, calls, target>>

Contacts == [Legs -> {0, 1}]

TypeOK ==
  /\ now \in 0..(Cycle - 1)
  /\ gait \in AllGaits
  /\ statusPast \in WaveStatus
  /\ switching \subseteq Legs
  /\ contactPast \in Contacts
  /\ contact \in Contacts
  /\ status \in WaveStatus
  /\ waveStatus \in WaveStatus
  /\ walk \in {"none", "trotting", "transition"}
  /\ due \in BOOLEAN
  /\ target \in AllGaits

NoLegs  == [i \in Legs |-> 0]
AllLegs == [i \in Legs |-> 1]

\* The constructor leaves _switchStatus uninitialised.
Init ==
  /\ now = 0
  /\ gait = Trot
  /\ statusPast = "SWING_ALL"
  /\ switching \in SUBSET Legs
  /\ contactPast = NoLegs
  /\ contact = NoLegs
  /\ target = Stand
  /\ CallInit

-----------------------------------------------------------------------------

\* Leg i is in the stance part of its cycle: the normalised time, which is
\* fmod(t + period - period * bias, period) / period, is below the stance ratio.
InStance(i, g, t) ==
  (t * Den + g.period * Den - g.period * g.bias[i]) % (g.period * Den)
    < g.stRatio * g.period

calcWave(s, g, t) ==
  CASE s = "WAVE_ALL"   -> [i \in Legs |-> IF InStance(i, g, t) THEN 1 ELSE 0]
    [] s = "SWING_ALL"  -> NoLegs
    [] s = "STANCE_ALL" -> AllLegs

\* Mistake: no shortcut between the two still statuses.
Held_NoShortcut(s, p, g, t) == calcWave(p, g, t)

\* The contacts the legs hold on to during a switch from p to s.  Between the two
\* still statuses there is nothing to wait for.
Held(s, p, g, t) ==
  IF {s, p} = {"STANCE_ALL", "SWING_ALL"} THEN calcWave(s, g, t)
                                          ELSE calcWave(p, g, t)

\* Mistakes: a leg that has finished once is held no longer; every call that
\* finds another status flags all legs anew.
calcContactPhase_LetsGo(s, g, t) ==
  LET aim  == calcWave(s, g, t)
      past == IF s = statusPast THEN contactPast ELSE Held(s, statusPast, g, t)
      legs == IF s # statusPast /\ switching = {} THEN Legs ELSE switching
      late == {i \in legs : aim[i] # past[i]}
  IN  /\ status' = s
      /\ contactPast' = past
      /\ switching' = late
      /\ contact' = [i \in Legs |-> IF i \in late THEN past[i] ELSE aim[i]]
      /\ statusPast' = IF legs # {} /\ late = {} THEN s ELSE statusPast
calcContactPhase_FlagsAnew(s, g, t) ==
  LET aim  == calcWave(s, g, t)
      past == IF s = statusPast THEN contactPast ELSE Held(s, statusPast, g, t)
      legs == IF s # statusPast THEN Legs ELSE switching
      late == {i \in legs : aim[i] # past[i]}
  IN  /\ status' = s
      /\ contactPast' = past
      /\ switching' = late
      /\ contact' = IF legs = {} THEN aim ELSE past
      /\ statusPast' = IF legs # {} /\ late = {} THEN s ELSE statusPast

calcContactPhase(s, g, t) ==
  LET aim  == calcWave(s, g, t)
      past == IF s = statusPast THEN contactPast ELSE Held(s, statusPast, g, t)
      legs == IF s # statusPast /\ switching = {} THEN Legs ELSE switching
      late == {i \in legs : aim[i] # past[i]}
  IN  /\ status' = s
      /\ contactPast' = past
      /\ switching' = late
      /\ contact' = IF legs = {} THEN aim
                    ELSE [i \in Legs |-> IF aim[i] = past[i] THEN aim[i] ELSE past[i]]
      /\ statusPast' = IF legs # {} /\ late = {} THEN s ELSE statusPast

\* A tick of FSM::run, on time or late.
RunWaveGen ==
  /\ CallInTick
  /\ \E d \in 1..Slip : now' = (now + d) % Cycle
  /\ calcContactPhase(waveStatus, gait, now')
  /\ UNCHANGED <<gait, target>>

\* Mistake: the generator is retuned after its call.
TransitionRun_RetunesLate ==
  /\ CallInRun \/ GoTransition
  /\ gait' = target
  /\ calcContactPhase(waveStatus, gait, now)
  /\ UNCHANGED <<now, target>>

\* The run of State_GaitTransition, in its ticks or at its start: retune, compute again,
\* start the wave.
TransitionRun ==
  /\ CallInRun \/ GoTransition
  /\ gait' = target
  /\ calcContactPhase(waveStatus, gait', now)
  /\ UNCHANGED <<now, target>>

Still(s)      == GoStill(s) /\ UNCHANGED <<generator, target>>
StartTrotting == GoTrotting /\ UNCHANGED <<generator, target>>

setGaitCmd(g) ==
  /\ target # g
  /\ target' = g
  /\ UNCHANGED <<generator, calls>>

Next == \/ RunWaveGen
        \/ TransitionRun
        \/ \E s \in {"STANCE_ALL", "SWING_ALL"} : Still(s)
        \/ StartTrotting
        \/ \E g \in Gaits : setGaitCmd(g)

Spec == Init /\ [][Next]_vars

-----------------------------------------------------------------------------
(* Safety *)

\* A gait that always keeps a leg on the ground.
Supported(g) == \A t \in 0..(Cycle - 1) : \E i \in Legs : InStance(i, g, t)
AllSupported == \A g \in AllGaits : Supported(g)

\* Starting to walk, no leg leaves the ground before the switch is over - not when
\* the gait is retuned half-way, nor when the robot stood for a moment only.
StartsFromStand ==
  statusPast = "STANCE_ALL" /\ status = "WAVE_ALL" => contact = AllLegs

\* Asked to stand or to walk with supported gaits, the generator always hands out
\* a leg that carries the robot, whatever switch is under way or was broken off:
\* with none, the balance controller has nothing to solve for.
SomeLegCarries ==
  AllSupported /\ status # "SWING_ALL"
    => \E i \in Legs : contact[i] = 1

\* No leg swings under a gait without a swing: the swing trajectory divides by the
\* swing time (GaitGenerator), and a stance ratio of 1 gets past the constructor's
\* check through setBeta.
SwingTakesTime ==
  walk # "none" /\ waveStatus = "WAVE_ALL" /\ (\E i \in Legs : contact[i] = 0)
    => gait.stRatio < Den

\* Between standing and legs in the air the generator switches at once, also when a
\* walk in between was broken off before it began.
StillIsImmediate ==
  [][statusPast # "WAVE_ALL" /\ status' # "WAVE_ALL" /\ status' # status
       => contact' = calcWave(status', gait', now')]_vars

-----------------------------------------------------------------------------
(* Why these hold: what a switch that is under way or was broken off holds on   *)
(* to, and which statuses can follow which.                                     *)

Full(g) == g.stRatio = Den
Carried(c) == \E i \in Legs : c[i] = 1

HeldContacts ==
  switching # {} =>
    CASE statusPast = "STANCE_ALL" -> contactPast = AllLegs
      [] statusPast = "SWING_ALL"  -> contactPast = NoLegs
      [] statusPast = "WAVE_ALL"   ->
           /\ Full(gait) => contactPast = AllLegs
           /\ AllSupported => Carried(contactPast)

NoSwingToWave ==
  /\ status # "SWING_ALL" => statusPast # "SWING_ALL"
  /\ waveStatus = "WAVE_ALL" => status # "SWING_ALL"

FullGaitStands ==
  /\ Full(gait) /\ status # "SWING_ALL" => contact = AllLegs
  /\ walk = "transition" /\ Full(target) => Full(gait)
  /\ due => walk = "transition"
  /\ walk = "transition" => waveStatus = "WAVE_ALL"

WaveInv == StartsFromStand /\ SomeLegCarries /\ HeldContacts /\ NoSwingToWave
             /\ FullGaitStands
=============================================================================
