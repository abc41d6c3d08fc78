------------------------ MODULE GaitGenerator_proofs ------------------------
(***************************************************************************)
(* The wave generator and the generator of swing trajectories on top of    *)
(* it, for any number of legs, any set of gaits and any lateness of the    *)
(* ticks.  The first rests on one observation: while a switch is under way *)
(* the contacts handed out are, leg by leg, the ones held on to, so they   *)
(* are one whole wave and never a mixture of two.  The second adds to it   *)
(* without disturbing it, hands out phases between 0 and 1, lifts the legs *)
(* of a walk from where they stand, and is done with a switch in a period. *)
(***************************************************************************)
EXTENDS SwitchAudit, TLAPS

-----------------------------------------------------------------------------
(* Waves                                                                   *)

LEMMA WaveType ==
  ASSUME NEW s \in WaveStatus, NEW g, NEW t
  PROVE  calcWave(s, g, t) \in Contacts
  BY DEF calcWave, WaveStatus, Contacts, NoLegs, AllLegs

LEMMA HeldType ==
  ASSUME NEW s \in WaveStatus, NEW p \in WaveStatus, NEW g, NEW t
  PROVE  Held(s, p, g, t) \in Contacts
  BY WaveType DEF Held

\* Under a stance ratio of 1 no leg ever swings.
LEMMA FullWave ==
  ASSUME NEW g \in Gait, NEW t \in Nat, Full(g)
  PROVE  calcWave("WAVE_ALL", g, t) = AllLegs
<1>1. ASSUME NEW i \in Legs PROVE InStance(i, g, t)
  <2> DEFINE m == g.period * Den
             x == t * Den + g.period * Den - g.period * g.bias[i]
  <2>1. g.period \in Nat \ {0} /\ Den \in Nat \ {0} /\ g.bias[i] \in 0..Den
    BY <1>1, GaitAssumption DEF Gait
  <2>2. m \in Nat /\ m > 0
    BY <2>1
  <2>3. x \in Int
    BY <2>1
  <2>4. x % m < m
    <3> HIDE DEF m, x
    <3>. QED  BY <2>2, <2>3
  <2>5. m = g.stRatio * g.period
    BY <2>1 DEF Full
  <2>. QED  BY <2>4, <2>5 DEF InStance
<1>. QED  BY <1>1 DEF calcWave, AllLegs

LEMMA StandCarries == Carried(AllLegs)
  BY GaitAssumption DEF Carried, AllLegs

\* Under supported gaits every wave but SWING_ALL keeps a leg on the ground.
LEMMA WaveCarries ==
  ASSUME NEW s \in {"STANCE_ALL", "WAVE_ALL"}, NEW g, NEW t \in 0..(Cycle - 1), Supported(g)
  PROVE  Carried(calcWave(s, g, t))
<1>1. CASE s = "STANCE_ALL"
  BY <1>1, StandCarries DEF calcWave
<1>2. CASE s = "WAVE_ALL"
  BY <1>2 DEF calcWave, Supported, Carried
<1>. QED  BY <1>1, <1>2

-----------------------------------------------------------------------------
(* One call of calcContactPhase                                            *)

\* While the status differs from the one before the switch, the held contacts are
\* computed afresh and are what is handed out.
LEMMA CallDuringSwitch ==
  ASSUME TypeOK, NEW s \in WaveStatus, NEW g, NEW t,
         calcContactPhase(s, g, t), s # statusPast
  PROVE  /\ contact' = Held(s, statusPast, g, t)
         /\ contactPast' = Held(s, statusPast, g, t)
         /\ statusPast' = IF switching' = {} THEN s ELSE statusPast
         /\ status' = s /\ switching' \in SUBSET Legs
<1> DEFINE aim  == calcWave(s, g, t)
           past == Held(s, statusPast, g, t)
           legs == IF switching = {} THEN Legs ELSE switching
<1>1. past \in Contacts /\ aim \in Contacts
  BY WaveType, HeldType DEF TypeOK
<1>2. legs # {} /\ legs \subseteq Legs
  BY GaitAssumption DEF TypeOK
<1>3. /\ status' = s /\ contactPast' = past
      /\ switching' = {i \in legs : aim[i] # past[i]}
      /\ contact' = [i \in Legs |-> IF aim[i] = past[i] THEN aim[i] ELSE past[i]]
      /\ statusPast' = IF switching' = {} THEN s ELSE statusPast
  BY <1>2 DEF calcContactPhase
<1> HIDE DEF aim, past, legs
<1>4. contact' = past
  BY <1>1, <1>3 DEF Contacts
<1>. QED  BY <1>2, <1>3, <1>4 DEF past

\* When they agree, the wave itself is handed out - or, after a switch that was
\* broken off, the contacts that switch held on to.
LEMMA CallWithoutSwitch ==
  ASSUME TypeOK, NEW s \in WaveStatus, NEW g, NEW t,
         calcContactPhase(s, g, t), s = statusPast
  PROVE  /\ contact' = IF switching = {} THEN calcWave(s, g, t) ELSE contactPast
         /\ contactPast' = contactPast
         /\ statusPast' = s /\ status' = s
         /\ switching' \in SUBSET switching
<1> DEFINE aim == calcWave(s, g, t)
<1>1. aim \in Contacts /\ contactPast \in Contacts /\ switching \subseteq Legs
  BY WaveType DEF TypeOK
<1>2. /\ status' = s /\ contactPast' = contactPast
      /\ switching' = {i \in switching : aim[i] # contactPast[i]}
      /\ contact' = IF switching = {} THEN aim
           ELSE [i \in Legs |-> IF aim[i] = contactPast[i] THEN aim[i] ELSE contactPast[i]]
      /\ statusPast' = s
  BY DEF calcContactPhase
<1> HIDE DEF aim
<1>3. [i \in Legs |-> IF aim[i] = contactPast[i] THEN aim[i] ELSE contactPast[i]] = contactPast
  BY <1>1 DEF Contacts
<1>. QED  BY <1>1, <1>2, <1>3 DEF aim

LEMMA CallType ==
  ASSUME TypeOK, NEW s \in WaveStatus, NEW g, NEW t, calcContactPhase(s, g, t)
  PROVE  /\ statusPast' \in WaveStatus /\ status' \in WaveStatus
         /\ switching' \subseteq Legs
         /\ contact' \in Contacts /\ contactPast' \in Contacts
<1>1. CASE s # statusPast
  BY <1>1, CallDuringSwitch, HeldType DEF TypeOK
<1>2. CASE s = statusPast
  BY <1>2, CallWithoutSwitch, WaveType DEF TypeOK
<1>. QED  BY <1>1, <1>2

-----------------------------------------------------------------------------
(* Type correctness                                                        *)

LEMMA TypeInit == Init => TypeOK
<1> SUFFICES ASSUME Init PROVE TypeOK
  OBVIOUS
<1>1. now \in 0..(Cycle - 1)
  BY TimeAssumption DEF Init
<1>2. Trot \in AllGaits /\ Stand \in AllGaits
  BY DEF AllGaits
<1>3. NoLegs \in Contacts
  BY DEF NoLegs, Contacts
<1>. QED  BY <1>1, <1>2, <1>3 DEF Init, CallInit, TypeOK, WaveStatus

LEMMA TypeStep == TypeOK /\ [Next]_vars => TypeOK'
<1> SUFFICES ASSUME TypeOK, [Next]_vars PROVE TypeOK'
  OBVIOUS
<1>1. CASE RunWaveGen
  <2>1. now' \in 0..(Cycle - 1)
    BY <1>1, TimeAssumption DEF RunWaveGen, TypeOK
  <2>2. /\ statusPast' \in WaveStatus /\ status' \in WaveStatus
        /\ switching' \subseteq Legs
        /\ contact' \in Contacts /\ contactPast' \in Contacts
    BY <1>1, CallType DEF RunWaveGen, TypeOK
  <2>. QED  BY <1>1, <2>1, <2>2 DEF RunWaveGen, CallInTick, TypeOK
<1>2. CASE TransitionRun
  <2>1. /\ statusPast' \in WaveStatus /\ status' \in WaveStatus
        /\ switching' \subseteq Legs
        /\ contact' \in Contacts /\ contactPast' \in Contacts
    BY <1>2, CallType DEF TransitionRun, TypeOK
  <2>. QED  BY <1>2, <2>1 DEF TransitionRun, CallInRun, GoTransition, TypeOK, WaveStatus
<1>3. ASSUME NEW s \in {"STANCE_ALL", "SWING_ALL"}, Still(s) PROVE TypeOK'
  BY <1>3 DEF Still, GoStill, TypeOK, generator, WaveStatus
<1>4. CASE StartTrotting
  BY <1>4 DEF StartTrotting, GoTrotting, TypeOK, generator, WaveStatus
<1>5. ASSUME NEW g \in Gaits, setGaitCmd(g) PROVE TypeOK'
  BY <1>5 DEF setGaitCmd, TypeOK, generator, calls, AllGaits
<1>6. CASE UNCHANGED vars
  BY <1>6 DEF vars, generator, calls, TypeOK
<1>. QED  BY <1>1, <1>2, <1>3, <1>4, <1>5, <1>6 DEF Next

THEOREM TypeCorrect == Spec => []TypeOK
  BY TypeInit, TypeStep, PTL DEF Spec
-----------------------------------------------------------------------------
(* The invariant behind the safety properties                              *)

LEMMA WaveStart == Init => WaveInv
  BY DEF Init, CallInit, WaveInv, StartsFromStand, SomeLegCarries, HeldContacts, NoSwingToWave,
         FullGaitStands

\* What a call preserves, whoever makes it: s is the status handed in, g the gait
\* and t the time in force for it.
LEMMA CallKeeps ==
  ASSUME TypeOK, WaveInv,
         NEW s \in WaveStatus, NEW g \in AllGaits, NEW t \in 0..(Cycle - 1),
         calcContactPhase(s, g, t), gait' = g,
         s = "WAVE_ALL" => status # "SWING_ALL",
         s = "WAVE_ALL" /\ Full(g) => Full(gait)
  PROVE  /\ StartsFromStand' /\ SomeLegCarries' /\ HeldContacts'
         /\ s # "SWING_ALL" => statusPast' # "SWING_ALL"
         /\ Full(g) /\ s # "SWING_ALL" => contact' = AllLegs
<1> USE DEF WaveInv
<1>1. g \in Gait /\ t \in Nat /\ statusPast \in WaveStatus
  BY GaitAssumption, TimeAssumption DEF TypeOK
<1>2. calcWave("STANCE_ALL", g, t) = AllLegs /\ calcWave("SWING_ALL", g, t) = NoLegs
  BY DEF calcWave
<1>3. Full(g) => calcWave("WAVE_ALL", g, t) = AllLegs
  BY <1>1, FullWave
<1>4. AllSupported =>
        Carried(calcWave("WAVE_ALL", g, t)) /\ Carried(AllLegs)
  BY WaveCarries, StandCarries DEF AllSupported
<1>5. CASE s # statusPast
  <2> DEFINE wave == Held(s, statusPast, g, t)
  <2>1. /\ contact' = wave /\ contactPast' = wave
        /\ statusPast' = IF switching' = {} THEN s ELSE statusPast
        /\ status' = s
    BY <1>5, CallDuringSwitch
  <2>2. CASE statusPast = "SWING_ALL"
    <3>1. s = "STANCE_ALL"
      BY <1>5, <2>2 DEF NoSwingToWave, WaveStatus
    <3>2. wave = AllLegs /\ calcWave(s, g, t) = AllLegs
      BY <3>1, <2>2, <1>2 DEF Held
    <3>3. switching' = {}
      BY <1>5, <3>2 DEF calcContactPhase
    <3>. QED
      BY <2>1, <3>1, <3>2, <3>3, <1>4
      DEF StartsFromStand, SomeLegCarries, HeldContacts, Carried
  <2>3. CASE statusPast = "STANCE_ALL"
    <3>1. CASE s = "WAVE_ALL"
      <4>1. wave = AllLegs
        BY <2>3, <3>1, <1>2 DEF Held
      <4>. QED
        BY <2>1, <2>3, <3>1, <4>1, <1>4
        DEF StartsFromStand, SomeLegCarries, HeldContacts, Carried
    <3>2. CASE s = "SWING_ALL"
      <4>1. wave = calcWave(s, g, t)
        BY <2>3, <3>2 DEF Held
      <4>2. switching' = {}
        BY <1>5, <4>1 DEF calcContactPhase
      <4>. QED
        BY <2>1, <3>2, <4>2 DEF StartsFromStand, SomeLegCarries, HeldContacts
    <3>. QED  BY <1>5, <2>3, <3>1, <3>2 DEF WaveStatus
  <2>4. CASE statusPast = "WAVE_ALL"
    <3>1. wave = calcWave("WAVE_ALL", g, t)
      BY <2>4 DEF Held
    <3>2. SomeLegCarries' /\ (Full(g) => contact' = AllLegs)
      BY <2>1, <3>1, <1>3, <1>4 DEF SomeLegCarries, Carried
    <3>3. HeldContacts'
      BY <2>1, <2>4, <3>1, <1>3, <1>4 DEF HeldContacts, Carried, Full
    <3>. QED  BY <2>1, <2>4, <1>5, <3>2, <3>3 DEF StartsFromStand
  <2>. QED  BY <1>1, <2>2, <2>3, <2>4 DEF WaveStatus
<1>6. CASE s = statusPast
  <2>1. /\ contact' = IF switching = {} THEN calcWave(s, g, t) ELSE contactPast
        /\ contactPast' = contactPast
        /\ statusPast' = s /\ status' = s
        /\ switching' \in SUBSET switching
    BY <1>6, CallWithoutSwitch
  <2>2. s = "WAVE_ALL" /\ Full(g) /\ switching # {} => contactPast = AllLegs
    BY <1>6 DEF HeldContacts
  <2>3. s # "SWING_ALL" /\ AllSupported => Carried(contact')
    BY <2>1, <1>2, <1>4, <1>6, <1>1 DEF HeldContacts, WaveStatus
  <2>4. s # "SWING_ALL" /\ Full(g) => contact' = AllLegs
    BY <2>1, <2>2, <1>2, <1>3, <1>6, <1>1 DEF HeldContacts, WaveStatus
  <2>5. HeldContacts'
    BY <2>1, <2>2, <1>6, <1>1 DEF HeldContacts, WaveStatus, Full, Carried
  <2>. QED
    BY <2>1, <2>3, <2>4, <2>5 DEF StartsFromStand, SomeLegCarries, Carried
<1>. QED  BY <1>5, <1>6

LEMMA WaveStep == TypeOK /\ WaveInv /\ [Next]_vars => WaveInv'
<1> SUFFICES ASSUME TypeOK, WaveInv, [Next]_vars PROVE WaveInv'
  OBVIOUS
<1>1. CASE RunWaveGen
  <2>1. /\ StartsFromStand' /\ SomeLegCarries' /\ HeldContacts'
        /\ waveStatus # "SWING_ALL" => statusPast' # "SWING_ALL"
        /\ Full(gait) /\ waveStatus # "SWING_ALL" => contact' = AllLegs
    <3>1. /\ calcContactPhase(waveStatus, gait, now') /\ gait' = gait
          /\ now' \in 0..(Cycle - 1) /\ gait \in AllGaits /\ waveStatus \in WaveStatus
      BY <1>1, TypeStep DEF RunWaveGen, TypeOK
    <3>2. waveStatus = "WAVE_ALL" => status # "SWING_ALL"
      BY DEF WaveInv, NoSwingToWave
    <3>. QED  BY <3>1, <3>2, CallKeeps
  <2>2. /\ status' = waveStatus /\ UNCHANGED <<gait, waveStatus, walk, target>>
        /\ due' = (walk = "transition")
    BY <1>1 DEF RunWaveGen, CallInTick
  <2>. QED
    BY <2>1, <2>2 DEF WaveInv, NoSwingToWave, FullGaitStands, Full
<1>2. CASE TransitionRun
  <2>1. waveStatus \in {"STANCE_ALL", "WAVE_ALL"} /\ status # "SWING_ALL"
    BY <1>2 DEF TransitionRun, CallInRun, GoTransition, WaveInv, NoSwingToWave, FullGaitStands
  <2>2. waveStatus = "WAVE_ALL" /\ Full(target) => Full(gait)
    BY <1>2 DEF TransitionRun, CallInRun, GoTransition, WaveInv, FullGaitStands
  <2>3. /\ StartsFromStand' /\ SomeLegCarries' /\ HeldContacts'
        /\ statusPast' # "SWING_ALL"
        /\ Full(target) => contact' = AllLegs
    <3>1. /\ calcContactPhase(waveStatus, target, now) /\ gait' = target
          /\ now \in 0..(Cycle - 1) /\ target \in AllGaits /\ waveStatus \in WaveStatus
      BY <1>2 DEF TransitionRun, TypeOK
    <3>. QED  BY <2>1, <2>2, <3>1, CallKeeps
  <2>4. status' = waveStatus /\ gait' = target
        /\ waveStatus' = "WAVE_ALL" /\ ~due' /\ UNCHANGED target
    <3>1. status' = waveStatus /\ waveStatus' = "WAVE_ALL" /\ ~due'
      BY <1>2 DEF TransitionRun, CallInRun, GoTransition, WaveInv, FullGaitStands
    <3>. QED  BY <1>2, <3>1 DEF TransitionRun
  <2>. QED
    BY <2>1, <2>3, <2>4 DEF WaveInv, NoSwingToWave, FullGaitStands, Full
<1>3. ASSUME UNCHANGED <<generator, status>>
      PROVE  StartsFromStand' /\ SomeLegCarries' /\ HeldContacts'
  BY <1>3 DEF WaveInv, generator, StartsFromStand, SomeLegCarries, HeldContacts, Full,
              Carried
<1> USE DEF WaveInv, NoSwingToWave, FullGaitStands, Full, generator
<1>4. ASSUME NEW s \in {"STANCE_ALL", "SWING_ALL"}, Still(s) PROVE WaveInv'
  BY <1>3, <1>4 DEF Still, GoStill
<1>5. CASE StartTrotting
  BY <1>3, <1>5 DEF StartTrotting, GoTrotting
<1>6. ASSUME NEW g \in Gaits, setGaitCmd(g) PROVE WaveInv'
  <2>1. g.stRatio # Den
    BY GaitAssumption DEF Gait, AllGaits
  <2>. QED  BY <1>3, <1>6, <2>1 DEF setGaitCmd, calls
<1>7. CASE UNCHANGED vars
  BY <1>3, <1>7 DEF vars, calls
<1>. QED  BY <1>1, <1>2, <1>4, <1>5, <1>6, <1>7 DEF Next

\* What a switch holds on to, broken off or not, and which statuses follow which.
THEOREM WaveInvariant == Spec => []WaveInv
  BY WaveStart, WaveStep, TypeCorrect, PTL DEF Spec

\* Walking starts with all legs on the ground: none lifts before the switch is over.
THEOREM WalksFromStand == Spec => []StartsFromStand
<1>1. WaveInv => StartsFromStand
  BY DEF WaveInv
<1>. QED  BY <1>1, WaveInvariant, PTL

\* Under supported gaits some leg always carries the robot unless it is passive.
THEOREM AlwaysCarried == Spec => []SomeLegCarries
<1>1. WaveInv => SomeLegCarries
  BY DEF WaveInv
<1>. QED  BY <1>1, WaveInvariant, PTL

\* GaitGenerator never divides by a swing time of zero.
THEOREM NoZeroSwing == Spec => []SwingTakesTime
<1>1. TypeOK /\ WaveInv => SwingTakesTime
  <2> SUFFICES ASSUME TypeOK, WaveInv, walk # "none", waveStatus = "WAVE_ALL",
                      NEW i \in Legs, contact[i] = 0
               PROVE  gait.stRatio < Den
    BY DEF SwingTakesTime
  <2>1. status # "SWING_ALL"
    BY DEF WaveInv, NoSwingToWave
  <2>2. ~ Full(gait)
    BY <2>1 DEF WaveInv, FullGaitStands, AllLegs
  <2>. QED  BY <2>2, GaitAssumption DEF Full, TypeOK, Gait
<1>. QED  BY <1>1, WaveInvariant, TypeCorrect, PTL

\* A switch between standing and legs in the air takes one call.
THEOREM StillAtOnce == Spec => StillIsImmediate
<1>1. TypeOK /\ WaveInv /\ [Next]_vars
        => [statusPast # "WAVE_ALL" /\ status' # "WAVE_ALL" /\ status' # status
              => contact' = calcWave(status', gait', now')]_vars
  <2> SUFFICES ASSUME TypeOK, WaveInv, Next, statusPast # "WAVE_ALL",
                      status' # "WAVE_ALL", status' # status
               PROVE  contact' = calcWave(status', gait', now')
    OBVIOUS
  <2>1. ASSUME NEW s \in WaveStatus, NEW g, NEW t, calcContactPhase(s, g, t)
        PROVE  contact' = calcWave(s, g, t)
    <3>1. status' = s
      BY <2>1 DEF calcContactPhase
    <3>2. statusPast \in {"STANCE_ALL", "SWING_ALL"} /\ s \in {"STANCE_ALL", "SWING_ALL"}
      BY <3>1 DEF TypeOK, WaveStatus
    <3>3. CASE s # statusPast
      <4>1. {s, statusPast} = {"STANCE_ALL", "SWING_ALL"}
        BY <3>2, <3>3
      <4>. QED  BY <2>1, <3>3, <4>1, CallDuringSwitch DEF Held
    <3>4. CASE s = statusPast
      <4>1. switching # {} => contactPast = calcWave(s, g, t)
        BY <3>2, <3>4 DEF WaveInv, HeldContacts, calcWave
      <4>. QED  BY <2>1, <3>4, <4>1, CallWithoutSwitch
    <3>. QED  BY <3>3, <3>4
  <2>2. CASE RunWaveGen
    <3>1. calcContactPhase(waveStatus, gait', now') /\ status' = waveStatus
      BY <2>2 DEF RunWaveGen, calcContactPhase
    <3>. QED  BY <3>1, <2>1 DEF TypeOK
  <2>3. CASE TransitionRun
    <3>1. calcContactPhase(waveStatus, gait', now') /\ status' = waveStatus
      BY <2>3 DEF TransitionRun, calcContactPhase
    <3>. QED  BY <3>1, <2>1 DEF TypeOK
  <2>. QED
    BY <2>2, <2>3 DEF Next, Still, GoStill, StartTrotting, GoTrotting, setGaitCmd, generator, calls
<1>. QED  BY <1>1, WaveInvariant, TypeCorrect, PTL DEF Spec, StillIsImmediate

-----------------------------------------------------------------------------
(* The trajectories                                                        *)

\* Every theorem about the wave generator holds with the trajectories on top of it.
THEOREM KeepsTheWave == GaitSpec => Spec
<1>1. GaitInit => Init
  BY DEF GaitInit
<1>2. [GaitNext]_gaitVars => [Next]_vars
  BY DEF GaitNext, Next, Tick, TickOfTransition, Stay, Walk, Command, gaitVars
<1> QED BY <1>1, <1>2, PTL DEF GaitSpec, Spec

InRange(f) == \A i \in Legs : f[i].num \in 0..f[i].den /\ f[i].den > 0

LEMMA HalfInRange == InRange([i \in Legs |-> Half])
  BY DEF InRange, Half, Fraction

LEMMA PhaseOfWave ==
  ASSUME NEW s, NEW g \in AllGaits, NEW t \in Nat
  PROVE  InRange(calcPhase(s, g, t))
<1> SUFFICES ASSUME NEW i \in Legs
             PROVE  LET f == calcPhase(s, g, t)[i] IN f.num \in 0..f.den /\ f.den > 0
  BY DEF InRange
<1>1. /\ g.period \in Nat \ {0} /\ g.stRatio \in 0..Den /\ g.bias[i] \in 0..Den
      /\ Den \in Nat \ {0}
  BY GaitAssumption DEF Gait
<1> DEFINE T == g.period
           a == t * Den + T * Den - T * g.bias[i]
           x == a % (T * Den)
<1>2. a \in Int /\ T * Den \in Nat \ {0}
  BY <1>1
<1>3. x \in 0..(T * Den - 1)
  <2> HIDE DEF a
  <2> QED BY <1>2
<1>4. normalT(i, g, t) = x
  BY DEF normalT
<1>5. InStance(i, g, t) <=> x < g.stRatio * T
  BY DEF InStance
<1>6. /\ g.stRatio * T \in Nat /\ (Den - g.stRatio) * T = T * Den - g.stRatio * T
      /\ T * Den \in Nat
  BY <1>1
<1> DEFINE f == calcPhase(s, g, t)[i]
<1>7. CASE s # "WAVE_ALL"
  <2>1. f = Half
    BY <1>7 DEF calcPhase
  <2> QED BY <2>1 DEF Half, Fraction
<1> DEFINE stance == g.stRatio * T
           cycle == T * Den
<1>8. CASE s = "WAVE_ALL" /\ x < stance
  <2>1. f = Fraction(x, stance)
    BY <1>8, <1>4, <1>5 DEF calcPhase
  <2>2. x \in 0..(cycle - 1) /\ stance \in Nat /\ cycle \in Nat
    BY <1>3, <1>6
  <2> HIDE DEF x, f, stance, cycle
  <2>3. f.num = x /\ f.den = stance
    BY <2>1 DEF Fraction
  <2>4. f.num \in 0..f.den /\ f.den > 0
    BY <1>8, <2>2, <2>3
  <2> QED BY <2>4 DEF f
<1>9. CASE s = "WAVE_ALL" /\ ~(x < stance)
  <2>1. f = Fraction(x - stance, (Den - g.stRatio) * T)
    BY <1>9, <1>4, <1>5 DEF calcPhase
  <2>2. x \in 0..(cycle - 1) /\ stance \in Nat /\ cycle \in Nat
        /\ (Den - g.stRatio) * T = cycle - stance
    BY <1>3, <1>6
  <2> HIDE DEF x, f, stance, cycle
  <2>3. f.num = x - stance /\ f.den = cycle - stance
    BY <2>1, <2>2 DEF Fraction
  <2>4. f.num \in 0..f.den /\ f.den > 0
    BY <1>9, <2>2, <2>3
  <2> QED BY <2>4 DEF f
<1> QED BY <1>7, <1>8, <1>9

PhaseInv == InRange(phase) /\ InRange(phasePast)

LEMMA HandOutKeepsPhases ==
  ASSUME PhaseInv, TypeOK', handOutPhases
  PROVE  PhaseInv'
<1>1. now' \in Nat /\ gait' \in AllGaits
  BY TimeAssumption DEF TypeOK
<1>2. InRange(phasePast')
  <2>1. CASE waveStatus = statusPast
    BY <2>1 DEF handOutPhases, PhaseInv
  <2>2. CASE waveStatus # statusPast
    BY <2>2, <1>1, PhaseOfWave DEF handOutPhases
  <2> QED BY <2>1, <2>2
<1>3. InRange(calcPhase(waveStatus, gait', now'))
  BY <1>1, PhaseOfWave
<1> DEFINE aim == calcWave(waveStatus, gait', now')
<1>4. phase' = [i \in Legs |-> IF contact'[i] = aim[i] THEN calcPhase(waveStatus, gait', now')[i]
                               ELSE phasePast'[i]]
  BY DEF handOutPhases
<1> HIDE DEF aim
<1>5. InRange(phase')
  BY <1>2, <1>3, <1>4 DEF InRange
<1> QED BY <1>2, <1>5 DEF PhaseInv, InRange

\* calcContactPhase: through every switch and retuning the phases handed to the estimator
\* and the trajectories lie between 0 and 1, for any legs, gaits and lateness.
THEOREM PhasesStayInRange == GaitSpec => []PhaseInRange
<1>1. GaitInit => PhaseInv
  BY HalfInRange DEF GaitInit, PhaseInv
<1>2. PhaseInv /\ TypeOK' /\ [GaitNext]_gaitVars => PhaseInv'
  <2> SUFFICES ASSUME PhaseInv, TypeOK', [GaitNext]_gaitVars PROVE PhaseInv'
    OBVIOUS
  <2>1. CASE handOutPhases
    BY <2>1, HandOutKeepsPhases
  <2>2. CASE UNCHANGED phases
    BY <2>2 DEF phases, PhaseInv, InRange
  <2>3. handOutPhases \/ UNCHANGED phases
    BY DEF GaitNext, Tick, TickOfTransition, Stay, Walk, Command, gaitVars, phases
  <2> QED BY <2>1, <2>2, <2>3
<1>3. PhaseInv => PhaseInRange
  BY DEF PhaseInv, InRange, PhaseInRange
<1> QED BY <1>1, <1>2, <1>3, KeepsTheWave, TypeCorrect, PTL DEF GaitSpec
-----------------------------------------------------------------------------
(* Time.  From one tick to the next a leg gets on by the slots between     *)
(* them, and starts again from 0 at the end of its cycle.                  *)

LEMMA DivMod ==
  ASSUME NEW a \in Int, NEW m \in Nat \ {0}
  PROVE  /\ a \div m \in Int /\ a % m \in 0..(m - 1)
         /\ a = m * (a \div m) + (a % m)
  OBVIOUS

LEMMA Durations ==
  ASSUME NEW g \in AllGaits
  PROVE  /\ g.period \in Nat \ {0} /\ g.stRatio \in 0..Den /\ Den \in Nat \ {0}
         /\ \A i \in Legs : g.bias[i] \in 0..Den
         /\ g.period * Den \in Nat \ {0}
         /\ Stance(g) \in Nat /\ Swing(g) \in Nat /\ Stance(g) + Swing(g) = g.period * Den
<1>1. /\ g.period \in Nat \ {0} /\ g.stRatio \in 0..Den /\ Den \in Nat \ {0}
      /\ \A i \in Legs : g.bias[i] \in 0..Den
  BY GaitAssumption DEF Gait
<1>2. g.period * Den \in Nat \ {0} /\ Stance(g) \in Nat /\ Swing(g) \in Nat
  BY <1>1 DEF Stance, Swing
<1>3. Stance(g) + Swing(g) = g.period * Den
  BY <1>1 DEF Stance, Swing
<1>. QED  BY <1>1, <1>2, <1>3

LEMMA TimeInCycle ==
  ASSUME NEW g \in AllGaits, NEW i \in Legs, NEW t \in Nat
  PROVE  /\ normalT(i, g, t) \in 0..(g.period * Den - 1)
         /\ InStance(i, g, t) <=> normalT(i, g, t) < Stance(g)
<1> DEFINE m == g.period * Den
           a == t * Den + m - g.period * g.bias[i]
<1>1. a \in Int /\ m \in Nat \ {0}
  BY Durations
<1>2. a % m \in 0..(m - 1)
  <2> HIDE DEF a, m
  <2>. QED  BY <1>1, DivMod
<1>. QED  BY <1>2 DEF normalT, InStance, Stance

\* Two legs of one bias move together.
LEMMA SameBias ==
  ASSUME NEW g, NEW i, NEW j, NEW t, g.bias[i] = g.bias[j]
  PROVE  normalT(i, g, t) = normalT(j, g, t)
  BY DEF normalT

LEMMA GetsOn ==
  ASSUME NEW g \in AllGaits, NEW i \in Legs, NEW t \in 0..(Cycle - 1), NEW d \in 1..Slip
  PROVE  \E k \in Nat : normalT(i, g, (t + d) % Cycle)
                          = normalT(i, g, t) + d * Den - k * (g.period * Den)
<1> DEFINE T == g.period
           m == T * Den
           u == (t + d) % Cycle
           a == t * Den + m - T * g.bias[i]
           b == u * Den + m - T * g.bias[i]
           x == a % m
           y == b % m
<1>1. /\ T \in Nat \ {0} /\ Den \in Nat \ {0} /\ m \in Nat \ {0} /\ g.bias[i] \in Nat
      /\ Cycle \in Nat \ {0} /\ t \in Nat /\ d \in Nat \ {0} /\ t + d \in Int
  BY Durations, TimeAssumption
<1>2. PICK q \in Int : t + d = Cycle * q + u /\ u \in 0..(Cycle - 1)
  BY <1>1, DivMod
<1>3. PICK c \in Int : Cycle = T * c
  <2>1. Cycle % T = 0
    BY TimeAssumption
  <2> HIDE DEF T
  <2>2. T \in Nat \ {0} /\ Cycle \in Int
    BY <1>1
  <2>3. Cycle = T * (Cycle \div T) + (Cycle % T) /\ Cycle \div T \in Int
    BY <2>2, DivMod
  <2> DEFINE c == Cycle \div T
  <2> HIDE DEF c
  <2>4. c \in Int /\ T * c \in Int /\ Cycle = T * c + 0
    BY <2>1, <2>2, <2>3 DEF c
  <2>5. Cycle = T * c
    BY <2>4
  <2>. QED  BY <2>4, <2>5
<1>4. a \in Int /\ b \in Int /\ u \in Nat
  BY <1>1, <1>2
<1>5. PICK n \in Int : a = m * n + x /\ x \in 0..(m - 1)
  <2> HIDE DEF a, m
  <2>. QED  BY <1>1, <1>4, DivMod
<1>6. PICK l \in Int : b = m * l + y /\ y \in 0..(m - 1)
  <2> HIDE DEF b, m
  <2>. QED  BY <1>1, <1>4, DivMod
<1>7. b = a + d * Den - m * (c * q)
  <2>1. u = t + d - (T * c) * q
    BY <1>1, <1>2, <1>3, <1>4
  <2> HIDE DEF u
  <2>2. u * Den = t * Den + d * Den - ((T * c) * q) * Den
    BY <1>1, <1>2, <1>3, <1>4, <2>1
  <2>3. ((T * c) * q) * Den = m * (c * q)
    BY <1>1, <1>2, <1>3
  <2>4. T * g.bias[i] \in Int /\ d * Den \in Int /\ t * Den \in Int /\ m * (c * q) \in Int
    BY <1>1, <1>2, <1>3
  <2>. QED  BY <1>1, <1>4, <2>2, <2>3, <2>4
<1> DEFINE k == c * q + l - n
<1>8. k \in Int
  BY <1>2, <1>3, <1>5, <1>6
<1> HIDE DEF a, b, x, y, m
<1>9. y = x + d * Den - k * m
  <2>1. m * l + y = m * n + x + d * Den - m * (c * q)
    BY <1>5, <1>6, <1>7
  <2>2. k * m = m * (c * q) + m * l - m * n
    BY <1>1, <1>2, <1>3, <1>5, <1>6
  <2>3. m * l \in Int /\ m * n \in Int /\ m * (c * q) \in Int /\ d * Den \in Int /\ k * m \in Int
    BY <1>1, <1>2, <1>3, <1>5, <1>6, <1>8
  <2> HIDE DEF k
  <2>. QED  BY <1>5, <1>6, <2>1, <2>2, <2>3
<1>10. k >= 0
  <2> HIDE DEF k
  <2>1. SUFFICES ASSUME k =< -1 PROVE FALSE
    BY <1>8
  <2>2. k * m =< -m
    BY <1>1, <1>8, <2>1
  <2>3. d * Den > 0
    BY <1>1
  <2>. QED  BY <1>1, <1>5, <1>6, <1>8, <1>9, <2>2, <2>3
<1>11. normalT(i, g, t) = x /\ normalT(i, g, u) = y
  BY DEF normalT, a, b, x, y, m
<1>. QED  BY <1>8, <1>9, <1>10, <1>11 DEF m

LEMMA NextTick ==
  ASSUME NEW g \in AllGaits, NEW i \in Legs, NEW t \in 0..(Cycle - 1), NEW d \in 1..Slip,
         NEW u, u = (t + d) % Cycle
  PROVE  /\ u \in 0..(Cycle - 1)
         /\ normalT(i, g, u) =< normalT(i, g, t) + Slip * Den
         /\ ~InStance(i, g, t) /\ InStance(i, g, u) => normalT(i, g, u) < Slip * Den
         /\ OnTime(g) /\ (InStance(i, g, t) <=> InStance(i, g, u))
              => normalT(i, g, t) + Den =< normalT(i, g, u)
<1> DEFINE m == g.period * Den
           x == normalT(i, g, t)
           y == normalT(i, g, u)
           e == d * Den
           late == Slip * Den
<1>1. t \in Nat /\ u \in 0..(Cycle - 1) /\ u \in Nat
  BY TimeAssumption
<1>2. /\ m \in Nat \ {0} /\ Den \in Nat \ {0} /\ e \in Nat /\ late \in Nat
      /\ Den =< e /\ e =< late
  BY Durations, TimeAssumption
<1>3. PICK k \in Nat : y = x + e - k * m
  BY GetsOn
<1>4. /\ x \in 0..(m - 1) /\ (InStance(i, g, t) <=> x < Stance(g))
      /\ y \in 0..(m - 1) /\ (InStance(i, g, u) <=> y < Stance(g))
  BY <1>1, TimeInCycle
<1>5. Stance(g) \in Nat /\ Swing(g) \in Nat /\ Stance(g) + Swing(g) = m
  BY Durations
<1>6. OnTime(g) => late =< Stance(g) /\ late =< Swing(g)
  BY DEF OnTime
<1> HIDE DEF m, x, y, e, late
<1>7. k * m \in Nat /\ (k # 0 => k * m >= m) /\ (k = 0 => k * m = 0)
  BY <1>2, <1>3
<1> DEFINE back == k * m
<1> HIDE DEF back
<1>8. /\ y = x + e - back /\ back \in Nat
      /\ k # 0 => back >= m
      /\ k = 0 => back = 0
  BY <1>3, <1>7 DEF back
<1>9. y =< x + late
  BY <1>2, <1>4, <1>8
<1>10. ~InStance(i, g, t) /\ InStance(i, g, u) => y < late
  BY <1>2, <1>4, <1>5, <1>8
<1>11. ASSUME OnTime(g), InStance(i, g, t) <=> InStance(i, g, u) PROVE x + Den =< y
  <2>1. CASE k = 0
    BY <1>2, <1>4, <1>8, <2>1
  <2>2. CASE k # 0
    <3>1. y =< x + late - m
      BY <1>2, <1>4, <1>8, <2>2
    <3>. QED  BY <1>2, <1>4, <1>5, <1>6, <1>11, <3>1
  <2>. QED  BY <2>1, <2>2
<1>. QED  BY <1>1, <1>9, <1>10, <1>11 DEF x, y, late

-----------------------------------------------------------------------------
(* Swings from a stand                                                     *)

\* A call that hands out the wave asked for is done with every switch.
LEMMA CallSettles ==
  ASSUME TypeOK, NEW s \in WaveStatus, NEW g, NEW t, calcContactPhase(s, g, t),
         contact' = calcWave(s, g, t)
  PROVE  switching' = {} /\ statusPast' = s
<1>1. CASE s # statusPast
  <2>1. /\ contact' = Held(s, statusPast, g, t)
        /\ statusPast' = IF switching' = {} THEN s ELSE statusPast
    BY <1>1, CallDuringSwitch
  <2>2. switching' = {}
    BY <1>1, <2>1 DEF calcContactPhase
  <2>. QED  BY <2>1, <2>2
<1>2. CASE s = statusPast
  <2>1. /\ contact' = IF switching = {} THEN calcWave(s, g, t) ELSE contactPast
        /\ statusPast' = s /\ switching' \in SUBSET switching
    BY <1>2, CallWithoutSwitch
  <2>2. switching # {} => switching' = {}
    BY <1>2, <2>1 DEF calcContactPhase
  <2>. QED  BY <2>1, <2>2
<1>. QED  BY <1>1, <1>2

LEMMA CallIsStatus ==
  ASSUME NEW s, NEW g, NEW t, calcContactPhase(s, g, t)
  PROVE  status' = s
  BY DEF calcContactPhase

LEMMA StandStep == TypeOK /\ StandSettles /\ [Next]_vars => StandSettles'
<1> SUFFICES ASSUME TypeOK, StandSettles, [Next]_vars PROVE StandSettles'
  OBVIOUS
<1>1. ASSUME NEW s \in WaveStatus, NEW g, NEW t, calcContactPhase(s, g, t)
      PROVE  StandSettles'
  <2>1. SUFFICES ASSUME status' = "STANCE_ALL", contact' = AllLegs
                 PROVE  statusPast' = "STANCE_ALL" /\ switching' = {}
    BY DEF StandSettles, AllLegs
  <2>2. s = "STANCE_ALL"
    BY <1>1, <2>1, CallIsStatus
  <2>3. contact' = calcWave(s, g, t)
    BY <2>1, <2>2 DEF calcWave
  <2>. QED  BY <1>1, <2>2, <2>3, CallSettles
<1>2. CASE RunWaveGen
  BY <1>1, <1>2 DEF RunWaveGen, TypeOK
<1>3. CASE TransitionRun
  BY <1>1, <1>3 DEF TransitionRun, TypeOK
<1>4. CASE UNCHANGED <<generator, status>>
  BY <1>4 DEF generator, StandSettles, AllLegs
<1>. QED
  BY <1>2, <1>3, <1>4 DEF Next, vars, calls, Still, GoStill, StartTrotting, GoTrotting, setGaitCmd

\* The first call of a walk, and those until no leg is waited for: all legs are on
\* the ground.
LEMMA WaitingCall ==
  ASSUME TypeOK, WaveInv, Waits, status \in {"STANCE_ALL", "WAVE_ALL"},
         NEW d \in 1..Slip, now' = (now + d) % Cycle, gait' = gait,
         calcContactPhase("WAVE_ALL", gait, now')
  PROVE  /\ status' = "WAVE_ALL" /\ contact' = AllLegs
         /\ Waits' \/ Strides'
<1> DEFINE aim == calcWave("WAVE_ALL", gait, now')
           legs == IF switching = {} THEN Legs ELSE switching
<1>1. Held("WAVE_ALL", statusPast, gait, now') = AllLegs
  BY DEF Held, calcWave, Waits
<1>2. /\ status' = "WAVE_ALL" /\ contact' = AllLegs
      /\ statusPast' = IF switching' = {} THEN "WAVE_ALL" ELSE "STANCE_ALL"
  BY <1>1, CallDuringSwitch DEF WaveStatus, Waits
<1>3. switching' = {i \in legs : aim[i] # 1}
  BY <1>1 DEF calcContactPhase, Waits, AllLegs, TypeOK
<1>4. \A i \in Legs : aim[i] = 1 <=> InStance(i, gait, now')
  BY DEF calcWave
<1>5. CASE switching' # {}
  <2>1. \A i \in switching' : ~InStance(i, gait, now')
    BY <1>3, <1>4 DEF TypeOK
  <2>2. Waits'
    BY <1>2, <1>5, <2>1 DEF Waits, AllLegs, InStance
  <2>. QED  BY <1>2, <2>2
<1>6. CASE switching' = {}
  <2>1. \A i \in legs : InStance(i, gait, now')
    BY <1>3, <1>4, <1>6 DEF TypeOK
  <2>2. ASSUME Alternating(gait), NEW i \in Legs
        PROVE  normalT(i, gait, now') < Stance(gait) + Slip * Den
    <3> DEFINE x == normalT(i, gait, now)
               y == normalT(i, gait, now')
    <3>1. /\ gait \in AllGaits /\ now \in 0..(Cycle - 1) /\ now \in Nat /\ now' \in Nat
          /\ Slip * Den \in Nat /\ Slip * Den > 0
      BY TimeAssumption, GaitAssumption DEF TypeOK
    <3>2. /\ x \in Nat /\ y \in Nat /\ Stance(gait) \in Nat
          /\ InStance(i, gait, now) <=> x < Stance(gait)
          /\ InStance(i, gait, now') <=> y < Stance(gait)
      BY <3>1, TimeInCycle, Durations
    <3>3. y =< x + Slip * Den
      BY <3>1, NextTick
    <3>4. CASE InStance(i, gait, now) \/ InStance(i, gait, now')
      BY <3>1, <3>2, <3>3, <3>4
    <3>5. CASE ~InStance(i, gait, now) /\ ~InStance(i, gait, now')
      <4>1. status = "WAVE_ALL"
        BY <2>1, <3>5 DEF Waits
      <4>2. PICK j \in switching : ~InStance(j, gait, now) /\ InStance(j, gait, now') /\ j \in Legs
        BY <2>1, <4>1 DEF Waits, TypeOK
      <4>3. gait.bias[i] = gait.bias[j]
        BY <2>2, <3>1, <3>5, <4>2 DEF Alternating
      <4>4. InStance(i, gait, now') <=> InStance(j, gait, now')
        BY <4>3 DEF InStance
      <4>. QED  BY <3>5, <4>2, <4>4
    <3>. QED  BY <3>4, <3>5
  <2>3. Strides'
    BY <1>2, <1>6, <2>2 DEF Strides, AllLegs, Alternating, normalT, Stance, InStance
  <2>. QED  BY <1>2, <2>3
<1>. QED  BY <1>5, <1>6

\* Every later call hands out the wave.
LEMMA StridingCall ==
  ASSUME TypeOK, Strides, gait' = gait, now' \in Nat,
         calcContactPhase("WAVE_ALL", gait, now')
  PROVE  /\ status' = "WAVE_ALL" /\ contact' = calcWave("WAVE_ALL", gait, now')
         /\ Strides'
<1>1. /\ contact' = calcWave("WAVE_ALL", gait, now') /\ status' = "WAVE_ALL"
      /\ statusPast' = "WAVE_ALL" /\ switching' = {}
  BY CallWithoutSwitch DEF Strides, WaveStatus
<1>2. ASSUME NEW i \in Legs, contact'[i] = 1
      PROVE  normalT(i, gait, now') < Stance(gait) + Slip * Den
  <2>1. InStance(i, gait, now')
    BY <1>1, <1>2 DEF calcWave
  <2>2. /\ normalT(i, gait, now') < Stance(gait) /\ normalT(i, gait, now') \in Int
        /\ Stance(gait) \in Nat /\ Slip * Den \in Nat
    BY <2>1, TimeInCycle, Durations, TimeAssumption, GaitAssumption DEF TypeOK
  <2>. QED  BY <2>2
<1>3. Strides'
  BY <1>1, <1>2 DEF Strides, AllLegs, calcWave, Alternating, normalT, Stance, InStance
<1>. QED  BY <1>1, <1>3

\* A leg that lands lands early in its stance, so startP is taken where it stands.
LEMMA LandsEarly ==
  ASSUME TypeOK, TypeOK', Strides, 2 * Slip * Den =< Stance(gait), waveStatus = "WAVE_ALL",
         NEW d \in 1..Slip, now' = (now + d) % Cycle, gait' = gait, handOutPhases,
         contact' = calcWave("WAVE_ALL", gait, now'),
         NEW i \in Legs, contact[i] = 0, contact'[i] = 1
  PROVE  Early(phase'[i])
<1> DEFINE y == normalT(i, gait, now')
<1>1. /\ gait \in AllGaits /\ now \in 0..(Cycle - 1) /\ now \in Nat /\ now' \in Nat
  BY TimeAssumption DEF TypeOK
<1>2. ~InStance(i, gait, now)
  BY DEF Strides, AllLegs, calcWave
<1>3. InStance(i, gait, now')
  BY DEF calcWave
<1>4. y < Slip * Den
  BY <1>1, <1>2, <1>3, NextTick
<1>5. y \in Nat /\ Stance(gait) \in Nat /\ Slip * Den \in Nat /\ 2 * Slip * Den = 2 * (Slip * Den)
  BY <1>1, TimeInCycle, Durations, TimeAssumption
<1>6. phase'[i] = calcPhase("WAVE_ALL", gait, now')[i]
  BY DEF handOutPhases
<1>7. phase'[i] = Fraction(y, Stance(gait))
  BY <1>3, <1>6 DEF calcPhase, Stance
<1> HIDE DEF y
<1>8. phase'[i].num = y /\ phase'[i].den = Stance(gait)
  BY <1>7 DEF Fraction
<1>9. 2 * y < 2 * (Slip * Den)
  BY <1>4, <1>5
<1>. QED  BY <1>5, <1>8, <1>9 DEF Early

LEMMA FromStandTick ==
  ASSUME TypeOK, TypeOK', WaveInv, FromStand, walk = "trotting", Tick
  PROVE  FromStand'
<1>1. PICK d \in 1..Slip : now' = (now + d) % Cycle
  BY DEF Tick, RunWaveGen
<1>2. /\ waveStatus = "WAVE_ALL" /\ waveStatus' = "WAVE_ALL" /\ walk' = "trotting"
      /\ gait' = gait /\ calcContactPhase("WAVE_ALL", gait, now')
      /\ handOutPhases /\ run(firstRun, contact', phase') /\ ~firstRun
  BY DEF Tick, RunWaveGen, CallInTick, FromStand
<1>3. ~firstRun' /\ stood' = contact' /\ sure' = sure
  BY <1>2 DEF run
<1>4. SUFFICES ASSUME sure
               PROVE  status' = "WAVE_ALL" /\ (Waits' \/ Strides') /\ SwingsFromWhereItStands'
  BY <1>2, <1>3 DEF FromStand, Waits, Strides, SwingsFromWhereItStands, Alternating, AllLegs,
                    Stance, normalT, InStance, calcWave
<1>5. /\ stood = contact /\ SwingsFromWhereItStands
      /\ status \in {"STANCE_ALL", "WAVE_ALL"}
      /\ Waits \/ Strides
  BY <1>4 DEF FromStand, TypeOK, WaveStatus
<1>6. startP' = [i \in Legs |->
         IF contact'[i] = 1 /\ Early(phase'[i]) THEN "here"
         ELSE IF contact'[i] = 1 /\ stood[i] = 0 THEN "left"
         ELSE startP[i]]
  BY <1>2 DEF run
<1>7. SUFFICES /\ status' = "WAVE_ALL" /\ (Waits' \/ Strides')
               /\ 2 * Slip * Den =< Stance(gait) =>
                    \A i \in Legs : contact[i] = 0 /\ contact'[i] = 1 => Early(phase'[i])
  BY <1>2, <1>4, <1>5, <1>6 DEF SwingsFromWhereItStands, Stance
<1>8. CASE Waits
  <2>1. status' = "WAVE_ALL" /\ (Waits' \/ Strides')
    BY <1>1, <1>2, <1>5, <1>8, WaitingCall
  <2>2. \A i \in Legs : contact[i] = 1
    BY <1>8 DEF Waits, AllLegs
  <2>. QED  BY <2>1, <2>2
<1>9. CASE Strides
  <2>1. now' \in Nat
    BY TimeAssumption DEF TypeOK
  <2>2. /\ status' = "WAVE_ALL" /\ Strides'
        /\ contact' = calcWave("WAVE_ALL", gait, now')
    BY <1>2, <1>9, <2>1, StridingCall
  <2>. QED  BY <1>1, <1>2, <1>9, <2>2, LandsEarly
<1>. QED  BY <1>5, <1>8, <1>9

LEMMA FromStandStep ==
  TypeOK /\ TypeOK' /\ WaveInv /\ StandSettles /\ FromStand /\ [GaitNext]_gaitVars => FromStand'
<1> SUFFICES ASSUME TypeOK, TypeOK', WaveInv, StandSettles, FromStand, [GaitNext]_gaitVars,
                    walk' = "trotting"
             PROVE  FromStand'
  BY DEF FromStand
<1>1. CASE Tick
  <2>1. walk = "trotting"
    BY <1>1 DEF Tick, RunWaveGen, CallInTick
  <2>. QED  BY <1>1, <2>1, FromStandTick
<1>2. CASE TickOfTransition
  <2>1. walk' = "transition"
    BY <1>2 DEF TickOfTransition, TransitionRun, CallInRun, GoTransition, WaveInv, FullGaitStands
  <2>. QED  BY <2>1
<1>3. CASE Walk
  <2>1. /\ waveStatus' = "WAVE_ALL" /\ status = "STANCE_ALL" /\ UNCHANGED <<generator, status>>
        /\ run(TRUE, contact, phase)
    BY <1>3 DEF Walk, StartTrotting, GoTrotting
  <2>2. ~firstRun' /\ stood' = contact' /\ (sure' <=> contact = AllLegs)
    BY <2>1 DEF run, generator
  <2>3. SUFFICES ASSUME contact = AllLegs PROVE Waits' /\ \A i \in Legs : startP'[i] = "here"
    BY <2>1, <2>2 DEF FromStand, generator, SwingsFromWhereItStands, Waits, AllLegs, InStance
  <2>4. statusPast = "STANCE_ALL" /\ switching = {}
    BY <2>1, <2>3 DEF StandSettles
  <2>5. Waits'
    BY <2>1, <2>3, <2>4 DEF Waits, generator, AllLegs
  <2>6. \A i \in Legs : startP'[i] = "here"
    BY <2>1, <2>3 DEF run, AllLegs
  <2>. QED  BY <2>5, <2>6
<1>4. CASE \E s \in {"STANCE_ALL", "SWING_ALL"} : Stay(s)
  BY <1>4 DEF Stay, Still, GoStill
<1>5. CASE (\E g \in Gaits : Command(g)) \/ UNCHANGED gaitVars
  <2>1. UNCHANGED <<generator, status, waveStatus, walk, firstRun, startP, stood, sure>>
    BY <1>5 DEF Command, setGaitCmd, trajectory, gaitVars, vars, calls
  <2>. QED
    BY <2>1 DEF FromStand, generator, Waits, Strides, SwingsFromWhereItStands, Alternating,
                AllLegs, Stance, normalT, InStance, calcWave
<1>. QED  BY <1>1, <1>2, <1>3, <1>4, <1>5 DEF GaitNext

LEMMA AlwaysFromStand ==
  GaitSpec => [](TypeOK /\ WaveInv /\ StandSettles /\ FromStand)
<1>1. GaitInit => StandSettles /\ FromStand
  BY DEF GaitInit, Init, CallInit, StandSettles, FromStand
<1>2. [GaitNext]_gaitVars => [Next]_vars
  BY DEF GaitNext, Next, Tick, TickOfTransition, Stay, Walk, Command, gaitVars
<1>3. TypeOK /\ TypeOK' /\ WaveInv /\ StandSettles /\ FromStand /\ [GaitNext]_gaitVars
        => StandSettles' /\ FromStand'
  BY <1>2, StandStep, FromStandStep
<1>. QED
  BY <1>1, <1>3, KeepsTheWave, TypeCorrect, WaveInvariant, PTL DEF GaitSpec

\* A walk from a stand first waits, all legs down, for those that would begin in
\* mid-swing, and then hands out the wave (calcContactPhase, GaitGenerator::run).
THEOREM WalksByTheWave == GaitSpec => []FromStand
<1>. QED  BY AlwaysFromStand, PTL

\* Every swing of such a walk starts where the leg stands or stood last.
THEOREM StartsWhereItStands == GaitSpec => []SwingsFromWhereItStands
<1>1. FromStand => SwingsFromWhereItStands
  BY DEF FromStand, SwingsFromWhereItStands
<1>. QED  BY <1>1, AlwaysFromStand, PTL

LEMMA LiftsEarly ==
  ASSUME TypeOK, TypeOK', Strides, Alternating(gait), waveStatus = "WAVE_ALL",
         NEW d \in 1..Slip, now' = (now + d) % Cycle, gait' = gait, handOutPhases,
         contact' = calcWave("WAVE_ALL", gait, now'),
         NEW i \in Legs, contact[i] = 1, contact'[i] = 0
  PROVE  phase'[i].num < 2 * Slip * Den
<1> DEFINE x == normalT(i, gait, now)
           y == normalT(i, gait, now')
           late == Slip * Den
<1>1. gait \in AllGaits /\ now \in 0..(Cycle - 1) /\ now \in Nat /\ now' \in Nat
  BY TimeAssumption DEF TypeOK
<1>2. ~InStance(i, gait, now')
  BY DEF calcWave
<1>3. x < Stance(gait) + late
  BY DEF Strides
<1>4. y =< x + late
  BY <1>1, NextTick
<1>5. x \in Nat /\ y \in Nat /\ Stance(gait) \in Nat /\ late \in Nat /\ 2 * Slip * Den = 2 * late
  BY <1>1, TimeInCycle, Durations, TimeAssumption
<1>6. phase'[i] = Fraction(y - Stance(gait), (Den - gait.stRatio) * gait.period)
  BY <1>2 DEF handOutPhases, calcPhase, Stance
<1> HIDE DEF x, y, late
<1>7. phase'[i].num = y - Stance(gait)
  BY <1>6 DEF Fraction
<1>. QED  BY <1>3, <1>4, <1>5, <1>7

\* In a gait whose legs take turns no leg lifts well into its swing: the first to lift
\* stood when the legs that were waited for came down.
THEOREM LiftsAtTheStart == GaitSpec => LiftsFromTheStart
<1>1. TypeOK /\ TypeOK' /\ WaveInv /\ FromStand /\ [GaitNext]_gaitVars
        => [walk = "trotting" /\ sure /\ gait \in AlternatingGaits =>
              \A i \in Legs : contact[i] = 1 /\ contact'[i] = 0 =>
                phase'[i].num < 2 * Slip * Den]_gaitVars
  <2> SUFFICES ASSUME TypeOK, TypeOK', WaveInv, FromStand, GaitNext, walk = "trotting", sure,
                      gait \in AlternatingGaits,
                      NEW i \in Legs, contact[i] = 1, contact'[i] = 0
               PROVE  phase'[i].num < 2 * Slip * Den
    OBVIOUS
  <2>1. Tick
    <3>1. ~TickOfTransition
      BY DEF TickOfTransition, TransitionRun, CallInRun, GoTransition, WaveInv, FullGaitStands,
             FromStand
    <3>2. contact' # contact
      OBVIOUS
    <3>. QED
      BY <3>1, <3>2 DEF GaitNext, Stay, Still, Walk, StartTrotting, Command,
         setGaitCmd, generator
  <2>2. PICK d \in 1..Slip : now' = (now + d) % Cycle
    BY <2>1 DEF Tick, RunWaveGen
  <2>3. /\ waveStatus = "WAVE_ALL" /\ gait' = gait /\ handOutPhases
        /\ calcContactPhase("WAVE_ALL", gait, now')
    BY <2>1 DEF Tick, RunWaveGen, CallInTick, FromStand
  <2>4. (Waits \/ Strides) /\ status \in {"STANCE_ALL", "WAVE_ALL"}
    BY DEF FromStand, TypeOK, WaveStatus
  <2>5. ~Waits
    <3>1. Waits => contact' = AllLegs
      BY <2>2, <2>3, <2>4, WaitingCall
    <3>. QED  BY <3>1 DEF AllLegs
  <2>6. contact' = calcWave("WAVE_ALL", gait, now')
    <3>1. now' \in Nat
      BY TimeAssumption DEF TypeOK
    <3>. QED  BY <2>3, <2>4, <2>5, <3>1, StridingCall
  <2>7. Alternating(gait)
    BY DEF AlternatingGaits
  <2>. QED  BY <2>2, <2>3, <2>4, <2>5, <2>6, <2>7, LiftsEarly
<1>. QED  BY <1>1, AlwaysFromStand, PTL DEF GaitSpec, LiftsFromTheStart

-----------------------------------------------------------------------------
(* The end of a switch                                                     *)

\* The legs a call leaves switching are those whose wave is not yet where they are
\* to be released; between the still statuses there are none.
LEMMA LateLegs ==
  ASSUME TypeOK, WaveInv, NEW s \in WaveStatus, s = "WAVE_ALL" => status # "SWING_ALL",
         calcContactPhase(s, gait', now')
  PROVE  /\ statusPast' # s => switching' # {}
         /\ switching' # {} => s = "WAVE_ALL" \/ statusPast' # s
         /\ \A i \in switching' : i \in Legs /\
              IF Awaited(i)' = 1 THEN ~InStance(i, gait', now') ELSE InStance(i, gait', now')
<1> DEFINE aim  == calcWave(s, gait', now')
           legs == IF s # statusPast /\ switching = {} THEN Legs ELSE switching
<1>1. status' = s /\ switching' \subseteq Legs /\ statusPast \in WaveStatus
  BY CallIsStatus, CallType DEF TypeOK
<1>2. switching' = {i \in legs : aim[i] # contactPast'[i]}
  BY DEF calcContactPhase
<1>3. calcWave("STANCE_ALL", gait', now') = AllLegs /\ calcWave("SWING_ALL", gait', now') = NoLegs
  BY DEF calcWave
<1>4. \A i \in Legs : calcWave("WAVE_ALL", gait', now')[i]
                        = IF InStance(i, gait', now') THEN 1 ELSE 0
  BY DEF calcWave
<1>5. s = "WAVE_ALL" => statusPast # "SWING_ALL"
  BY DEF WaveInv, NoSwingToWave
<1>6. \A i : Awaited(i)' = IF s = "WAVE_ALL" THEN contactPast'[i] ELSE aim[i]
  BY <1>1 DEF Awaited
<1>7. CASE s = statusPast
  <2>1. /\ contactPast' = contactPast /\ statusPast' = s
        /\ switching' \in SUBSET switching
    BY <1>7, CallWithoutSwitch
  <2>2. CASE s = "WAVE_ALL"
    <3>1. \A i \in Legs : contactPast[i] \in {0, 1}
      BY DEF TypeOK, Contacts
    <3>. QED  BY <1>1, <1>2, <1>4, <1>6, <2>1, <2>2, <3>1
  <2>3. CASE s # "WAVE_ALL"
    <3>1. switching # {} => contactPast = aim
      BY <1>1, <1>3, <1>7, <2>3 DEF WaveInv, HeldContacts, WaveStatus
    <3>2. switching' = {}
      BY <1>2, <2>1, <3>1
    <3>. QED  BY <2>1, <3>2
  <2>. QED  BY <2>2, <2>3
<1>8. CASE s # statusPast
  <2>1. /\ contactPast' = Held(s, statusPast, gait', now')
        /\ statusPast' = IF switching' = {} THEN s ELSE statusPast
    BY <1>8, CallDuringSwitch
  <2>2. CASE s = "WAVE_ALL"
    <3>1. contactPast' = AllLegs
      BY <1>1, <1>3, <1>5, <1>8, <2>1, <2>2 DEF Held, WaveStatus
    <3>. QED  BY <1>1, <1>2, <1>4, <1>6, <2>1, <2>2, <3>1 DEF AllLegs
  <2>3. CASE s # "WAVE_ALL" /\ statusPast = "WAVE_ALL"
    <3>1. contactPast' = calcWave("WAVE_ALL", gait', now')
      BY <2>1, <2>3 DEF Held
    <3>2. aim \in {AllLegs, NoLegs}
      BY <1>3, <2>3 DEF WaveStatus
    <3>. QED  BY <1>1, <1>2, <1>4, <1>6, <2>1, <2>3, <3>1, <3>2 DEF AllLegs, NoLegs
  <2>4. CASE s # "WAVE_ALL" /\ statusPast # "WAVE_ALL"
    <3>1. {s, statusPast} = {"STANCE_ALL", "SWING_ALL"}
      BY <1>1, <1>8, <2>4 DEF WaveStatus
    <3>2. contactPast' = aim
      BY <2>1, <3>1 DEF Held
    <3>3. switching' = {}
      BY <1>2, <3>2
    <3>. QED  BY <2>1, <3>3
  <2>. QED  BY <2>2, <2>3, <2>4
<1>. QED  BY <1>7, <1>8

\* A call with the status of the one before releases legs and flags none, and those it
\* leaves wait for what they waited for.
LEMMA KeptLegs ==
  ASSUME TypeOK, WaveInv, SwitchInv, NEW s \in WaveStatus, s = status,
         calcContactPhase(s, gait', now'), NEW i \in switching'
  PROVE  i \in switching /\ Awaited(i)' = Awaited(i)
<1>1. status' = s /\ statusPast \in WaveStatus
  BY CallIsStatus DEF TypeOK
<1>2. i \in switching
  BY DEF calcContactPhase, SwitchInv
<1>3. i \in Legs
  BY <1>2 DEF TypeOK
<1>4. CASE s # "WAVE_ALL"
  BY <1>1, <1>2, <1>3, <1>4 DEF Awaited, calcWave, WaveStatus, AllLegs, NoLegs
<1>5. CASE s = "WAVE_ALL" /\ s = statusPast
  <2>1. contactPast' = contactPast
    BY <1>5, CallWithoutSwitch
  <2>. QED  BY <1>1, <1>2, <1>5, <2>1 DEF Awaited
<1>6. CASE s = "WAVE_ALL" /\ s # statusPast
  <2>1. statusPast = "STANCE_ALL"
    BY <1>1, <1>6 DEF WaveInv, NoSwingToWave, WaveStatus
  <2>2. contactPast = AllLegs
    BY <1>2, <2>1 DEF WaveInv, HeldContacts
  <2>3. contactPast' = AllLegs
    BY <1>6, <2>1, CallDuringSwitch DEF Held, calcWave
  <2>. QED  BY <1>1, <1>2, <1>6, <2>2, <2>3 DEF Awaited
<1>. QED  BY <1>4, <1>5, <1>6

\* Two ticks before the period is over nobody is waited for.
LEMMA WaitBound ==
  ASSUME TypeOK, SwitchInv, held \in Nat, OnTime(gait), switching # {}
  PROVE  held + 2 =< Patience
<1>1. gait \in AllGaits /\ now \in Nat
  BY TimeAssumption DEF TypeOK
<1> DEFINE T == gait.period
           m == T * Den
           late == Slip * Den
<1>2. /\ T \in Nat \ {0} /\ Den \in Nat \ {0} /\ m \in Nat \ {0} /\ late \in Nat
      /\ Den =< late
      /\ Stance(gait) \in Nat /\ Swing(gait) \in Nat /\ Stance(gait) + Swing(gait) = m
      /\ late =< Stance(gait) /\ late =< Swing(gait)
  BY <1>1, Durations, TimeAssumption DEF OnTime
<1>3. held * Den + Den < m
  <2>1. CASE statusPast = status /\ status # "WAVE_ALL"
    <3>1. held * Den = 0
      BY <1>2, <2>1 DEF SwitchInv
    <3>. QED  BY <1>2, <3>1
  <2>2. CASE ~(statusPast = status /\ status # "WAVE_ALL")
    <3>1. PICK i \in switching : OnTheWay(i)
      BY <2>2 DEF SwitchInv
    <3> DEFINE x == normalT(i, gait, now)
               w == held * Den
    <3>2. x \in 0..(m - 1)
      BY <1>1, <3>1, TimeInCycle DEF TypeOK
    <3>3. w \in Nat
      BY <1>2
    <3>4. (Stance(gait) + w =< x) \/ (w =< x /\ x < Stance(gait))
      BY <3>1 DEF OnTheWay
    <3> HIDE DEF x, w, m, late
    <3>5. w + Den < m
      BY <1>2, <3>2, <3>3, <3>4
    <3>. QED  BY <3>5 DEF w
  <2>. QED  BY <2>1, <2>2
<1>4. T >= held + 2
  <2> HIDE DEF T
  <2>1. SUFFICES ASSUME T =< held + 1 PROVE FALSE
    BY <1>2
  <2>2. T * Den =< (held + 1) * Den
    BY <1>2, <2>1
  <2>3. (held + 1) * Den = held * Den + Den
    BY <1>2
  <2>4. T * Den \in Nat /\ held * Den \in Nat
    BY <1>2
  <2>. QED  BY <1>2, <1>3, <2>2, <2>3, <2>4
<1>. QED  BY <1>2, <1>4 DEF Patience

\* A call, on time or late, that finds the same status and gait brings the legs waited
\* for nearer; any other starts the count anew.
LEMMA SwitchCall ==
  ASSUME TypeOK, TypeOK', WaveInv, SwitchInv, held \in Nat,
         NEW s \in WaveStatus, s = "WAVE_ALL" => status # "SWING_ALL",
         calcContactPhase(s, gait', now'), held_step,
         now' = now \/ (~due /\ \E d \in 1..Slip : now' = (now + d) % Cycle)
  PROVE  SwitchInv'
<1>1. /\ status' = s /\ gait' \in AllGaits /\ now' \in Nat /\ now \in 0..(Cycle - 1)
      /\ now \in Nat /\ Den \in Nat \ {0} /\ gait \in AllGaits /\ gait'.period \in Nat \ {0}
  BY CallIsStatus, Durations, TimeAssumption DEF TypeOK
<1>2. /\ statusPast' # s => switching' # {}
      /\ switching' # {} => s = "WAVE_ALL" \/ statusPast' # s
      /\ \A i \in switching' : i \in Legs /\
           IF Awaited(i)' = 1 THEN ~InStance(i, gait', now') ELSE InStance(i, gait', now')
  BY LateLegs
<1>3. \A i \in switching' :
        /\ normalT(i, gait', now') \in Nat
        /\ InStance(i, gait', now') <=> normalT(i, gait', now') < Stance(gait')
        /\ Stance(gait') \in Nat
  BY <1>1, <1>2, TimeInCycle, Durations
<1>4. CASE status' # status \/ gait' # gait
  <2>1. held' = 0 /\ held' * Den = 0
    BY <1>1, <1>4 DEF held_step
  <2>2. \A i \in switching' : OnTheWay(i)'
    BY <1>2, <1>3, <2>1 DEF OnTheWay
  <2>3. ~(held' >= Patience')
    BY <1>1, <2>1 DEF Patience
  <2>. QED  BY <1>1, <1>2, <2>1, <2>2, <2>3 DEF SwitchInv
<1>5. CASE status' = status /\ gait' = gait
  <2>1. /\ held' \in {held, held + 1}
        /\ held' = held \/ (now' # now /\ ~due)
    BY <1>5 DEF held_step, Ticked
  <2>2. ASSUME OnTime(gait), NEW i \in switching' PROVE OnTheWay(i)'
    <3> DEFINE x == normalT(i, gait, now)
               y == normalT(i, gait, now')
               w == held * Den
               v == held' * Den
    <3>1. i \in switching /\ i \in Legs /\ Awaited(i)' = Awaited(i)
      BY <1>1, <1>2, <1>5, <2>2, KeptLegs
    <3>2. ~(statusPast = status /\ status # "WAVE_ALL")
      <4>1. ASSUME statusPast = status, status # "WAVE_ALL" PROVE FALSE
        <5>1. statusPast' = s
          BY <1>1, <1>5, <4>1, CallWithoutSwitch
        <5>. QED  BY <1>1, <1>2, <1>5, <2>2, <4>1, <5>1
      <4>. QED  BY <4>1
    <3>3. OnTheWay(i)
      BY <2>2, <3>1, <3>2 DEF SwitchInv
    <3>4. /\ x \in Nat /\ y \in Nat /\ Stance(gait) \in Nat
          /\ InStance(i, gait, now) <=> x < Stance(gait)
          /\ InStance(i, gait, now') <=> y < Stance(gait)
      BY <1>1, <3>1, TimeInCycle, Durations
    <3>5. w \in Nat /\ (held' = held => v = w) /\ (held' = held + 1 => v = w + Den)
      BY <1>1
    <3>6. IF Awaited(i) = 1 THEN Stance(gait) + w =< x /\ ~InStance(i, gait, now')
                            ELSE w =< x /\ x < Stance(gait) /\ InStance(i, gait, now')
      BY <1>2, <1>5, <2>2, <3>1, <3>3 DEF OnTheWay
    <3>7. InStance(i, gait, now) <=> InStance(i, gait, now')
      BY <3>4, <3>5, <3>6
    <3>8. now' # now => x + Den =< y
      BY <1>1, <2>2, <3>1, <3>7, NextTick
    <3>9. now' = now => y = x
      OBVIOUS
    <3> HIDE DEF x, y, w, v
    <3>10. IF Awaited(i) = 1 THEN Stance(gait) + v =< y ELSE v =< y /\ y < Stance(gait)
      BY <1>1, <2>1, <3>4, <3>5, <3>6, <3>8, <3>9
    <3>. QED  BY <1>5, <3>1, <3>10 DEF OnTheWay, x, y, w, v, Stance, normalT
  <2>3. ASSUME OnTime(gait), held' >= Patience
        PROVE  contact' = calcWave(status', gait', now')
    <3>1. switching = {}
      <4>1. switching # {} => held + 2 =< Patience
        BY <2>3, WaitBound
      <4>. QED  BY <1>1, <1>5, <2>1, <2>3, <4>1 DEF Patience
    <3>2. statusPast = s
      BY <1>1, <1>5, <3>1 DEF SwitchInv
    <3>. QED  BY <1>1, <3>1, <3>2, CallWithoutSwitch
  <2>4. Patience' = Patience /\ (OnTime(gait)' <=> OnTime(gait))
    BY <1>5 DEF Patience, OnTime, Stance, Swing
  <2>. QED  BY <1>1, <1>2, <2>2, <2>3, <2>4 DEF SwitchInv
<1>. QED  BY <1>4, <1>5

LEMMA SwitchStep ==
  TypeOK /\ TypeOK' /\ WaveInv /\ SwitchInv /\ held \in Nat /\ [SwitchNext]_<<gaitVars, held>>
    => SwitchInv' /\ held' \in Nat
<1> SUFFICES ASSUME TypeOK, TypeOK', WaveInv, SwitchInv, held \in Nat,
                    [SwitchNext]_<<gaitVars, held>>
             PROVE  SwitchInv' /\ held' \in Nat
  OBVIOUS
<1>1. held' \in Nat
  BY DEF SwitchNext, held_step
<1>2. CASE RunWaveGen /\ held_step
  <2>1. /\ calcContactPhase(waveStatus, gait', now') /\ ~due
        /\ \E d \in 1..Slip : now' = (now + d) % Cycle
    BY <1>2 DEF RunWaveGen, CallInTick
  <2>2. waveStatus \in WaveStatus /\ (waveStatus = "WAVE_ALL" => status # "SWING_ALL")
    BY DEF TypeOK, WaveInv, NoSwingToWave
  <2>. QED  BY <1>1, <1>2, <2>1, <2>2, SwitchCall
<1>3. CASE TransitionRun /\ held_step
  <2>1. calcContactPhase(waveStatus, gait', now') /\ now' = now
    BY <1>3 DEF TransitionRun
  <2>2. waveStatus \in WaveStatus /\ status # "SWING_ALL"
    BY <1>3 DEF TransitionRun, CallInRun, GoTransition, TypeOK, WaveInv, NoSwingToWave, FullGaitStands
  <2>. QED  BY <1>1, <1>3, <2>1, <2>2, SwitchCall
<1>4. CASE UNCHANGED <<generator, status>> /\ (held_step \/ UNCHANGED held)
  <2>1. held' = held
    BY <1>4 DEF generator, held_step, Ticked
  <2>. QED
    BY <1>1, <1>4, <2>1 DEF generator, SwitchInv, OnTheWay, Awaited, OnTime, Patience,
       Stance, Swing, normalT, calcWave, InStance, AllLegs, NoLegs
<1>. QED
  BY <1>2, <1>3, <1>4 DEF SwitchNext, GaitNext, Tick, TickOfTransition, Stay, Still, GoStill,
     Walk, StartTrotting, GoTrotting, Command, setGaitCmd, gaitVars, vars, calls

\* What the legs of a switch that is under way wait for, and how far they have got.
THEOREM SwitchInvariant == SwitchSpec => []SwitchInv /\ [](held \in Nat)
<1> DEFINE Counted == held \in Nat
<1>1. SwitchInit => SwitchInv /\ Counted
  <2>1. Trot.period \in Nat \ {0}
    BY Durations DEF AllGaits
  <2>. QED  BY <2>1 DEF SwitchInit, GaitInit, Init, CallInit, SwitchInv, Patience
<1>2. SwitchInit => GaitInit
  BY DEF SwitchInit
<1>3. [SwitchNext]_<<gaitVars, held>> => [GaitNext]_gaitVars
  BY DEF SwitchNext
<1>4. SwitchSpec => GaitSpec
  BY <1>2, <1>3, PTL DEF SwitchSpec, GaitSpec
<1>5. TypeOK /\ TypeOK' /\ WaveInv /\ SwitchInv /\ Counted /\ [SwitchNext]_<<gaitVars, held>>
        => SwitchInv' /\ Counted'
  BY SwitchStep
<1> HIDE DEF Counted
<1>6. SwitchSpec => []SwitchInv /\ []Counted
  BY <1>1, <1>4, <1>5, KeepsTheWave, TypeCorrect, WaveInvariant, PTL DEF SwitchSpec
<1>. QED  BY <1>6, PTL DEF Counted

\* A switch is over within a period, for any gaits that are on time and any lateness:
\* calcContactPhase never holds a leg for good.
THEOREM SwitchesEnd == SwitchSpec => []SwitchEnds
<1>1. TypeOK /\ SwitchInv /\ held \in Nat => SwitchEnds
  <2> SUFFICES ASSUME TypeOK, SwitchInv, held \in Nat, held >= Patience, OnTime(gait)
               PROVE  /\ statusPast = status /\ switching = {}
                      /\ contact = calcWave(status, gait, now)
    BY DEF SwitchEnds
  <2>1. Patience \in Nat
    BY Durations DEF Patience, TypeOK
  <2>2. switching = {}
    BY <2>1, WaitBound
  <2>. QED  BY <2>2 DEF SwitchInv
<1>2. SwitchInit => GaitInit
  BY DEF SwitchInit
<1>3. [SwitchNext]_<<gaitVars, held>> => [GaitNext]_gaitVars
  BY DEF SwitchNext
<1>4. SwitchSpec => GaitSpec
  BY <1>2, <1>3, PTL DEF SwitchSpec, GaitSpec
<1>. QED  BY <1>1, <1>4, SwitchInvariant, KeepsTheWave, TypeCorrect, PTL
=============================================================================
