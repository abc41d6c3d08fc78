---------------------------- MODULE Drive_proofs ----------------------------
(***************************************************************************)
(* A robot left alone holds its place, and a foothold stands still while   *)
(* nothing changes, for every tick, filter, limit and gain, and for walks  *)
(* of any length.  DriveInv is the inductive invariant.                    *)
(***************************************************************************)
EXTENDS Drive, Rational_proofs

Users    == [v : Fraction, w : Fraction, past : Fraction]
Bodies   == [x : Fraction, v : Fraction, yaw : Fraction, w : Fraction]
Commands == [pcd : Fraction, v : Fraction, yaw : Fraction, w : Fraction]

\* What is kept near a fraction is one.
LEMMA NearIsFraction ==
  ASSUME NEW a \in Fraction, NEW b \in Fraction, NEW s \in Fraction
  PROVE  Near(a, b, s) \in Fraction
  BY Closed DEF Near, saturation

\* What is near enough to a to be left alone leaves a alone.
LEMMA NearBack ==
  ASSUME NEW a \in Fraction, NEW b \in Fraction, NEW s \in Fraction, Near(b, a, s) = b
  PROVE  Near(a, b, s) = a
<1>1. /\ Minus(a, s) \in Fraction /\ Plus(a, s) \in Fraction
      /\ Minus(b, s) \in Fraction /\ Plus(b, s) \in Fraction
  BY Closed
<1>2. ~Less(b, Minus(a, s)) /\ ~Less(Plus(a, s), b)
  BY <1>1, LessIrreflexive DEF Near, saturation
<1>3. ~Less(Plus(b, s), a) /\ ~Less(a, Minus(b, s))
  BY <1>2, LessShifts
<1>. QED  BY <1>3 DEF Near, saturation

\* What a stick asks for is a fraction.
LEMMA AskedIsFraction ==
  ASSUME NEW value \in Sticks
  PROVE  /\ Asked(value) \in Fraction
         /\ invNormalize(value.ly, vxLim) \in Fraction
<1>1. value.ly \in Fraction /\ value.rx \in Fraction
  BY NumbersAssumption
<1>2. vxLim \in Fraction /\ wyawLim \in Fraction
  BY NumbersAssumption
<1>. QED  BY <1>1, <1>2, Closed DEF Asked, invNormalize, Opposite

\* A stick makes a command (State_Trotting::getUserCmd).
LEMMA StickIsUser ==
  ASSUME TypeOK, NEW value \in Sticks
  PROVE  getUserCmd(value) \in Users
<1>1. Keep \in Fraction /\ dYawCmdPast \in Fraction
  BY NumbersAssumption DEF TypeOK
<1>. QED  BY <1>1, AskedIsFraction, Closed DEF getUserCmd, Users

\* So does a twist, half of it stored or all (State_move_base::getUserCmd), and leaves
\* the filter of TROTTING alone.
LEMMA TwistIsUser ==
  ASSUME TypeOK, NEW user \in setHighCmd
  PROVE  user \in Users /\ user.past = dYawCmdPast
<1>1. /\ twist.vx \in Fraction /\ twist.wz \in Fraction /\ dYawCmdPast \in Fraction
      /\ \A m \in arriving : m.vx \in Fraction /\ m.wz \in Fraction
  BY DEF TypeOK
<1>. QED  BY <1>1 DEF setHighCmd, Users

\* A motion moves the body to where a body can be.
LEMMA MovedIsBody ==
  ASSUME TypeOK, NEW d \in 1..Slip, NEW m \in Motions
  PROVE  Moved(d, m) \in Bodies
<1>1. body.x \in Fraction /\ body.yaw \in Fraction /\ m.v \in Fraction /\ m.w \in Fraction
  BY NumbersAssumption DEF TypeOK
<1>2. <<d, 1>> \in Fraction /\ dt \in Fraction
  BY WholeIs, NumbersAssumption, TimesAssumption
<1>. QED  BY <1>1, <1>2, Closed DEF Moved, Bodies

\* calcCmd's goal is one, whatever the user asks for.
LEMMA CalcCmdIsCommand ==
  ASSUME TypeOK, state # "FIXEDSTAND", NEW user \in Users, NEW facing \in Fraction, NEW b \in Bodies
  PROVE  calcCmd(user, facing, b) \in Commands
<1>1. /\ user.v \in Fraction /\ user.w \in Fraction /\ b.x \in Fraction /\ b.v \in Fraction
      /\ cmd.pcd \in Fraction /\ cmd.yaw \in Fraction
  BY DEF TypeOK, Users, Bodies
<1>2. vSlack \in Fraction /\ pSlack \in Fraction /\ dt \in Fraction
  BY NumbersAssumption
<1>3. Near(Times(facing, user.v), b.v, vSlack) \in Fraction
  BY <1>1, <1>2, Closed, NearIsFraction
<1>. DEFINE v == Near(Times(facing, user.v), b.v, vSlack)
<1>. HIDE DEF v
<1>4. v \in Fraction
  BY <1>3 DEF v
<1>5. Near(Plus(cmd.pcd, Times(v, dt)), b.x, pSlack) \in Fraction
  BY <1>1, <1>2, <1>4, Closed, NearIsFraction
<1>6. Plus(cmd.yaw, Times(user.w, dt)) \in Fraction
  BY <1>1, <1>2, Closed
<1>. QED  BY <1>1, <1>4, <1>5, <1>6 DEF calcCmd, Commands, v

\* The clock stays within the cycle, and runs on until the cycle is over.
LEMMA ClockRuns ==
  ASSUME clock \in 0..(Tstance + Tswing - 1), NEW d \in 1..Slip,
         NEW c, c = (clock + d) % (Tstance + Tswing)
  PROVE  /\ c \in 0..(Tstance + Tswing - 1)
         /\ clock + d < Tstance + Tswing => c = clock + d
<1>1. /\ Tstance \in Nat /\ Tswing \in Nat /\ Tstance > 0 /\ Tswing > 0
      /\ clock + d \in Nat
  BY TimesAssumption
<1>2. c \in 0..(Tstance + Tswing - 1)
  BY <1>1
<1>3. CASE clock + d < Tstance + Tswing
  <2>1. c = clock + d
    BY <1>1, <1>3
  <2>. QED  BY <1>2, <2>1
<1>. QED  BY <1>2, <1>3

\* The rest of a swing, and half a stance.
toGo(c) == Plus(Times(Minus(One, phase(c)), getTswing), Over(getTstance, <<2, 1>>))

\* Half a stance takes a fraction of time.
LEMMA HalfStance == Over(getTstance, <<2, 1>>) \in Fraction
<1>1. Frac(1, 2) \in Fraction
  BY FracFits
<1>2. <<Tstance, 1>> \in Fraction /\ dt \in Fraction
  BY WholeIs, TimesAssumption, NumbersAssumption
<1>. QED  BY <1>1, <1>2, Closed DEF Over, getTstance

\* The rest of a swing takes the time of the slots it has.
LEMMA SwingIs ==
  ASSUME NEW c \in Int
  PROVE  /\ Times(Minus(One, phase(c)), getTswing) \in Fraction
         /\ Is(Times(Minus(One, phase(c)), getTswing),
               (Tswing - (c - Tstance)) * (Tswing * dt[1]), Tswing * dt[2])
<1>1. /\ Tstance \in Int /\ Tswing \in Int /\ Tswing # 0 /\ dt \in Fraction
      /\ dt[1] \in Int /\ dt[2] \in Int /\ Is(dt, dt[1], dt[2])
  BY TimesAssumption, NumbersAssumption, FractionParts
<1>2. c - Tstance \in Int
  BY <1>1
<1>3. phase(c) \in Fraction /\ Is(phase(c), c - Tstance, Tswing)
  BY <1>1, <1>2, FracFits DEF phase
<1>4. One \in Fraction /\ Is(One, 1, 1)
  BY ZeroIs
<1>5. /\ Minus(One, phase(c)) \in Fraction
      /\ Is(Minus(One, phase(c)), (1 * Tswing) - ((c - Tstance) * 1), 1 * Tswing)
  BY <1>1, <1>2, <1>3, <1>4, MinusIs
<1>6. (1 * Tswing) - ((c - Tstance) * 1) = Tswing - (c - Tstance) /\ 1 * Tswing = Tswing
  BY <1>1
<1>7. <<Tswing, 1>> \in Fraction /\ Is(<<Tswing, 1>>, Tswing, 1)
  BY <1>1, WholeIs
<1>8. getTswing \in Fraction /\ Is(getTswing, Tswing * dt[1], 1 * dt[2])
  BY <1>1, <1>7, TimesIs, TimesParts DEF getTswing
<1>9. 1 * dt[2] = dt[2] /\ Tswing * dt[1] \in Int /\ Tswing - (c - Tstance) \in Int
  BY <1>1
<1>. QED  BY <1>1, <1>5, <1>6, <1>8, <1>9, TimesIs, TimesParts

\* So does the rest of a swing and half a stance.
LEMMA ToGoIsFraction == \A c \in Int : toGo(c) \in Fraction
  BY SwingIs, HalfStance, Closed DEF toGo

\* What the ticks have used up is no longer to go.
LEMMA ToGoShrinks ==
  ASSUME NEW c \in Int, NEW d \in Int
  PROVE  toGo(c) = Plus(Times(<<d, 1>>, dt), toGo(c + d))
<1>. DEFINE k == dt[1] l == dt[2]
            s == Times(Minus(One, phase(c)), getTswing)
            t == Times(Minus(One, phase(c + d)), getTswing)
            w == Times(<<d, 1>>, dt)
            h == Over(getTstance, <<2, 1>>)
<1>1. /\ Tstance \in Int /\ Tswing \in Int /\ Tswing # 0 /\ dt \in Fraction
      /\ k \in Int /\ l \in Int /\ l # 0 /\ Is(dt, k, l)
  BY TimesAssumption, NumbersAssumption, FractionParts
<1>2. s \in Fraction /\ Is(s, (Tswing - (c - Tstance)) * (Tswing * k), Tswing * l)
  BY SwingIs
<1>3. t \in Fraction /\ Is(t, (Tswing - ((c + d) - Tstance)) * (Tswing * k), Tswing * l)
  BY SwingIs
<1>4. w \in Fraction /\ Is(w, d * k, 1 * l)
  BY <1>1, WholeIs, TimesIs, TimesParts
<1>5. h \in Fraction
  BY HalfStance
<1>6. toGo(c) = Plus(s, h) /\ toGo(c + d) = Plus(t, h)
  BY DEF toGo
<1>. HIDE DEF k, l, s, t, w, h
<1>7. s = Plus(w, t)
  <2>. DEFINE a == (Tswing - (c - Tstance)) * (Tswing * k)
              b == Tswing * l
              e == (Tswing - ((c + d) - Tstance)) * (Tswing * k)
              x == ((d * k) * b) + (e * (1 * l))
              y == (1 * l) * b
  <2>1. a \in Int /\ b \in Int /\ b # 0 /\ e \in Int /\ d * k \in Int /\ 1 * l \in Int
        /\ x \in Int /\ y \in Int /\ y # 0
    BY <1>1
  <2>2. a * y = x * b
    <3>1. a = ((Tswing * k) * d) + e
      BY <1>1
    <3>2. a * y = (a * l) * b
      BY <1>1
    <3>3. x * b = (((d * k) * (Tswing * l)) + (e * l)) * b
      BY <1>1
    <3>4. (((Tswing * k) * d) + e) * l = ((d * k) * (Tswing * l)) + (e * l)
      BY <1>1
    <3>. QED  BY <3>1, <3>2, <3>3, <3>4
  <2>3. Is(s, a, b) /\ Is(t, e, b)
    BY <1>2, <1>3
  <2>. HIDE DEF a, b, e
  <2>4. Plus(w, t) \in Fraction /\ Is(Plus(w, t), x, y)
    BY <1>3, <1>4, <2>1, <2>3, PlusIs, PlusParts
  <2>. HIDE DEF x, y
  <2>. QED  BY <1>2, <2>1, <2>2, <2>3, <2>4, SameValue
<1>8. Plus(Plus(w, t), h) = Plus(w, Plus(t, h))
  BY <1>3, <1>4, <1>5, PlusLaws
<1>. QED  BY <1>6, <1>7, <1>8 DEF w

\* The algebra of a foothold: to move by v for t and aim by v for g is to aim by v for both.
LEMMA SamePlace ==
  ASSUME NEW x \in Fraction, NEW v \in Fraction, NEW t \in Fraction,
         NEW g \in Fraction, NEW r \in Fraction
  PROVE  Plus(Plus(x, Times(v, t)), Plus(Times(v, g), r)) = Plus(x, Plus(Times(v, Plus(t, g)), r))
<1>. DEFINE a == Times(v, t) b == Times(v, g)
<1>1. a \in Fraction /\ b \in Fraction
  BY Closed
<1>2. Times(v, Plus(t, g)) = Plus(a, b)
  BY TimesLaws
<1>. HIDE DEF a, b
<1>3. Plus(b, r) \in Fraction
  BY <1>1, Closed
<1>4. Plus(Plus(x, a), Plus(b, r)) = Plus(x, Plus(a, Plus(b, r)))
  BY <1>1, <1>3, PlusLaws
<1>5. Plus(Plus(a, b), r) = Plus(a, Plus(b, r))
  BY <1>1, PlusLaws
<1>. QED  BY <1>2, <1>4, <1>5 DEF a, b

\* A body that keeps its rates, and is asked for the same ones, moves on by what is no
\* longer to go.
LEMMA SameFoothold ==
  ASSUME TypeOK, state # "FIXEDSTAND", NEW d \in 1..Slip, NEW m \in Motions, NEW goal \in Commands,
         AimedBy(Moved(d, m), goal) = AimedBy(body, cmd)
  PROVE  calFootPos(goal, Moved(d, m), phase(clock + d)) = calFootPos(cmd, body, phase(clock))
<1>. DEFINE b == Moved(d, m)
            t == Times(<<d, 1>>, dt)
            rx == Times(kx, Minus(body.v, cmd.v))
            ra == Times(kyaw, Minus(cmd.w, body.w))
<1>1. /\ body.x \in Fraction /\ body.yaw \in Fraction /\ body.v \in Fraction /\ body.w \in Fraction
      /\ cmd.v \in Fraction /\ cmd.w \in Fraction /\ clock \in Int /\ d \in Int /\ clock + d \in Int
  BY TimesAssumption DEF TypeOK
<1>2. /\ m.v = body.v /\ m.w = body.w /\ goal.v = cmd.v /\ goal.w = cmd.w
  <2>1. b.v = m.v /\ b.w = m.w
    BY DEF Moved
  <2>. QED  BY <2>1 DEF AimedBy
<1>3. /\ b.x = Plus(body.x, Times(body.v, t)) /\ b.v = body.v
      /\ b.yaw = Plus(body.yaw, Times(body.w, t)) /\ b.w = body.w
  BY <1>2 DEF Moved
<1>4. t \in Fraction /\ rx \in Fraction /\ ra \in Fraction
  BY <1>1, NumbersAssumption, WholeIs, Closed
<1>. DEFINE g == toGo(clock + d)
            x == body.x
            v == body.v
            yaw == body.yaw
            w == body.w
<1>5. g \in Fraction /\ toGo(clock) = Plus(t, g)
  BY <1>1, ToGoIsFraction, ToGoShrinks
<1>6. calFootPos(goal, b, phase(clock + d))
        = [centre |-> Plus(b.x, Plus(Times(b.v, g), rx)), angle |-> Plus(b.yaw, Plus(Times(b.w, g), ra))]
  BY <1>2, <1>3 DEF calFootPos, toGo
<1>7. calFootPos(cmd, body, phase(clock))
        = [centre |-> Plus(body.x, Plus(Times(body.v, toGo(clock)), rx)),
           angle |-> Plus(body.yaw, Plus(Times(body.w, toGo(clock)), ra))]
  BY DEF calFootPos, toGo
<1>10. /\ x \in Fraction /\ v \in Fraction /\ yaw \in Fraction /\ w \in Fraction
       /\ t \in Fraction /\ g \in Fraction /\ rx \in Fraction /\ ra \in Fraction
  BY <1>1, <1>4, <1>5
<1>. HIDE DEF b, t, rx, ra, g, x, v, yaw, w
<1>8. Plus(b.x, Plus(Times(b.v, g), rx)) = Plus(x, Plus(Times(v, Plus(t, g)), rx))
  <2>1. Plus(Plus(x, Times(v, t)), Plus(Times(v, g), rx)) = Plus(x, Plus(Times(v, Plus(t, g)), rx))
    BY <1>10, SamePlace
  <2>2. b.x = Plus(x, Times(v, t)) /\ b.v = v
    BY <1>3 DEF x, v
  <2>. QED  BY <2>1, <2>2
<1>9. Plus(b.yaw, Plus(Times(b.w, g), ra)) = Plus(yaw, Plus(Times(w, Plus(t, g)), ra))
  <2>1. Plus(Plus(yaw, Times(w, t)), Plus(Times(w, g), ra)) = Plus(yaw, Plus(Times(w, Plus(t, g)), ra))
    BY <1>10, SamePlace
  <2>2. b.yaw = Plus(yaw, Times(w, t)) /\ b.w = w
    BY <1>3 DEF yaw, w
  <2>. QED  BY <2>1, <2>2
<1>. QED  BY <1>5, <1>6, <1>7, <1>8, <1>9 DEF b, x, v, yaw, w

-----------------------------------------------------------------------------

\* A tick of either walk holds the place of a robot that is left alone.
LEMMA SwayStep ==
  ASSUME TypeOK, HoldsItsPlace, state # "FIXEDSTAND",
         NEW user \in Users, NEW facing \in Fraction, NEW b \in Bodies,
         cmd' = calcCmd(user, facing, b), sway_step(user, b)
  PROVE  HoldsItsPlace' /\ sway' \in [from : Fraction, still : BOOLEAN]
<1>1. sway \in [from : Fraction, still : BOOLEAN] /\ cmd.pcd \in Fraction
  BY DEF TypeOK
<1>2. /\ sway' \in [from : Fraction, still : BOOLEAN] /\ sway'.from = sway.from
      /\ sway'.still <=> /\ sway.still /\ user.v = Zero
                         /\ Near(b.v, Zero, vSlack) = b.v /\ Near(b.x, sway.from, pSlack) = b.x
  BY <1>1 DEF sway_step
<1>3. ASSUME sway # None, sway'.still
      PROVE  cmd'.pcd = sway.from
  <2>1. /\ sway.still /\ user.v = Zero
        /\ Near(b.v, Zero, vSlack) = b.v /\ Near(b.x, sway.from, pSlack) = b.x
    BY <1>2, <1>3
  <2>2. /\ b.v \in Fraction /\ b.x \in Fraction /\ vSlack \in Fraction /\ pSlack \in Fraction
        /\ dt \in Fraction /\ Zero \in Fraction
    BY NumbersAssumption, Closed DEF Bodies
  <2>3. Near(Times(facing, user.v), b.v, vSlack) = Zero
    <3>1. Times(facing, user.v) = Zero
      BY <2>1, TimesLaws
    <3>. QED  BY <2>1, <2>2, <3>1, NearBack
  <2>4. Plus(cmd.pcd, Times(Zero, dt)) = cmd.pcd
    <3>1. Times(Zero, dt) = Zero
      BY <2>2, TimesLaws
    <3>. QED  BY <1>1, <3>1, PlusLaws
  <2>5. cmd.pcd = sway.from
    BY <1>3, <2>1 DEF HoldsItsPlace
  <2>6. cmd'.pcd = Near(Plus(cmd.pcd, Times(Zero, dt)), b.x, pSlack)
    BY <2>3 DEF calcCmd
  <2>7. Near(sway.from, b.x, pSlack) = sway.from
    BY <1>1, <2>1, <2>2, NearBack
  <2>. QED  BY <2>4, <2>5, <2>6, <2>7
<1>4. sway # None
  BY <1>1 DEF None
<1>. QED  BY <1>2, <1>3, <1>4 DEF HoldsItsPlace

-----------------------------------------------------------------------------

\* The node starts with nothing commanded and nothing aimed at.
LEMMA DriveInitial == Init => DriveInv
<1>. SUFFICES ASSUME Init PROVE DriveInv
  OBVIOUS
<1>1. 0 \in 0..(Tstance + Tswing - 1) /\ 0 \in 0..Ticks
  BY TimesAssumption
<1>2. Zero \in Fraction /\ dYawCmdPast \in Fraction /\ twist \in [vx : Fraction, wz : Fraction]
  BY Closed, NumbersAssumption DEF Init
<1>3. TypeOK
  BY <1>1, <1>2 DEF Init, TypeOK
<1>. QED  BY <1>3 DEF DriveInv, Init, AimFits, HoldsItsPlace

\* A walk that is entered holds the place it is entered at.
LEMMA EnterStep ==
  ASSUME DriveInv, NEW s \in {"TROTTING", "MOVE_BASE"}, enter(s)
  PROVE  DriveInv'
<1>1. body.x \in Fraction /\ body.yaw \in Fraction /\ Zero \in Fraction
  BY Closed DEF DriveInv, TypeOK
<1>2. TypeOK'
  BY <1>1 DEF DriveInv, TypeOK, enter
<1>3. AimFits'
  BY DEF DriveInv, TypeOK, AimFits, enter
<1>4. HoldsItsPlace'
  BY DEF HoldsItsPlace, enter
<1>. QED  BY <1>2, <1>3, <1>4 DEF DriveInv

\* A walk that is left forgets its place and its foothold.
LEMMA ExitStep ==
  ASSUME DriveInv, exit
  PROVE  DriveInv'
<1>1. TypeOK'
  BY DEF DriveInv, TypeOK, exit
<1>2. AimFits' /\ HoldsItsPlace'
  BY DEF AimFits, HoldsItsPlace, exit
<1>. QED  BY <1>1, <1>2 DEF DriveInv

\* Both callbacks of a message leave everything but the twist alone.
LEMMA TwistStep ==
  ASSUME DriveInv, NEW m \in Twists, twistCallback(m) \/ Stored(m)
  PROVE  DriveInv'
<1>1. m \in [vx : Fraction, wz : Fraction]
  BY NumbersAssumption
<1>2. TypeOK'
  BY <1>1 DEF DriveInv, TypeOK, twistCallback, Stored
<1>3. AimFits'
  BY DEF DriveInv, AimFits, AimedBy, calFootPos, phase, Swings, twistCallback, Stored
<1>4. HoldsItsPlace'
  BY DEF DriveInv, HoldsItsPlace, twistCallback, Stored
<1>. QED  BY <1>2, <1>3, <1>4 DEF DriveInv

\* What a tick does to the body, the command, the clock and the foothold.
LEMMA FollowStep ==
  ASSUME DriveInv, state # "FIXEDSTAND",
         NEW user \in Users, NEW facing \in Facings, NEW d \in 1..Slip, NEW m \in Motions,
         Follow(user, facing, d, m)
  PROVE  /\ body' \in Bodies /\ cmd' \in Commands /\ dYawCmdPast' \in Fraction
         /\ sway' \in [from : Fraction, still : BOOLEAN]
         /\ clock' \in 0..(Tstance + Tswing - 1) /\ count' \in 0..Ticks
         /\ HoldsItsPlace' /\ AimFits'
<1>. DEFINE b == Moved(d, m)
            c == (clock + d) % (Tstance + Tswing)
            goal == calcCmd(user, facing, b)
<1>1. facing \in Fraction
  BY NumbersAssumption
<1>2. b \in Bodies
  BY MovedIsBody DEF DriveInv
<1>3. goal \in Commands
  BY <1>1, <1>2, CalcCmdIsCommand DEF DriveInv
<1>4. /\ body' = b /\ clock' = c /\ cmd' = goal /\ dYawCmdPast' = user.past
      /\ foothold' = IF Swings(c) THEN calFootPos(goal, b, phase(c)) ELSE foothold
      /\ sway_step(user, b) /\ aim_step(d)
      /\ count < Ticks /\ count' = count + 1
  BY DEF Follow
<1>5. HoldsItsPlace' /\ sway' \in [from : Fraction, still : BOOLEAN]
  BY <1>1, <1>2, <1>4, SwayStep DEF DriveInv
<1>6. /\ c \in 0..(Tstance + Tswing - 1)
      /\ clock + d < Tstance + Tswing => c = clock + d
  BY ClockRuns DEF DriveInv, TypeOK
<1>7. count' \in 0..Ticks
  BY <1>4, TimesAssumption DEF DriveInv, TypeOK
<1>8. AimFits'
  <2>. SUFFICES ASSUME aim' # None
                PROVE  /\ Swings(clock') /\ aim' \in [at : {aim'.at}, by : {aim'.by}, steady : BOOLEAN]
                       /\ aim'.steady => /\ aim'.by = AimedBy(body', cmd')
                                         /\ foothold' = aim'.at
                                         /\ foothold' = calFootPos(cmd', body', phase(clock'))
    BY DEF AimFits, AimedBy, calFootPos, phase, Swings
  <2>1. Swings(c)
    BY <1>4 DEF aim_step
  <2>2. foothold' = calFootPos(cmd', body', phase(clock'))
    BY <1>4, <2>1
  <2>. HIDE DEF b, c, goal
  <2>3. CASE aim = None \/ clock + d >= Tstance + Tswing
    <3>1. aim' = [at |-> foothold', by |-> AimedBy(body', cmd'), steady |-> TRUE]
      BY <1>4, <2>1, <2>3 DEF aim_step
    <3>. QED  BY <1>4, <2>1, <2>2, <3>1
  <2>4. CASE ~(aim = None \/ clock + d >= Tstance + Tswing)
    <3>1. aim' = [aim EXCEPT !.steady = @ /\ aim.by = AimedBy(body', cmd')]
      BY <1>4, <2>1, <2>4 DEF aim_step
    <3>2. /\ aim \in [at : {aim.at}, by : {aim.by}, steady : BOOLEAN]
          /\ aim.steady => aim.by = AimedBy(body, cmd) /\ foothold = aim.at
                           /\ foothold = calFootPos(cmd, body, phase(clock))
      BY <2>4 DEF DriveInv, AimFits
    <3>3. /\ aim'.at = aim.at /\ aim'.by = aim.by /\ aim'.steady \in BOOLEAN
          /\ aim' \in [at : {aim'.at}, by : {aim'.by}, steady : BOOLEAN]
          /\ aim'.steady => aim.steady /\ aim.by = AimedBy(body', cmd')
      BY <3>1, <3>2
    <3>4. ASSUME aim'.steady
          PROVE  foothold' = foothold
      <4>1. AimedBy(b, goal) = AimedBy(body, cmd)
        BY <1>4, <3>2, <3>3, <3>4
      <4>2. calFootPos(goal, b, phase(clock + d)) = calFootPos(cmd, body, phase(clock))
        BY <1>3, <4>1, SameFoothold DEF DriveInv, b
      <4>3. c = clock + d
        BY <1>6, <2>4, TimesAssumption DEF DriveInv, TypeOK
      <4>. QED  BY <1>4, <2>2, <3>2, <3>3, <3>4, <4>2, <4>3
    <3>. QED  BY <1>4, <2>1, <2>2, <3>2, <3>3, <3>4
  <2>. QED  BY <2>3, <2>4
<1>. QED  BY <1>2, <1>3, <1>4, <1>5, <1>6, <1>7, <1>8 DEF Users

\* A tick of TROTTING: the common part, for what the filter makes of the stick.
LEMMA TrottingStep ==
  ASSUME DriveInv, NEW value \in Sticks, NEW facing \in Facings, NEW d \in 1..Slip, NEW m \in Motions,
         run_trotting(value, facing, d, m)
  PROVE  DriveInv'
<1>1. state = "TROTTING" /\ Follow(getUserCmd(value), facing, d, m) /\ told' \in BOOLEAN
  BY DEF run_trotting
<1>2. getUserCmd(value) \in Users
  BY StickIsUser DEF DriveInv
<1>3. /\ body' \in Bodies /\ cmd' \in Commands /\ dYawCmdPast' \in Fraction
      /\ sway' \in [from : Fraction, still : BOOLEAN]
      /\ clock' \in 0..(Tstance + Tswing - 1) /\ count' \in 0..Ticks
      /\ HoldsItsPlace' /\ AimFits'
  BY <1>1, <1>2, FollowStep
<1>4. state' = state /\ twist' = twist /\ arriving' = arriving
  BY <1>1 DEF Follow
<1>5. TypeOK'
  BY <1>1, <1>3, <1>4 DEF DriveInv, TypeOK, Bodies, Commands
<1>. QED  BY <1>3, <1>5 DEF DriveInv

\* A tick of MOVE_BASE: the common part, with the filter left alone.
LEMMA BaseStep ==
  ASSUME DriveInv, NEW user \in setHighCmd, NEW facing \in Facings, NEW d \in 1..Slip, NEW m \in Motions,
         run_base(user, facing, d, m)
  PROVE  DriveInv'
<1>1. state = "MOVE_BASE" /\ Follow(user, facing, d, m) /\ told' = told
  BY DEF run_base
<1>2. user \in Users /\ user.past = dYawCmdPast
  BY TwistIsUser DEF DriveInv
<1>3. /\ body' \in Bodies /\ cmd' \in Commands /\ dYawCmdPast' \in Fraction
      /\ sway' \in [from : Fraction, still : BOOLEAN]
      /\ clock' \in 0..(Tstance + Tswing - 1) /\ count' \in 0..Ticks
      /\ HoldsItsPlace' /\ AimFits'
  BY <1>1, <1>2, FollowStep
<1>4. dYawCmdPast' = dYawCmdPast /\ state' = state /\ twist' = twist /\ arriving' = arriving
  BY <1>1, <1>2 DEF Follow
<1>5. TypeOK'
  BY <1>1, <1>3, <1>4 DEF DriveInv, TypeOK, Bodies, Commands
<1>. QED  BY <1>3, <1>5 DEF DriveInv

\* The inductive invariant, for every robot, tick and user: the types, and what makes the
\* two properties hold together.
THEOREM DriveInvariant == Spec => []DriveInv
<1>1. Init => DriveInv
  BY DriveInitial
<1>2. ASSUME DriveInv, [Next]_vars
      PROVE  DriveInv'
  <2>1. ASSUME NEW s \in {"TROTTING", "MOVE_BASE"}, enter(s)
        PROVE  DriveInv'
    BY <1>2, <2>1, EnterStep
  <2>2. CASE exit
    BY <1>2, <2>2, ExitStep
  <2>3. ASSUME NEW facing \in Facings, NEW d \in 1..Slip, NEW m \in Motions,
               NEW value \in Sticks, run_trotting(value, facing, d, m)
        PROVE  DriveInv'
    BY <1>2, <2>3, TrottingStep
  <2>4. ASSUME NEW facing \in Facings, NEW d \in 1..Slip, NEW m \in Motions,
               NEW user \in setHighCmd, run_base(user, facing, d, m)
        PROVE  DriveInv'
    BY <1>2, <2>4, BaseStep
  <2>5. ASSUME NEW m \in Twists, twistCallback(m) \/ Stored(m)
        PROVE  DriveInv'
    BY <1>2, <2>5, TwistStep
  <2>6. CASE UNCHANGED vars
    BY <1>2, <2>6 DEF DriveInv, TypeOK, AimFits, HoldsItsPlace, AimedBy,
                      calFootPos, phase, Swings, vars
  <2>. QED  BY <1>2, <2>1, <2>2, <2>3, <2>4, <2>5, <2>6 DEF Next
<1>. QED  BY <1>1, <1>2, PTL DEF Spec

\* A foothold stands still through its whole swing while body and command keep their
\* rates, whatever the tick, the leg's phase and the gains, and however late the ticks are.
THEOREM FootholdNeverMoves == Spec => []FootholdStands
<1>1. DriveInv => FootholdStands
  BY DEF DriveInv, AimFits, FootholdStands
<1>. QED  BY <1>1, DriveInvariant, PTL

\* The place a walk began at is held, for every limit the command may run ahead by and
\* every push within it.
THEOREM PlaceIsHeld == Spec => []HoldsItsPlace
<1>1. DriveInv => HoldsItsPlace
  BY DEF DriveInv
<1>. QED  BY <1>1, DriveInvariant, PTL
=============================================================================
