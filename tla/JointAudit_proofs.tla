--------------------------- MODULE JointAudit_proofs ---------------------------
(***************************************************************************)
(* Proofs about the joint controller and what it promises its commander.   *)
(***************************************************************************)
EXTENDS JointAudit, TLAPS

USE DEF PMSM, BRAKE, BrakeDamping, Number

LEMMA OrdersAreFields ==
  /\ \A i \in 1..6 : /\ CallbackOrder[i] \in FieldName /\ CopyOrder[i] \in FieldName
                     /\ SaneOrder[i] \in FieldName /\ ActivateOrder[i] \in FieldName
  /\ \A i \in 1..8 : ReadOrder[i] \in Slot
  /\ \A s \in Slot : ReadOf[s] \in FieldName
<1>1. \A i \in 1..6 : CallbackOrder[i] \in FieldName
  BY DEF CallbackOrder, FieldName
<1>2. \A i \in 1..6 : CopyOrder[i] \in FieldName
  BY DEF CopyOrder, FieldName
<1>3. \A i \in 1..6 : SaneOrder[i] \in FieldName
  BY DEF SaneOrder, FieldName
<1>4. \A i \in 1..6 : ActivateOrder[i] \in FieldName
  BY DEF ActivateOrder, FieldName
<1>5. \A i \in 1..8 : ReadOrder[i] \in Slot
  BY DEF ReadOrder, Slot
<1>6. \A s \in Slot : ReadOf[s] \in FieldName
  BY DEF ReadOf, Slot, FieldName
<1> QED BY <1>1, <1>2, <1>3, <1>4, <1>5, <1>6

LEMMA OwnCommands == {Default, FreeFall, Braking} \subseteq MotorCmd
  BY LimitAssumption DEF Default, FreeFall, Braking, MotorCmd, FieldName

LEMMA ClampIsNumber ==
  ASSUME NEW x \in Number, NEW min \in Int, NEW max \in Int
  PROVE  clamp(x, min, max) \in Number
  BY DEF clamp, Finite

LEMMA ClampIsWithin ==
  ASSUME NEW x \in Int, NEW min \in Int, NEW max \in Int, min =< max
  PROVE  clamp(x, min, max) \in min..max
  BY NumberAssumption DEF clamp, Finite

LEMMA TermIsInt ==
  ASSUME NEW target \in Number, NEW stop \in Int, NEW gain \in Number,
         NEW measured \in Int
  PROVE  Term(target, stop, gain, measured) \in Int
<1>1. CASE Finite(gain) /\ Finite(target) /\ gain > 0 /\ target # stop
  <2>1. gain \in Int /\ target \in Int
    BY <1>1 DEF Finite
  <2> QED BY <1>1, <2>1 DEF Term
<1>2. CASE ~(Finite(gain) /\ Finite(target) /\ gain > 0 /\ target # stop)
  BY <1>2 DEF Term
<1> QED BY <1>1, <1>2

LEMMA ServoIsNumbers ==
  ASSUME NEW s \in [Slot -> Number], NEW limited \in BOOLEAN
  PROVE  LET c == servoCmd(s, limited) IN
           /\ c.pos \in Number /\ c.posStiffness \in Number
           /\ c.vel \in Number /\ c.velStiffness \in Number /\ c.torque \in Number
<1>1. \A x \in Number : /\ positionLimits(x, limited) \in Number
                        /\ velocityLimits(x, limited) \in Number
                        /\ effortLimits(x, limited) \in Number
  BY ClampIsNumber, LimitAssumption
  DEF positionLimits, velocityLimits, effortLimits
<1>2. /\ s.pos \in Number /\ s.kp \in Number /\ s.vel \in Number /\ s.kd \in Number
      /\ s.tau \in Number
  BY DEF Slot
<1> DEFINE c == servoCmd(s, limited)
           k == IF s.posStop = PosStop THEN 0 ELSE s.kp
           d == IF s.velStop = VelStop THEN 0 ELSE s.kd
<1>3. k \in Number /\ d \in Number
  BY <1>2
<1>4. CASE s.mode = PMSM
  <2>1. c = [pos          |-> positionLimits(s.pos, limited),
             posStiffness |-> k,
             vel          |-> velocityLimits(s.vel, limited),
             velStiffness |-> d,
             torque       |-> effortLimits(s.tau, limited)]
    BY <1>4 DEF servoCmd
  <2> HIDE DEF c, k, d
  <2>2. /\ c.pos = positionLimits(s.pos, limited) /\ c.posStiffness = k
        /\ c.vel = velocityLimits(s.vel, limited) /\ c.velStiffness = d
        /\ c.torque = effortLimits(s.tau, limited)
    BY <2>1
  <2>3. /\ c.pos \in Number /\ c.posStiffness \in Number /\ c.vel \in Number
        /\ c.velStiffness \in Number /\ c.torque \in Number
    BY <2>2, <1>1, <1>2, <1>3
  <2> QED BY <2>3 DEF c
<1>5. CASE s.mode # PMSM
  BY <1>5 DEF servoCmd
<1> QED BY <1>4, <1>5

LEMMA EffortsAreSafe ==
  ASSUME NEW s \in [Slot -> Number], NEW limited \in BOOLEAN,
         NEW e \in Efforts(s, limited)
  PROVE  e \in Int /\ (limited => e \in -EffortLimit..EffortLimit)
<1> DEFINE c == servoCmd(s, limited)
<1>1. PICK pos \in Positions, vel \in Velocities :
        e = effortLimits(computeTorque(pos, vel, c), limited)
  BY DEF Efforts
<1>2. pos \in Int /\ vel \in Int
  BY NumberAssumption
<1>3. /\ c.pos \in Number /\ c.posStiffness \in Number
      /\ c.vel \in Number /\ c.velStiffness \in Number /\ c.torque \in Number
  BY ServoIsNumbers
<1>4. /\ Term(c.pos, PosStop, c.posStiffness, pos) \in Int
      /\ Term(c.vel, VelStop, c.velStiffness, vel) \in Int
  BY <1>2, <1>3, TermIsInt, LimitAssumption
<1> HIDE DEF c
<1>5. computeTorque(pos, vel, c) \in Int
  BY <1>3, <1>4 DEF computeTorque, Finite
<1>6. -EffortLimit \in Int /\ EffortLimit \in Int /\ -EffortLimit =< EffortLimit
  BY LimitAssumption
<1>7. clamp(computeTorque(pos, vel, c), -EffortLimit, EffortLimit)
        \in -EffortLimit..EffortLimit
  BY <1>5, <1>6, ClampIsWithin
<1> QED BY <1>1, <1>5, <1>6, <1>7 DEF effortLimits

-----------------------------------------------------------------------------

\* The effort is zero until the controller is configured, and only then has limits.
Configured == /\ effort # 0 => life # "unconfigured"
              /\ up # "idle" => life # "unconfigured"

SafeInv == TypeOK /\ EffortSafe /\ Configured

LEMMA InitSafe == Init => SafeInv
<1> SUFFICES ASSUME Init PROVE SafeInv
  OBVIOUS
<1>1. Unread \in [Slot -> Number]
  BY DEF Unread
<1>2. Default \in MotorCmd
  BY OwnCommands
<1>3. /\ lastCmd \in MotorCmd /\ nonRT \in MotorCmd /\ rt \in MotorCmd
      /\ msg \in MotorCmd /\ seen \in [Slot -> Number]
  BY <1>1, <1>2 DEF Init
<1>4. limits \in BOOLEAN /\ first \in BOOLEAN /\ fresh \in BOOLEAN
  BY Zenon DEF Init
<1>5. /\ life = "unconfigured" /\ cb = "idle" /\ cbAt = 1 /\ up = "idle" /\ upAt = 1
      /\ effort = 0
  BY DEF Init
<1>6. TypeOK
  BY <1>3, <1>4, <1>5 DEF TypeOK
<1>7. EffortSafe /\ Configured
  BY LimitAssumption DEF Init, EffortSafe, Configured
<1> QED BY <1>6, <1>7 DEF SafeInv

LEMMA StepType == TypeOK /\ [Next]_vars => TypeOK'
<1> SUFFICES ASSUME TypeOK, [Next]_vars PROVE TypeOK'
  OBVIOUS
<1> USE DEF TypeOK, buffer, callback, realtime
<1>1. CASE on_configure
  BY <1>1, OwnCommands, LimitAssumption DEF on_configure, read_parameters
<1>2. ASSUME NEW c \in Commands, Receive(c) PROVE TypeOK'
  BY <1>2, NumberAssumption DEF Receive
<1>3. CASE StoreField
  <2> DEFINE f == CallbackOrder[cbAt]
  <2>1. f \in FieldName
    BY <1>3, OrdersAreFields
  <2> HIDE DEF f
  <2>2. [lastCmd EXCEPT ![f] = msg[f]] \in MotorCmd
    BY <2>1 DEF MotorCmd
  <2>3. lastCmd' \in MotorCmd
    BY <1>3, <2>2 DEF StoreField, f
  <2>4. cb' \in {"store", "lock"} /\ cbAt' \in 1..6
    BY <1>3 DEF StoreField
  <2> QED BY <1>3, <2>3, <2>4 DEF StoreField
<1>4. CASE LockBuffer
  BY <1>4 DEF LockBuffer
<1>5. CASE CopyField
  <2> DEFINE f == CopyOrder[cbAt]
  <2>1. f \in FieldName
    BY <1>5, OrdersAreFields
  <2> HIDE DEF f
  <2>2. [nonRT EXCEPT ![f] = lastCmd[f]] \in MotorCmd
    BY <2>1 DEF MotorCmd
  <2>3. nonRT' \in MotorCmd
    BY <1>5, <2>2 DEF CopyField, f
  <2>4. /\ cb' \in {"idle", "copy"} /\ cbAt' \in 1..6 /\ fresh' \in BOOLEAN
        /\ msg' \in MotorCmd
    <3>1. Default \in MotorCmd
      BY OwnCommands
    <3>2. CASE cbAt = 6
      BY <1>5, <3>1, <3>2 DEF CopyField
    <3>3. CASE cbAt # 6
      BY <1>5, <3>3 DEF CopyField
    <3> QED BY <3>2, <3>3
  <2>5. UNCHANGED <<life, limits, first, lastCmd, rt, realtime, effort>>
    BY <1>5 DEF CopyField
  <2> QED BY <2>3, <2>4, <2>5
<1>6. CASE on_activate
  BY <1>6 DEF on_activate
<1>7. CASE ActivateField
  <2> DEFINE f == ActivateOrder[upAt]
             c == IF first THEN FreeFall ELSE Braking
  <2>1. f \in FieldName /\ c \in MotorCmd
    BY <1>7, OrdersAreFields, OwnCommands DEF ActivateField
  <2> HIDE DEF f, c
  <2>2. [lastCmd EXCEPT ![f] = c[f]] \in MotorCmd
    BY <2>1 DEF MotorCmd
  <2>3. lastCmd' \in MotorCmd
    BY <1>7, <2>2 DEF ActivateField, f, c
  <2>4. /\ up' \in {"idle", "activate"} /\ upAt' \in 1..6
        /\ life' \in {"active", life} /\ first' \in BOOLEAN
    <3>1. CASE upAt = 6
      <4>1. up' = "idle" /\ upAt' = 1 /\ life' = "active"
        BY <1>7, <3>1 DEF ActivateField
      <4>2. first' \in BOOLEAN
        BY <1>7, <3>1, Zenon DEF ActivateField
      <4> QED BY <4>1, <4>2
    <3>2. CASE upAt # 6
      <4>1. /\ up' = "activate" /\ upAt' = upAt + 1 /\ UNCHANGED <<life, first>>
        BY <1>7, <3>2 DEF ActivateField
      <4>2. upAt \in 1..6
        BY <1>7 DEF ActivateField
      <4> QED BY <3>2, <4>1, <4>2
    <3> QED BY <3>1, <3>2
  <2>5. UNCHANGED <<limits, buffer, callback, seen, effort>>
    BY <1>7 DEF ActivateField
  <2> QED BY <1>7, <2>3, <2>4, <2>5
<1>8. CASE on_deactivate
  BY <1>8, OwnCommands DEF on_deactivate
<1>9. CASE readFromRT
  <2>1. rt' \in MotorCmd /\ fresh' \in BOOLEAN /\ UNCHANGED nonRT
    BY <1>9 DEF readFromRT
  <2>2. /\ up' = "copy" /\ upAt' = 1 /\ life = "active"
        /\ UNCHANGED <<life, limits, first, lastCmd, callback, seen, effort>>
    BY <1>9 DEF readFromRT
  <2> QED BY <2>1, <2>2
<1>10. CASE TakeField
  <2> DEFINE f == CopyOrder[upAt]
  <2>1. f \in FieldName
    BY <1>10, OrdersAreFields DEF TakeField
  <2> HIDE DEF f
  <2>2. [lastCmd EXCEPT ![f] = rt[f]] \in MotorCmd
    BY <2>1 DEF MotorCmd
  <2>3. lastCmd' \in MotorCmd
    BY <1>10, <2>2 DEF TakeField, f
  <2>4. up' \in {"copy", "sane"} /\ upAt' \in 1..6
    BY <1>10 DEF TakeField
  <2> QED BY <1>10, <2>3, <2>4 DEF TakeField
<1>11. CASE SaneField
  <2> DEFINE f == SaneOrder[upAt]
             w == IF f = "mode" THEN IF lastCmd[f] \in {PMSM, BRAKE} THEN lastCmd[f]
                                     ELSE BRAKE
                  ELSE sane(lastCmd[f])
  <2>1. f \in FieldName
    BY <1>11, OrdersAreFields DEF SaneField
  <2>2. w \in Number
    BY <2>1 DEF sane, Finite, MotorCmd
  <2>3. lastCmd' = [lastCmd EXCEPT ![f] = w]
    BY <1>11 DEF SaneField
  <2> HIDE DEF f, w
  <2>4. lastCmd' \in MotorCmd
    BY <2>1, <2>2, <2>3 DEF MotorCmd
  <2>5. /\ up' \in {"sane", "build"} /\ upAt' \in 1..6
    BY <1>11 DEF SaneField
  <2> QED BY <1>11, <2>4, <2>5 DEF SaneField
<1>12. CASE ReadField
  <2> DEFINE s == ReadOrder[upAt]
  <2>1. upAt \in 1..8
    BY <1>12 DEF ReadField, Built
  <2>2. s \in Slot /\ ReadOf[s] \in FieldName
    BY <2>1, OrdersAreFields
  <2> HIDE DEF s
  <2>3. [seen EXCEPT ![s] = lastCmd[ReadOf[s]]] \in [Slot -> Number]
    BY <2>2 DEF MotorCmd
  <2>4. seen' \in [Slot -> Number]
    BY <1>12, <2>3 DEF ReadField, s
  <2> QED BY <1>12, <2>1, <2>4 DEF ReadField
<1>13. CASE WriteEffort
  <2>1. effort' \in Int /\ (limits => effort' \in -EffortLimit..EffortLimit)
    BY <1>13, EffortsAreSafe DEF WriteEffort
  <2>2. Unread \in [Slot -> Number]
    BY DEF Unread
  <2> QED BY <1>13, <2>1, <2>2 DEF WriteEffort, Finish, Built
<1>14. CASE NoPosition
  <2>1. Unread \in [Slot -> Number]
    BY DEF Unread
  <2> QED BY <1>14, <2>1 DEF NoPosition, Finish, Built
<1>15. CASE UNCHANGED vars
  BY <1>15 DEF vars
<1> QED
  BY <1>1, <1>2, <1>3, <1>4, <1>5, <1>6, <1>7, <1>8, <1>9, <1>10, <1>11, <1>12,
     <1>13, <1>14, <1>15
  DEF Next, setCmdCallback, update

LEMMA StepConfigured == Configured /\ TypeOK /\ [Next]_vars => Configured'
  BY DEF Configured, TypeOK, Next, vars, buffer, callback, realtime, on_configure,
     Receive, setCmdCallback, StoreField, LockBuffer, CopyField, on_activate,
     ActivateField, on_deactivate, update, readFromRT, TakeField, SaneField, ReadField,
     WriteEffort, NoPosition, Finish, Built

LEMMA StepEffort == SafeInv /\ [Next]_vars => EffortSafe'
<1> SUFFICES ASSUME SafeInv, [Next]_vars PROVE EffortSafe'
  OBVIOUS
<1>1. CASE on_configure
  <2>1. effort' = 0
    BY <1>1 DEF SafeInv, Configured, on_configure
  <2> QED BY <2>1, LimitAssumption DEF EffortSafe
<1>2. CASE WriteEffort
  <2>1. effort' \in Efforts(seen, limits) /\ limits' = limits
    BY <1>2 DEF WriteEffort, Finish
  <2>2. seen \in [Slot -> Number] /\ limits \in BOOLEAN
    BY DEF SafeInv, TypeOK
  <2> QED BY <2>1, <2>2, EffortsAreSafe DEF EffortSafe
<1>3. CASE UNCHANGED <<limits, effort>>
  BY <1>3, Zenon DEF SafeInv, EffortSafe
<1> QED
  BY <1>1, <1>2, <1>3
  DEF Next, vars, buffer, callback, realtime, Receive, setCmdCallback, StoreField,
      LockBuffer, CopyField, on_activate, ActivateField, on_deactivate, update,
      readFromRT, TakeField, SaneField, ReadField, NoPosition, Finish

LEMMA StepSafe == SafeInv /\ [Next]_vars => SafeInv'
  BY StepType, StepConfigured, StepEffort DEF SafeInv

LEMMA AlwaysSafe == Spec => []SafeInv
<1> QED BY InitSafe, StepSafe, PTL DEF Spec

\* Every variable of the joint controller keeps its type, however its two threads
\* interleave (LeggedController, all of it).
THEOREM TypeCorrect == Spec => []TypeOK
<1>1. SafeInv => TypeOK
  BY DEF SafeInv
<1> QED BY <1>1, AlwaysSafe, PTL

\* The effort on the interface is a number and respects the joint's limit, for any
\* commands, limits and measurements (update, effortLimits, computeTorque).
THEOREM EffortIsSafe == Spec => []EffortSafe
<1>1. SafeInv => EffortSafe
  BY DEF SafeInv
<1> QED BY <1>1, AlwaysSafe, PTL

-----------------------------------------------------------------------------
(* The promise.  Every field of every command in the controller, whole or  *)
(* torn, is one that a command of Sent has there.                          *)

Own  == {Default, FreeFall, Braking}
Sent == Own \cup Heard
Told(f) == {c[f] : c \in Sent}

Fields(cmd) == \A f \in FieldName : cmd[f] \in Told(f)

HeardInv == heard \in Seq(Commands)
SentInv == /\ Fields(lastCmd) /\ Fields(nonRT) /\ Fields(rt) /\ Fields(msg)
           /\ \A s \in Slot : seen[s] \in Told(ReadOf[s])
PhaseInv == /\ up = "activate" => life = "inactive"
            /\ up \in {"copy", "sane", "build"} => life = "active"

PromiseInv == TypeOK /\ HeardInv /\ SentInv /\ PhaseInv

LEMMA OwnIsTold == \A f \in FieldName : 0 \in Told(f)
<1> SUFFICES ASSUME NEW f \in FieldName PROVE 0 \in Told(f)
  OBVIOUS
<1>1. Default[f] = 0 /\ Default \in Sent
  BY DEF Default, Sent, Own
<1> QED BY <1>1 DEF Told

LEMMA SentIsTold == \A c \in Sent : Fields(c)
  BY DEF Fields, Told

LEMMA AppendIsHeard ==
  ASSUME HeardInv, NEW c \in Commands, heard' = Append(heard, c)
  PROVE  Heard' = Heard \cup {c} /\ HeardInv'
<1>1. HeardInv'
  BY DEF HeardInv
<1>2. /\ DOMAIN heard = 1..Len(heard) /\ DOMAIN heard' = 1..(Len(heard) + 1)
      /\ Len(heard) \in Nat
      /\ \A i \in 1..Len(heard) : heard'[i] = heard[i]
      /\ heard'[Len(heard) + 1] = c
  BY DEF HeardInv
<1>3. Heard' = Heard \cup {c}
  BY <1>2 DEF Heard
<1> QED BY <1>1, <1>3

\* Only a command that arrives changes what has been told.
LEMMA HeardOnlyArrives ==
  ASSUME TypeOK, [AuditNext]_<<vars, audit>>, ~(\E c \in Commands : Receive(c))
  PROVE  heard' = heard
  BY DEF TypeOK, AuditNext, audit_step, Arrived, Next, vars, buffer, callback, realtime,
     audit, on_configure, setCmdCallback, StoreField, LockBuffer, CopyField, on_activate,
     ActivateField, on_deactivate, update, readFromRT, TakeField, SaneField, ReadField,
     WriteEffort, NoPosition, Finish

LEMMA ArrivalIsHeard ==
  ASSUME HeardInv, AuditNext, NEW c \in Commands, Receive(c)
  PROVE  Heard' = Heard \cup {c} /\ HeardInv' /\ Sent' = Sent \cup {c}
<1>1. heard' = Append(heard, c)
  BY DEF AuditNext, audit_step, Arrived, Receive
<1> QED BY <1>1, AppendIsHeard DEF Sent

LEMMA InitPromise == AuditInit => PromiseInv
<1> SUFFICES ASSUME AuditInit PROVE PromiseInv
  OBVIOUS
<1>1. TypeOK
  BY InitSafe DEF AuditInit, SafeInv
<1>2. HeardInv
  BY DEF AuditInit, HeardInv
<1>3. Fields(Default)
  BY SentIsTold DEF Sent, Own
<1>4. \A s \in Slot : Unread[s] \in Told(ReadOf[s])
  BY OwnIsTold, OrdersAreFields DEF Unread
<1>5. SentInv
  BY <1>3, <1>4 DEF AuditInit, Init, SentInv
<1>6. PhaseInv
  BY DEF AuditInit, Init, PhaseInv
<1> QED BY <1>1, <1>2, <1>5, <1>6 DEF PromiseInv

\* A field copied from one command to another keeps both put together from fields
\* that were sent.
LEMMA CopyKeepsFields ==
  ASSUME NEW cmd \in MotorCmd, NEW f \in FieldName, NEW v \in Told(f), Fields(cmd)
  PROVE  Fields([cmd EXCEPT ![f] = v])
  BY DEF Fields, MotorCmd

LEMMA StepSent ==
  ASSUME PromiseInv, Next, Sent' = Sent, ~(\E c \in Commands : Receive(c))
  PROVE  SentInv'
<1> USE DEF PromiseInv, TypeOK, buffer, callback, realtime
<1>1. /\ \A f : Told(f)' = Told(f)
      /\ \A cmd : Fields(cmd) <=> \A f \in FieldName : cmd[f] \in Told(f)
  BY DEF Told, Fields
<1>2. Fields(Default) /\ Fields(FreeFall) /\ Fields(Braking)
  BY SentIsTold DEF Sent, Own
<1>3. \A s \in Slot : Unread[s] \in Told(ReadOf[s])
  BY OwnIsTold, OrdersAreFields DEF Unread
<1>4. SUFFICES /\ \A f \in FieldName : /\ lastCmd'[f] \in Told(f)
                                      /\ nonRT'[f] \in Told(f)
                                      /\ rt'[f] \in Told(f)
                                      /\ msg'[f] \in Told(f)
               /\ \A s \in Slot : seen'[s] \in Told(ReadOf[s])
  BY <1>1 DEF SentInv, Fields
<1>5. /\ \A f \in FieldName : /\ lastCmd[f] \in Told(f) /\ nonRT[f] \in Told(f)
                               /\ rt[f] \in Told(f) /\ msg[f] \in Told(f)
      /\ \A s \in Slot : seen[s] \in Told(ReadOf[s])
  BY DEF SentInv, Fields
<1>6. \A f \in FieldName : Default[f] \in Told(f)
  BY <1>2 DEF Fields
<1>7. CASE UNCHANGED <<lastCmd, nonRT, rt, msg, seen>>
  BY <1>5, <1>7
<1>8. CASE on_configure
  BY <1>5, <1>6, <1>8 DEF on_configure
<1>9. CASE StoreField
  <2> DEFINE f == CallbackOrder[cbAt]
  <2>1. f \in FieldName
    BY <1>9, OrdersAreFields
  <2>2. lastCmd' = [lastCmd EXCEPT ![f] = msg[f]]
    BY <1>9 DEF StoreField
  <2> HIDE DEF f
  <2>3. \A g \in FieldName : lastCmd'[g] \in Told(g)
    BY <1>5, <2>1, <2>2 DEF MotorCmd
  <2> QED BY <1>5, <1>9, <2>3 DEF StoreField
<1>10. CASE CopyField
  <2> DEFINE f == CopyOrder[cbAt]
  <2>1. f \in FieldName
    BY <1>10, OrdersAreFields
  <2>2. nonRT' = [nonRT EXCEPT ![f] = lastCmd[f]]
    BY <1>10 DEF CopyField
  <2> HIDE DEF f
  <2>3. \A g \in FieldName : nonRT'[g] \in Told(g)
    BY <1>5, <2>1, <2>2 DEF MotorCmd
  <2>4. msg' = Default \/ msg' = msg
    BY <1>10 DEF CopyField
  <2>5. UNCHANGED <<lastCmd, rt, seen>>
    BY <1>10 DEF CopyField
  <2> QED BY <1>5, <1>6, <2>3, <2>4, <2>5
<1>11. CASE ActivateField
  <2> DEFINE f == ActivateOrder[upAt]
             c == IF first THEN FreeFall ELSE Braking
  <2>1. f \in FieldName
    BY <1>11, OrdersAreFields DEF ActivateField
  <2>2. lastCmd' = [lastCmd EXCEPT ![f] = c[f]]
    BY <1>11 DEF ActivateField
  <2>3. Fields(c)
    BY <1>2
  <2> HIDE DEF f, c
  <2>4. \A g \in FieldName : lastCmd'[g] \in Told(g)
    BY <1>5, <2>1, <2>2, <2>3 DEF MotorCmd, Fields
  <2>5. UNCHANGED <<nonRT, rt, msg, seen>>
    BY <1>11 DEF ActivateField
  <2> QED BY <1>5, <2>4, <2>5
<1>12. CASE on_deactivate
  BY <1>5, <1>6, <1>12 DEF on_deactivate
<1>13. CASE readFromRT
  <2>1. (rt' = nonRT \/ rt' = rt) /\ UNCHANGED <<nonRT, lastCmd, msg, seen>>
    BY <1>13 DEF readFromRT
  <2> QED BY <1>5, <2>1
<1>14. CASE TakeField
  <2> DEFINE f == CopyOrder[upAt]
  <2>1. f \in FieldName
    BY <1>14, OrdersAreFields DEF TakeField
  <2>2. lastCmd' = [lastCmd EXCEPT ![f] = rt[f]]
    BY <1>14 DEF TakeField
  <2> HIDE DEF f
  <2>3. \A g \in FieldName : lastCmd'[g] \in Told(g)
    BY <1>5, <2>1, <2>2 DEF MotorCmd
  <2>4. UNCHANGED <<nonRT, rt, msg, seen>>
    BY <1>14 DEF TakeField
  <2> QED BY <1>5, <2>3, <2>4
<1>15. CASE SaneField
  <2> DEFINE f == SaneOrder[upAt]
             w == IF f = "mode" THEN IF lastCmd[f] \in {PMSM, BRAKE} THEN lastCmd[f]
                                     ELSE BRAKE
                  ELSE sane(lastCmd[f])
  <2>1. f \in FieldName
    BY <1>15, OrdersAreFields DEF SaneField
  <2>2. w = lastCmd[f] \/ w = 0
    BY DEF sane
  <2>3. lastCmd' = [lastCmd EXCEPT ![f] = w]
    BY <1>15 DEF SaneField
  <2> HIDE DEF f, w
  <2>4. w \in Told(f)
    BY <1>5, <2>1, <2>2, OwnIsTold
  <2>5. \A g \in FieldName : lastCmd'[g] \in Told(g)
    BY <1>5, <2>1, <2>3, <2>4 DEF MotorCmd
  <2>6. UNCHANGED <<nonRT, rt, msg, seen>>
    BY <1>15 DEF SaneField
  <2> QED BY <1>5, <2>5, <2>6
<1>16. CASE ReadField
  <2> DEFINE s == ReadOrder[upAt]
  <2>1. upAt \in 1..8
    BY <1>16 DEF ReadField, Built
  <2>2. s \in Slot /\ ReadOf[s] \in FieldName
    BY <2>1, OrdersAreFields
  <2>3. seen' = [seen EXCEPT ![s] = lastCmd[ReadOf[s]]]
    BY <1>16 DEF ReadField
  <2> HIDE DEF s
  <2>4. \A t \in Slot : seen'[t] \in Told(ReadOf[t])
    BY <1>5, <2>2, <2>3
  <2>5. UNCHANGED <<lastCmd, nonRT, rt, msg>>
    BY <1>16 DEF ReadField
  <2> QED BY <1>5, <2>4, <2>5
<1>17. CASE WriteEffort \/ NoPosition
  BY <1>3, <1>5, <1>17 DEF WriteEffort, NoPosition, Finish
<1>18. CASE LockBuffer \/ on_activate
  BY <1>5, <1>18 DEF LockBuffer, on_activate
<1> QED
  BY <1>7, <1>8, <1>9, <1>10, <1>11, <1>12, <1>13, <1>14, <1>15, <1>16, <1>17, <1>18
  DEF Next, setCmdCallback, update

LEMMA StepArrival ==
  ASSUME PromiseInv, AuditNext, NEW c \in Commands, Receive(c)
  PROVE  SentInv'
<1>1. Sent' = Sent \cup {c}
  BY ArrivalIsHeard DEF PromiseInv
<1>2. \A f : Told(f) \subseteq Told(f)'
  BY <1>1 DEF Told
<1>3. \A f \in FieldName : c[f] \in Told(f)'
  BY <1>1 DEF Told
<1>4. msg' = c /\ UNCHANGED <<lastCmd, nonRT, rt, seen>>
  BY DEF Receive, buffer, realtime
<1>5. \A f \in FieldName : /\ lastCmd'[f] \in Told(f)' /\ nonRT'[f] \in Told(f)'
                           /\ rt'[f] \in Told(f)' /\ msg'[f] \in Told(f)'
  BY <1>2, <1>3, <1>4 DEF PromiseInv, SentInv, Fields
<1>6. \A s \in Slot : seen'[s] \in Told(ReadOf[s])'
  BY <1>2, <1>4 DEF PromiseInv, SentInv
<1> QED BY <1>5, <1>6 DEF SentInv, Fields

LEMMA StepPhase == PhaseInv /\ TypeOK /\ [Next]_vars => PhaseInv'
  BY DEF PhaseInv, TypeOK, Next, vars, buffer, callback, realtime, on_configure,
     Receive, setCmdCallback, StoreField, LockBuffer, CopyField, on_activate,
     ActivateField, on_deactivate, update, readFromRT, TakeField, SaneField, ReadField,
     WriteEffort, NoPosition, Finish, Built

LEMMA StepPromise == PromiseInv /\ [AuditNext]_<<vars, audit>> => PromiseInv'
<1> SUFFICES ASSUME PromiseInv, [AuditNext]_<<vars, audit>> PROVE PromiseInv'
  OBVIOUS
<1>1. [Next]_vars
  BY DEF AuditNext
<1>2. TypeOK' /\ PhaseInv'
  BY <1>1, StepType, StepPhase DEF PromiseInv
<1>3. CASE \E c \in Commands : Receive(c)
  <2>1. PICK c \in Commands : Receive(c)
    BY <1>3
  <2>2. AuditNext
    BY <2>1 DEF Receive, vars, callback, PromiseInv, TypeOK
  <2>3. HeardInv' /\ SentInv'
    BY <2>1, <2>2, ArrivalIsHeard, StepArrival DEF PromiseInv
  <2> QED BY <1>2, <2>3 DEF PromiseInv
<1>4. CASE ~(\E c \in Commands : Receive(c))
  <2>1. heard' = heard
    BY <1>4, HeardOnlyArrives DEF PromiseInv
  <2>2. HeardInv' /\ Sent' = Sent
    BY <2>1 DEF PromiseInv, HeardInv, Sent, Heard
  <2>3. CASE Next
    BY <1>2, <1>4, <2>2, <2>3, StepSent DEF PromiseInv
  <2>4. CASE UNCHANGED vars
    <3>1. UNCHANGED <<lastCmd, nonRT, rt, msg, seen>>
      BY <2>4 DEF vars, buffer, callback, realtime
    <3>2. SentInv'
      BY <2>2, <3>1 DEF PromiseInv, SentInv, Fields, Told
    <3> QED BY <1>2, <2>2, <3>2 DEF PromiseInv
  <2> QED BY <1>1, <2>3, <2>4
<1> QED BY <1>3, <1>4

-----------------------------------------------------------------------------
(* Every step of the controller is a step of the promise, or none.         *)

LEMMA MapsNext ==
  PromiseInv /\ [AuditNext]_<<vars, audit>>
    => [Promise!PromiseNext]_<<life, limits, Own \cup Heard, effort>>
<1> SUFFICES ASSUME PromiseInv, [AuditNext]_<<vars, audit>>
             PROVE  Promise!PromiseNext \/ UNCHANGED <<life, limits, Own \cup Heard, effort>>
  OBVIOUS
<1>1. CASE \E c \in Commands : Receive(c)
  <2>1. PICK c \in Commands : Receive(c)
    BY <1>1
  <2>2. AuditNext
    BY <2>1 DEF Receive, vars, callback, PromiseInv, TypeOK
  <2>3. Sent' = Sent \cup {c}
    BY <2>1, <2>2, ArrivalIsHeard DEF PromiseInv
  <2>4. Promise!Tell(c)
    BY <2>1, <2>3 DEF Promise!Tell, Receive, Sent, Own
  <2> QED BY <2>4 DEF Promise!PromiseNext
<1>2. CASE ~(\E c \in Commands : Receive(c))
  <2>1. heard' = heard
    BY <1>2, HeardOnlyArrives DEF PromiseInv
  <2>2. UNCHANGED (Own \cup Heard)
    BY <2>1 DEF Heard, Own
  <2>3. CASE on_configure
    BY <2>2, <2>3 DEF on_configure, read_parameters, Promise!PromiseNext, Promise!Prepare, Own
  <2>4. CASE on_deactivate
    <3>1. effort' \in {effort, 0} /\ UNCHANGED limits
      BY <2>4 DEF on_deactivate
    <3>2. Promise!Sleep
      BY <2>2, <2>4, <3>1 DEF on_deactivate, Promise!Sleep, Own
    <3> QED BY <3>2 DEF Promise!PromiseNext
  <2>5. CASE ActivateField
    <3>1. CASE upAt = 6
      BY <2>2, <2>5, <3>1
      DEF ActivateField, PromiseInv, PhaseInv, Promise!PromiseNext, Promise!Wake, Own
    <3>2. CASE upAt # 6
      BY <2>2, <2>5, <3>2 DEF ActivateField
    <3> QED BY <3>1, <3>2
  <2>6. CASE WriteEffort
    <3>1. life = "active" /\ UNCHANGED <<life, limits>> /\ effort' \in Efforts(seen, limits)
      BY <2>6 DEF WriteEffort, Finish, Built, PromiseInv, PhaseInv
    <3>2. \A f : Promise!Told(f) = Told(f)
      BY DEF Promise!Told, Told, Sent, Own
    <3>3. \A s \in Slot : seen[s] \in Told(ReadOf[s])
      BY DEF PromiseInv, SentInv
    <3>4. /\ seen["mode"] \in Told("mode")   /\ seen["pos"] \in Told("q")
          /\ seen["kp"] \in Told("kp")       /\ seen["posStop"] \in Told("q")
          /\ seen["vel"] \in Told("dq")      /\ seen["kd"] \in Told("kd")
          /\ seen["velStop"] \in Told("dq")  /\ seen["tau"] \in Told("tau")
      BY <3>3 DEF Slot, ReadOf
    <3>5. seen = [s \in Slot |-> seen[s]]
      BY DEF PromiseInv, TypeOK
    <3>6. seen = [mode |-> seen["mode"], pos |-> seen["pos"], kp |-> seen["kp"],
                  posStop |-> seen["posStop"], vel |-> seen["vel"], kd |-> seen["kd"],
                  velStop |-> seen["velStop"], tau |-> seen["tau"]]
      BY <3>5 DEF Slot
    <3>7. seen \in Promise!Reading
      BY <3>2, <3>4, <3>6 DEF Promise!Reading
    <3>8. Promise!Move
      BY <2>2, <3>1, <3>7 DEF Promise!Move, Own
    <3> QED BY <3>8 DEF Promise!PromiseNext
  <2>7. CASE UNCHANGED <<life, limits, effort>>
    BY <2>2, <2>7
  <2> QED
    BY <1>2, <2>3, <2>4, <2>5, <2>6, <2>7
    DEF AuditNext, Next, vars, buffer, callback, realtime, setCmdCallback, StoreField,
        LockBuffer, CopyField, on_activate, update, readFromRT, TakeField, SaneField,
        ReadField, NoPosition, Finish
<1> QED BY <1>1, <1>2

\* The two threads of the joint controller, for any commands and measurements,
\* implement the joint's promise (LeggedController with the history of JointAudit).
THEOREM ImplementsPromise == AuditSpec => KeepsPromise
<1>1. AuditInit => Promise!PromiseInit
  BY DEF AuditInit, Init, Promise!PromiseInit, Heard
<1>2. PromiseInv /\ [AuditNext]_<<vars, audit>>
        => [Promise!PromiseNext]_<<life, limits, {Default, FreeFall, Braking} \cup Heard, effort>>
  BY MapsNext DEF Own
<1> QED
  BY <1>1, <1>2, InitPromise, StepPromise, PTL DEF AuditSpec, KeepsPromise, Promise!PromiseSpec
-----------------------------------------------------------------------------
(* Exactness.  A command copied field by field, in an order that meets     *)
(* every field once, arrives whole.                                        *)

Permutes(order) == /\ \A j \in 1..6 : order[j] \in FieldName
                   /\ \A f \in FieldName : \E j \in 1..6 : f = order[j]
                   /\ \A i, j \in 1..6 : order[i] = order[j] => i = j

LEMMA OrdersPermute ==
  Permutes(CallbackOrder) /\ Permutes(CopyOrder) /\ Permutes(SaneOrder)
<1>1. Permutes(CallbackOrder)
  BY DEF Permutes, CallbackOrder, FieldName
<1>2. Permutes(CopyOrder)
  BY DEF Permutes, CopyOrder, FieldName
<1>3. Permutes(SaneOrder)
  BY DEF Permutes, SaneOrder, FieldName
<1> QED BY <1>1, <1>2, <1>3

LEMMA UptoStarts ==
  ASSUME NEW order, NEW a, NEW b
  PROVE  Upto(order, 1, a, b) /\ (a = b => Beyond(order, 1, a, b))
  BY DEF Upto, Beyond

LEMMA UptoEnds ==
  ASSUME NEW order, Permutes(order), NEW a \in MotorCmd, NEW b \in MotorCmd,
         Upto(order, 7, a, b)
  PROVE  a = b
<1>1. \A f \in FieldName : a[f] = b[f]
  BY DEF Upto, Permutes
<1> QED BY <1>1 DEF MotorCmd

LEMMA UptoGrows ==
  ASSUME NEW order, Permutes(order), NEW k \in 1..6, NEW v,
         NEW a \in MotorCmd, NEW b, NEW c,
         Upto(order, k, a, b), v = b[order[k]]
  PROVE  /\ Upto(order, k + 1, [a EXCEPT ![order[k]] = v], b)
         /\ Beyond(order, k, a, c) => Beyond(order, k + 1, [a EXCEPT ![order[k]] = v], c)
<1> DEFINE e == [a EXCEPT ![order[k]] = v]
<1>1. \A j \in 1..6 : j # k => e[order[j]] = a[order[j]]
  BY DEF Permutes, MotorCmd
<1>2. e[order[k]] = v
  BY DEF Permutes, MotorCmd
<1> HIDE DEF e
<1>3. Upto(order, k + 1, e, b)
  BY <1>1, <1>2 DEF Upto
<1>4. Beyond(order, k, a, c) => Beyond(order, k + 1, e, c)
  BY <1>1 DEF Beyond
<1> QED BY <1>3, <1>4 DEF e

LEMMA CleanedIsCommand == ASSUME NEW c \in MotorCmd PROVE Cleaned(c) \in MotorCmd
  BY DEF Cleaned, MotorCmd, sane, Finite, FieldName

-----------------------------------------------------------------------------

LEMMA InitExact == AuditInit => ExactInv
<1> SUFFICES ASSUME AuditInit PROVE ExactInv
  OBVIOUS
<1>1. /\ cb = "idle" /\ up = "idle" /\ rt = stored /\ nonRT = stored /\ ~fresh
  BY DEF AuditInit, Init
<1> QED
  BY <1>1 DEF ExactInv, NoCallbackYet, CopiesFromFirst, Unshared, Delivered, Handed, Taken

LEMMA StepNoCallbackYet == NoCallbackYet /\ [Next]_vars => NoCallbackYet'
  BY DEF NoCallbackYet, Next, vars, buffer, callback, realtime, on_configure,
     Receive, setCmdCallback, StoreField, LockBuffer, CopyField, on_activate,
     ActivateField, on_deactivate, update, readFromRT, TakeField, SaneField, ReadField,
     WriteEffort, NoPosition, Finish, Built

LEMMA StepCopiesFromFirst == CopiesFromFirst /\ [Next]_vars => CopiesFromFirst'
  BY DEF CopiesFromFirst, Next, vars, buffer, callback, realtime, on_configure,
     Receive, setCmdCallback, StoreField, LockBuffer, CopyField, on_activate,
     ActivateField, on_deactivate, update, readFromRT, TakeField, SaneField, ReadField,
     WriteEffort, NoPosition, Finish, Built

\* A callback that begins during an update overlaps it; so does one that an update finds.
LEMMA StepUnshared ==
  ASSUME TypeOK, PhaseInv, Unshared, AuditNext
  PROVE  Unshared'
<1> SUFFICES ASSUME up' \in {"copy", "sane", "build"}, ~overlap'
             PROVE  cb' = "idle" /\ ~fresh'
  BY DEF Unshared
<1>1. cb' = "idle" /\ ~overlap
  BY DEF AuditNext, audit_step
<1>2. CASE up \in {"copy", "sane", "build"}
  <2>1. cb = "idle" /\ ~fresh
    BY <1>1, <1>2 DEF Unshared
  <2>2. fresh' = fresh
    BY <1>2, <2>1 DEF AuditNext, Next, buffer, callback, realtime, on_configure, PhaseInv,
       Receive, setCmdCallback, StoreField, LockBuffer, CopyField, on_activate,
       ActivateField, on_deactivate, update, readFromRT, TakeField, SaneField, ReadField,
       WriteEffort, NoPosition, Finish, Built
  <2> QED BY <1>1, <2>1, <2>2
<1>3. CASE up \notin {"copy", "sane", "build"}
  <2>1. readFromRT
    BY <1>3 DEF AuditNext, Next, buffer, callback, realtime, on_configure,
       Receive, setCmdCallback, StoreField, LockBuffer, CopyField, on_activate,
       ActivateField, on_deactivate, update, TakeField, SaneField, ReadField,
       WriteEffort, NoPosition, Finish, Built
  <2>2. cb = "idle"
    BY <1>1, <2>1 DEF readFromRT, callback
  <2>3. fresh' = FALSE
    BY <2>1, <2>2 DEF readFromRT, Locked, buffer
  <2> QED BY <1>1, <2>3
<1> QED BY <1>2, <1>3
\* The last field a callback hands over completes the message in the writer's cell.
LEMMA HandedWhole ==
  ASSUME TypeOK, Handed, CopyField, cbAt = 6, ~disturbed
  PROVE  nonRT' = msg
<1>1. cb = "copy" /\ nonRT' = [nonRT EXCEPT ![CopyOrder[cbAt]] = lastCmd[CopyOrder[cbAt]]]
  BY DEF CopyField
<1>2. lastCmd = msg /\ Upto(CopyOrder, cbAt, nonRT, msg)
  BY <1>1 DEF Handed
<1>3. nonRT \in MotorCmd /\ msg \in MotorCmd /\ cbAt \in 1..6
  BY DEF TypeOK
<1>4. Upto(CopyOrder, 7, nonRT', msg)
  <2>1. Upto(CopyOrder, cbAt + 1, nonRT', msg)
    BY <1>1, <1>2, <1>3, OrdersPermute, UptoGrows
  <2> QED BY <2>1
<1>5. nonRT' \in MotorCmd
  BY <1>1, <1>2, <1>3 DEF MotorCmd
<1> QED BY <1>3, <1>4, <1>5, OrdersPermute, UptoEnds

LEMMA StepDelivered ==
  ASSUME TypeOK, TypeOK', Configured, NoCallbackYet, PhaseInv, Delivered, Handed, AuditNext
  PROVE  Delivered'
<1> USE DEF buffer, callback, realtime
<1> SUFFICES ASSUME ~mixed'
             PROVE  /\ fresh' /\ cb' # "copy" => nonRT' = stored'
                    /\ ~fresh' => rt' = stored'
  BY DEF Delivered
<1>1. CASE CopyField /\ cbAt = 6
  <2>1. Stored
    BY <1>1 DEF CopyField, Stored
  <2>2. stored' = msg /\ ~disturbed
    BY <2>1 DEF AuditNext, audit_step
  <2>3. nonRT' = msg /\ fresh'
    BY <1>1, <2>2, HandedWhole DEF CopyField
  <2> QED BY <2>2, <2>3
<1>2. CASE on_configure
  <2>1. Emptied /\ ~Stored
    BY <1>2 DEF on_configure, Emptied, Stored, NoCallbackYet
  <2>2. stored' = Default
    BY <2>1 DEF AuditNext, audit_step
  <2> QED BY <1>2, <2>2 DEF on_configure
<1>3. CASE on_deactivate
  <2>1. Emptied /\ ~Stored
    BY <1>3 DEF on_deactivate, Emptied, Stored, Locked
  <2>2. stored' = Default
    BY <2>1 DEF AuditNext, audit_step
  <2> QED BY <1>3, <2>2 DEF on_deactivate
<1>4. CASE ~(CopyField /\ cbAt = 6) /\ ~on_configure /\ ~on_deactivate
  <2>1. ~Emptied /\ ~Stored
    BY <1>4 DEF AuditNext, Next, Emptied, Stored, on_configure, PhaseInv,
       Receive, setCmdCallback, StoreField, LockBuffer, CopyField, on_activate,
       ActivateField, update, readFromRT, TakeField, SaneField, ReadField,
       WriteEffort, NoPosition, Finish, Built
  <2>2. stored' = stored /\ ~mixed
    BY <2>1 DEF AuditNext, audit_step
  <2>3. /\ fresh /\ cb # "copy" => nonRT = stored
        /\ ~fresh => rt = stored
    BY <2>2 DEF Delivered
  <2>4. CASE CopyField
    BY <1>4, <2>2, <2>3, <2>4 DEF CopyField
  <2>5. CASE readFromRT
    <3>1. CASE fresh /\ ~Locked
      BY <2>2, <2>3, <2>5, <3>1 DEF readFromRT, Locked
    <3>2. CASE ~(fresh /\ ~Locked)
      BY <2>2, <2>3, <2>5, <3>2 DEF readFromRT, Locked
    <3> QED BY <3>1, <3>2
  <2>6. CASE ~CopyField /\ ~readFromRT
    <3>1. UNCHANGED buffer /\ (cb' # "copy" => cb # "copy")
      BY <1>4, <2>6 DEF AuditNext, Next,
         Receive, setCmdCallback, StoreField, LockBuffer, on_activate,
         ActivateField, update, TakeField, SaneField, ReadField,
         WriteEffort, NoPosition, Finish, Built
    <3> QED BY <2>2, <2>3, <3>1
  <2> QED BY <2>4, <2>5, <2>6
<1> QED BY <1>1, <1>2, <1>3, <1>4

\* Whoever writes lastCmd under a callback disturbs it.
LEMMA StepHanded ==
  ASSUME TypeOK, TypeOK', NoCallbackYet, CopiesFromFirst, Handed, AuditNext
  PROVE  Handed'
<1> USE DEF buffer, callback, realtime
<1> SUFFICES ASSUME ~disturbed'
             PROVE  /\ cb' = "store" => Upto(CallbackOrder, cbAt', lastCmd', msg')
                    /\ cb' \in {"lock", "copy"} => lastCmd' = msg'
                    /\ cb' = "copy" => Upto(CopyOrder, cbAt', nonRT', msg')
  BY DEF Handed
<1>1. CASE \E c \in Commands : Receive(c)
  <2>1. cb' = "store" /\ cbAt' = 1
    BY <1>1 DEF Receive
  <2> QED BY <2>1, UptoStarts
<1>2. CASE StoreField
  <2> DEFINE f == CallbackOrder[cbAt]
  <2>1. cb = "store" /\ cb' # "idle" /\ ~disturbed
    BY <1>2 DEF StoreField, AuditNext, audit_step
  <2>2. Upto(CallbackOrder, cbAt, lastCmd, msg)
    BY <2>1 DEF Handed
  <2>3. lastCmd' = [lastCmd EXCEPT ![f] = msg[f]] /\ msg' = msg
    BY <1>2 DEF StoreField
  <2>4. lastCmd \in MotorCmd /\ lastCmd' \in MotorCmd /\ msg \in MotorCmd /\ cbAt \in 1..6
    BY DEF TypeOK
  <2>5. Upto(CallbackOrder, cbAt + 1, lastCmd', msg)
    BY <2>2, <2>3, <2>4, OrdersPermute, UptoGrows
  <2>6. CASE cbAt = 6
    <3>1. Upto(CallbackOrder, 7, lastCmd', msg)
      BY <2>5, <2>6
    <3>2. lastCmd' = msg
      BY <2>4, <3>1, OrdersPermute, UptoEnds
    <3>3. cb' = "lock"
      BY <1>2, <2>6 DEF StoreField
    <3> QED BY <2>3, <3>2, <3>3
  <2>7. CASE cbAt # 6
    <3>1. cb' = "store" /\ cbAt' = cbAt + 1
      BY <1>2, <2>7 DEF StoreField
    <3> QED BY <2>3, <2>5, <3>1
  <2> QED BY <2>6, <2>7
<1>3. CASE LockBuffer
  <2>1. /\ cb = "lock" /\ cb' = "copy" /\ ~disturbed /\ cbAt' = 1
        /\ UNCHANGED <<lastCmd, msg>>
    BY <1>3 DEF LockBuffer, AuditNext, audit_step, CopiesFromFirst
  <2> QED BY <2>1, UptoStarts DEF Handed
<1>4. CASE CopyField
  <2>1. CASE cbAt = 6
    BY <1>4, <2>1 DEF CopyField
  <2>2. CASE cbAt # 6
    <3> DEFINE f == CopyOrder[cbAt]
    <3>1. /\ cb = "copy" /\ cb' = "copy" /\ cbAt' = cbAt + 1 /\ ~disturbed
          /\ msg' = msg /\ lastCmd' = lastCmd
          /\ nonRT' = [nonRT EXCEPT ![f] = lastCmd[f]]
      BY <1>4, <2>2 DEF CopyField, AuditNext, audit_step
    <3>2. lastCmd = msg /\ Upto(CopyOrder, cbAt, nonRT, msg)
      BY <3>1 DEF Handed
    <3>3. nonRT \in MotorCmd /\ cbAt \in 1..6
      BY DEF TypeOK
    <3>4. Upto(CopyOrder, cbAt + 1, nonRT', msg)
      BY <3>1, <3>2, <3>3, OrdersPermute, UptoGrows
    <3> QED BY <3>1, <3>2, <3>4
  <2> QED BY <2>1, <2>2
<1>5. CASE cb' = "idle"
  BY <1>5
<1>6. CASE ActivateField \/ TakeField \/ SaneField
  <2>1. cb' = cb /\ Scratches
    BY <1>6 DEF ActivateField, TakeField, SaneField, Scratches, TypeOK
  <2>2. cb' = "idle"
    BY <2>1 DEF AuditNext, audit_step
  <2> QED BY <2>2
<1>7. CASE UNCHANGED <<lastCmd, nonRT, callback>>
  <2>1. cb' # "idle" => ~disturbed
    BY <1>7 DEF AuditNext, audit_step
  <2> QED BY <1>7, <2>1 DEF Handed
<1>8. on_configure \/ on_deactivate => cb' \notin {"copy"} /\ UNCHANGED <<lastCmd, callback>>
  BY DEF on_configure, on_deactivate, NoCallbackYet, Locked
<1>9. CASE on_configure \/ on_deactivate
  <2>1. cb' # "idle" => ~disturbed
    BY <1>8, <1>9 DEF AuditNext, audit_step
  <2> QED BY <1>8, <1>9, <2>1 DEF Handed
<1> QED
  BY <1>1, <1>2, <1>3, <1>4, <1>5, <1>6, <1>7, <1>9
  DEF AuditNext, Next, setCmdCallback, on_activate, update, readFromRT, ReadField,
      WriteEffort, NoPosition, Finish

\* An update that no callback overlaps turns the reader's cell into what it reads.
LEMMA StepTaken ==
  ASSUME TypeOK, TypeOK', Configured, PhaseInv, Unshared, Taken, AuditNext
  PROVE  Taken'
<1> USE DEF buffer, callback, realtime
<1> SUFFICES ASSUME ~overlap'
    PROVE  /\ up' = "copy" => Upto(CopyOrder, upAt', lastCmd', rt')
           /\ up' = "sane" => /\ Upto(SaneOrder, upAt', lastCmd', Cleaned(rt'))
                              /\ Beyond(SaneOrder, upAt', lastCmd', rt')
           /\ up' = "build" => lastCmd' = Cleaned(rt')
           /\ up' = "build" => \A j \in 1..8 :
                j < upAt' => seen'[ReadOrder[j]] = Cleaned(rt')[ReadOf[ReadOrder[j]]]
  BY DEF Taken, Cleaned
<1>1. CASE readFromRT
  <2>1. up' = "copy" /\ upAt' = 1
    BY <1>1 DEF readFromRT
  <2> QED BY <2>1, UptoStarts
<1>2. CASE up' \notin {"copy", "sane", "build"}
  BY <1>2
<1>3. CASE ~readFromRT /\ up' \in {"copy", "sane", "build"}
  <2>1. up \in {"copy", "sane", "build"}
    BY <1>3 DEF AuditNext, Next, on_configure, Receive, setCmdCallback, StoreField,
       LockBuffer, CopyField, on_activate, ActivateField, on_deactivate, update,
       TakeField, SaneField, ReadField, WriteEffort, NoPosition, Finish, Built
  <2>2. ~overlap /\ cb' = "idle"
    BY <1>3 DEF AuditNext, audit_step
  <2>3. cb = "idle"
    BY <2>1, <2>2 DEF Unshared
  <2>4. TakeField \/ SaneField \/ ReadField
    BY <1>3, <2>1, <2>2, <2>3 DEF AuditNext, Next, on_configure, Receive, setCmdCallback,
       StoreField, LockBuffer, CopyField, on_activate, ActivateField, on_deactivate,
       update, WriteEffort, NoPosition, Finish, Built, PhaseInv
  <2>5. rt' = rt /\ rt \in MotorCmd /\ lastCmd \in MotorCmd /\ lastCmd' \in MotorCmd
        /\ Cleaned(rt) \in MotorCmd
    BY <2>4, CleanedIsCommand DEF TakeField, SaneField, ReadField, TypeOK
  <2>6. CASE TakeField
    <3> DEFINE f == CopyOrder[upAt]
    <3>1. up = "copy" /\ upAt \in 1..6 /\ lastCmd' = [lastCmd EXCEPT ![f] = rt[f]]
      BY <2>6 DEF TakeField, TypeOK
    <3>2. Upto(CopyOrder, upAt, lastCmd, rt)
      BY <2>2, <3>1 DEF Taken
    <3>3. Upto(CopyOrder, upAt + 1, lastCmd', rt)
      BY <2>5, <3>1, <3>2, OrdersPermute, UptoGrows
    <3>4. CASE upAt = 6
      <4>1. lastCmd' = rt
        BY <2>5, <3>3, <3>4, OrdersPermute, UptoEnds
      <4>2. up' = "sane" /\ upAt' = 1
        BY <2>6, <3>4 DEF TakeField
      <4> QED BY <2>5, <4>1, <4>2, UptoStarts
    <3>5. CASE upAt # 6
      <4>1. up' = "copy" /\ upAt' = upAt + 1
        BY <2>6, <3>5 DEF TakeField
      <4> QED BY <2>5, <3>3, <4>1
    <3> QED BY <3>4, <3>5
  <2>7. CASE SaneField
    <3> DEFINE f == SaneOrder[upAt]
               w == IF f = "mode" THEN IF lastCmd[f] \in {PMSM, BRAKE} THEN lastCmd[f]
                                       ELSE BRAKE
                    ELSE sane(lastCmd[f])
    <3>1. up = "sane" /\ upAt \in 1..6 /\ lastCmd' = [lastCmd EXCEPT ![f] = w]
      BY <2>7 DEF SaneField, TypeOK
    <3>2. /\ Upto(SaneOrder, upAt, lastCmd, Cleaned(rt))
          /\ Beyond(SaneOrder, upAt, lastCmd, rt)
      BY <2>2, <3>1 DEF Taken
    <3>3. lastCmd[f] = rt[f] /\ f \in FieldName
      BY <3>1, <3>2, OrdersAreFields DEF Beyond
    <3>4. w = Cleaned(rt)[f]
      BY <3>3 DEF Cleaned
    <3> HIDE DEF w
    <3>5. /\ Upto(SaneOrder, upAt + 1, lastCmd', Cleaned(rt))
          /\ Beyond(SaneOrder, upAt + 1, lastCmd', rt)
      BY <2>5, <3>1, <3>2, <3>4, OrdersPermute, UptoGrows
    <3>6. CASE upAt = 6
      <4>1. lastCmd' = Cleaned(rt)
        BY <2>5, <3>5, <3>6, OrdersPermute, UptoEnds
      <4>2. up' = "build" /\ upAt' = 1
        BY <2>7, <3>6 DEF SaneField
      <4> QED BY <2>5, <4>1, <4>2
    <3>7. CASE upAt # 6
      <4>1. up' = "sane" /\ upAt' = upAt + 1
        BY <2>7, <3>7 DEF SaneField
      <4> QED BY <2>5, <3>5, <4>1
    <3> QED BY <3>6, <3>7
  <2>8. CASE ReadField
    <3> DEFINE s == ReadOrder[upAt]
    <3>1. /\ up = "build" /\ up' = "build" /\ upAt \in 1..8 /\ upAt' = upAt + 1
          /\ seen' = [seen EXCEPT ![s] = lastCmd[ReadOf[s]]] /\ lastCmd' = lastCmd
      BY <2>8 DEF ReadField, Built, TypeOK
    <3>2. /\ lastCmd = Cleaned(rt)
          /\ \A j \in 1..8 : j < upAt => seen[ReadOrder[j]] = Cleaned(rt)[ReadOf[ReadOrder[j]]]
      BY <2>2, <3>1 DEF Taken
    <3>3. /\ \A j \in 1..8 : ReadOrder[j] \in Slot /\ (j # upAt => ReadOrder[j] # s)
          /\ DOMAIN seen = Slot
      BY <3>1, OrdersAreFields DEF ReadOrder, TypeOK
    <3>4. \A j \in 1..8 :
            j < upAt + 1 => seen'[ReadOrder[j]] = Cleaned(rt)[ReadOf[ReadOrder[j]]]
      BY <3>1, <3>2, <3>3
    <3> QED BY <2>5, <3>1, <3>2, <3>4
  <2> QED BY <2>4, <2>6, <2>7, <2>8
<1> QED BY <1>1, <1>2, <1>3

LEMMA StepExact ==
  SafeInv /\ PromiseInv /\ ExactInv /\ [AuditNext]_<<vars, audit>> => ExactInv'
<1> SUFFICES ASSUME SafeInv, PromiseInv, ExactInv, [AuditNext]_<<vars, audit>>
             PROVE  ExactInv'
  OBVIOUS
<1>1. [Next]_vars /\ TypeOK /\ TypeOK' /\ PhaseInv /\ Configured
  BY StepType DEF AuditNext, PromiseInv, SafeInv
<1>2. NoCallbackYet' /\ CopiesFromFirst'
  BY <1>1, StepNoCallbackYet, StepCopiesFromFirst DEF ExactInv
<1>3. CASE AuditNext
  BY <1>1, <1>2, <1>3, StepUnshared, StepDelivered, StepHanded, StepTaken DEF ExactInv
<1>4. CASE UNCHANGED <<vars, audit>>
  BY <1>2, <1>4 DEF vars, audit, buffer, callback, realtime, ExactInv, Unshared,
     Delivered, Handed, Taken, Upto, Beyond, Cleaned
<1> QED BY <1>3, <1>4

-----------------------------------------------------------------------------

\* Two readings that agree in the mode, and in everything else if that asks for
\* control, are answered alike.
LEMMA SameAnswer ==
  ASSUME NEW r \in [Slot -> Number], NEW s \in [Slot -> Number], NEW limited \in BOOLEAN,
         r.mode = PMSM <=> s.mode = PMSM, r.mode = PMSM => r = s
  PROVE  Efforts(r, limited) = Efforts(s, limited)
<1>1. servoCmd(r, limited) = servoCmd(s, limited)
  BY DEF servoCmd
<1> QED BY <1>1 DEF Efforts

\* What a finished, unraced update has read amounts to the command stored last.
LEMMA ReadsStored ==
  ASSUME TypeOK, TypeOK', Unshared, Delivered, Taken, WriteEffort, ~overlap, ~mixed
  PROVE  effort' \in Efforts(Sanitised(stored), limits)
<1>1. up = "build" /\ effort' \in Efforts(seen, limits)
  BY DEF WriteEffort, Built
<1>2. rt = stored
  BY <1>1 DEF Unshared, Delivered
<1>3. \A j \in 1..8 : j < upAt => seen[ReadOrder[j]] = Cleaned(rt)[ReadOf[ReadOrder[j]]]
  BY <1>1 DEF Taken
<1>4. rt \in MotorCmd /\ seen \in [Slot -> Number] /\ limits \in BOOLEAN /\ upAt \in 1..9
  BY DEF TypeOK
<1> DEFINE s == Sanitised(rt)
<1>5. s \in [Slot -> Number]
  BY <1>4, OrdersAreFields DEF Sanitised, sane, Finite, MotorCmd
<1>6. /\ s.mode = sane(rt["mode"])
      /\ \A t \in Slot \ {"mode"} : s[t] = Cleaned(rt)[ReadOf[t]]
  BY DEF Sanitised, Cleaned, Slot, ReadOf, FieldName
<1>7. upAt >= 2 /\ seen.mode = Cleaned(rt)["mode"]
  <2>1. upAt >= 2
    BY <1>4 DEF WriteEffort, Built
  <2>2. seen[ReadOrder[1]] = Cleaned(rt)[ReadOf[ReadOrder[1]]]
    BY <1>3, <1>4, <2>1
  <2> QED BY <2>1, <2>2 DEF ReadOrder, ReadOf, Slot
<1>8. seen.mode = PMSM <=> s.mode = PMSM
  BY <1>4, <1>6, <1>7, NumberAssumption DEF Cleaned, sane, Finite, FieldName
<1>9. ASSUME seen.mode = PMSM PROVE seen = s
  <2>1. upAt = 9
    BY <1>9 DEF WriteEffort, Built
  <2>2. \A j \in 1..8 : seen[ReadOrder[j]] = Cleaned(rt)[ReadOf[ReadOrder[j]]]
    BY <1>3, <2>1
  <2>3. \A t \in Slot : \E j \in 1..8 : t = ReadOrder[j]
    BY DEF Slot, ReadOrder
  <2>4. \A t \in Slot : seen[t] = Cleaned(rt)[ReadOf[t]]
    BY <2>2, <2>3
  <2>5. \A t \in Slot : seen[t] = s[t]
    BY <1>6, <1>8, <1>9, <2>4
  <2> QED BY <1>4, <1>5, <2>5
<1> HIDE DEF s
<1>10. Efforts(seen, limits) = Efforts(s, limits)
  BY <1>4, <1>5, <1>8, <1>9, SameAnswer
<1> QED BY <1>1, <1>2, <1>10 DEF s

LEMMA AlwaysExact == AuditSpec => [](SafeInv /\ PromiseInv /\ ExactInv)
<1>1. AuditInit => SafeInv /\ PromiseInv /\ ExactInv
  BY InitSafe, InitPromise, InitExact DEF AuditInit
<1>2. SafeInv /\ PromiseInv /\ ExactInv /\ [AuditNext]_<<vars, audit>>
        => (SafeInv /\ PromiseInv /\ ExactInv)'
  <2>1. [AuditNext]_<<vars, audit>> => [Next]_vars
    BY DEF AuditNext
  <2> QED BY <2>1, StepSafe, StepPromise, StepExact
<1> QED BY <1>1, <1>2, PTL DEF AuditSpec

\* What the buffer, the callback and the update hold between two of their steps, for
\* any commands (JointAudit.ExactInv).
THEOREM ExactInvariant == AuditSpec => []ExactInv
<1> QED BY AlwaysExact, PTL

\* An update that no callback overlaps obeys the command stored last, field for field,
\* unless lastCmd was written under the callback that stored it (setCmdCallback, update).
THEOREM ObeysUnlessRaced == AuditSpec => ExactUnlessRaced
<1>1. SafeInv /\ PromiseInv /\ ExactInv /\ [AuditNext]_<<vars, audit>>
        => [WriteEffort /\ ~overlap /\ ~mixed =>
              effort' \in Efforts(Sanitised(stored), limits)]_vars
  <2> SUFFICES ASSUME SafeInv, ExactInv, [AuditNext]_<<vars, audit>>,
                      WriteEffort, ~overlap, ~mixed
               PROVE  effort' \in Efforts(Sanitised(stored), limits)
    OBVIOUS
  <2>1. TypeOK /\ TypeOK'
    BY StepType DEF AuditNext, SafeInv
  <2> QED BY <2>1, ReadsStored DEF ExactInv
<1> QED BY <1>1, AlwaysExact, PTL DEF AuditSpec, ExactUnlessRaced

================================================================================
