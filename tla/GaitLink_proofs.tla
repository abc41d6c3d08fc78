--------------------------- MODULE GaitLink_proofs ---------------------------
(***************************************************************************)
(* Proofs about the ramp of gait_node, the memory the subscribers share    *)
(* with the control thread, and the two together.                          *)
(***************************************************************************)
EXTENDS GaitLink, SequenceTheorems, TLAPS

-----------------------------------------------------------------------------
(* The ramp *)

LEMMA RoundedIsNear ==
  ASSUME NEW d \in Int, NEW s \in Rounded(d)
  PROVE  s \in Int /\ Near(n * s, d)
  BY DEF Rounded

LEMMA OneStepLess ==
  ASSUME NEW c \in Int, NEW s \in Int, NEW k \in Int, NEW m \in Int
  PROVE  (c + s) + (m - (k + 1)) * s = c + (m - k) * s
<1>1. (m - (k + 1)) * s = (m - k) * s - s
  OBVIOUS
<1>2. (m - k) * s \in Int
  OBVIOUS
<1> QED BY <1>1, <1>2

LEMMA StepIsPartOfTheWay ==
  ASSUME NEW s \in Int, NEW k \in Nat \ {0}
  PROVE  /\ k * s \in Int
         /\ s >= 0 => k * s >= s
         /\ s <= 0 => k * s <= s
<1>1. k * s = s + (k - 1) * s /\ (k - 1) * s \in Int /\ k * s \in Int
  OBVIOUS
<1>2. s >= 0 => (k - 1) * s >= 0
  OBVIOUS
<1>3. s <= 0 => (k - 1) * s <= 0
  OBVIOUS
<1> QED BY <1>1, <1>2, <1>3

\* Between a number within the commands and one that ends near a command, every step is
\* within the commands.
LEMMA WayIsWithin ==
  ASSUME NEW p \in Parts, NEW c \in Int, NEW s \in Int, NEW k \in Nat \ {0},
         NEW t \in Int, t \in Asked(p), Within(p, c), Near(t, c + k * s),
         Asked(p) \subseteq Int
  PROVE  Within(p, c + s)
<1>1. k * s \in Int /\ (s >= 0 => k * s >= s) /\ (s <= 0 => k * s <= s)
  BY StepIsPartOfTheWay
<1>2. n \in Nat
  BY CommandAssumption
<1>3. \E y \in Asked(p) : y < (c + s) + n
  <2>1. CASE s >= 0
    BY <2>1, <1>2 DEF Within
  <2>2. CASE s < 0
    <3>1. t < (c + s) + n
      BY <2>2, <1>1, <1>2 DEF Near
    <3> QED BY <3>1
  <2> QED BY <2>1, <2>2
<1>4. \E y \in Asked(p) : c + s < y + n
  <2>1. CASE s < 0
    BY <2>1, <1>2 DEF Within
  <2>2. CASE s >= 0
    <3>1. c + s < t + n
      BY <2>2, <1>1, <1>2 DEF Near
    <3> QED BY <3>1
  <2> QED BY <2>1, <2>2
<1> QED BY <1>3, <1>4 DEF Within

NodeInv == NodeTypeOK /\ OnTrack /\ StaysWithin

LEMMA CommandsAreInts ==
  /\ \A p \in Parts : Asked(p) \subseteq Int
  /\ \A g \in Commands \cup {Home} : g \in Gait /\ \A p \in Parts : g[p] \in Asked(p)
  /\ n \in Nat \ {0}
  BY CommandAssumption DEF Asked, Gait

LEMMA NodeStarts ==
  ASSUME NodeInit
  PROVE  NodeInv
<1> USE CommandsAreInts DEF NodeInit
<1>1. NodeTypeOK
  BY DEF NodeTypeOK, Gait, Zero
<1>2. OnTrack
  <2> SUFFICES ASSUME NEW p \in Parts PROVE Near(target[p], curr[p] + (n - i) * step[p])
    BY DEF OnTrack
  <2>1. (n - i) * step[p] = 0 /\ Home[p] \in Int
    BY DEF Zero, Gait
  <2> QED BY <2>1 DEF Near
<1>3. StaysWithin
  <2> SUFFICES ASSUME NEW p \in Parts PROVE Within(p, Home[p])
    BY DEF StaysWithin
  <2>1. Home[p] \in Int /\ Home[p] \in Asked(p) /\ n > 0
    BY DEF Gait
  <2>2. Home[p] < Home[p] + n
    BY <2>1
  <2> QED BY <2>1, <2>2 DEF Within
<1> QED BY <1>1, <1>2, <1>3 DEF NodeInv

LEMMA CommandKeepsNode ==
  ASSUME NodeInv, NEW g \in Commands, on_gait_command(g)
  PROVE  NodeInv'
<1> USE CommandsAreInts DEF NodeInv, on_gait_command
<1>1. g \in Gait /\ curr \in Gait
  BY DEF NodeTypeOK
<1>2. \A p \in Parts : step'[p] \in Int /\ Near(n * step'[p], g[p] - curr[p])
  <2> TAKE p \in Parts
  <2>1. g[p] - curr[p] \in Int /\ step'[p] \in Rounded(g[p] - curr[p])
    BY <1>1 DEF Gait
  <2> QED BY <2>1, RoundedIsNear
<1>3. NodeTypeOK'
  <2>1. step' \in [Parts -> Int]
    BY <1>2
  <2> QED BY <2>1 DEF NodeTypeOK, Gait
<1>4. OnTrack'
  <2> SUFFICES ASSUME NEW p \in Parts
               PROVE  Near(g[p], curr[p] + (n - 0) * step'[p])
    BY DEF OnTrack
  <2>1. g[p] \in Int /\ curr[p] \in Int /\ n * step'[p] \in Int /\ (n - 0) * step'[p] = n * step'[p]
    BY <1>1, <1>2 DEF Gait
  <2> QED BY <2>1, <1>2 DEF Near
<1>5. StaysWithin'
  BY DEF StaysWithin
<1> QED BY <1>3, <1>4, <1>5

LEMMA TimerKeepsNode ==
  ASSUME NodeInv, timer_callback
  PROVE  NodeInv'
<1> USE CommandsAreInts DEF NodeInv, timer_callback
<1>1. CASE i < n
  <2>1. \A p \in Parts : /\ curr[p] \in Int /\ step[p] \in Int /\ target[p] \in Int
                         /\ curr'[p] = curr[p] + step[p]
    BY <1>1 DEF NodeTypeOK, Gait
  <2>2. NodeTypeOK'
    BY <1>1, <2>1 DEF NodeTypeOK, Gait
  <2>3. i \in Nat /\ i' = i + 1 /\ n - i \in Nat \ {0}
    BY <1>1 DEF NodeTypeOK
  <2>4. OnTrack'
    <3> SUFFICES ASSUME NEW p \in Parts
                 PROVE  Near(target[p], (curr[p] + step[p]) + (n - (i + 1)) * step[p])
      BY <1>1, <2>1, <2>3 DEF OnTrack
    <3> DEFINE c == curr[p]
               s == step[p]
    <3>1. Near(target[p], c + (n - i) * s)
      BY DEF OnTrack
    <3>2. c \in Int /\ s \in Int /\ i \in Int /\ n \in Int
      BY <2>1, <2>3
    <3> HIDE DEF c, s
    <3>3. (c + s) + (n - (i + 1)) * s = c + (n - i) * s
      BY <3>2, OneStepLess
    <3> QED BY <3>1, <3>3 DEF c, s
  <2>5. StaysWithin'
    <3> SUFFICES ASSUME NEW p \in Parts PROVE Within(p, curr[p] + step[p])
      BY <1>1, <2>1 DEF StaysWithin, Within
    <3>1. target[p] \in Asked(p) /\ Within(p, curr[p])
          /\ Near(target[p], curr[p] + (n - i) * step[p])
      BY DEF NodeTypeOK, OnTrack, StaysWithin
    <3> DEFINE k == n - i
    <3>2. k \in Nat \ {0} /\ Near(target[p], curr[p] + k * step[p])
      BY <2>3, <3>1
    <3> HIDE DEF k
    <3> QED BY <2>1, <3>1, <3>2, WayIsWithin
  <2> QED BY <2>2, <2>4, <2>5
<1>2. CASE ~(i < n)
  BY <1>2 DEF NodeTypeOK, OnTrack, StaysWithin
<1> QED BY <1>1, <1>2

-----------------------------------------------------------------------------
(* The shared memory *)

MemoryInv == RosInv /\ SeenByNextPass /\ TornOneWay

LEMMA PlacesAndTurns ==
  /\ None \notin Topics
  /\ \A f \in Fields : /\ TopicOf[f] \in Topics
                       /\ PassOf[TopicOf[f]] \in Passes
                       /\ Place[f] \in 1..Size[TopicOf[f]]
                       /\ Turn[f] \in 1..Length[PassOf[TopicOf[f]]]
  /\ \A t \in Topics : Size[t] \in Nat \ {0} /\ Depth[t] \in Nat \ {0} /\ MaxMsg[t] \in Nat
  /\ \A q \in Passes : Length[q] \in Nat \ {0} /\ After(q) \subseteq Passes
  /\ Always \in Passes
  BY TopicAssumption, FieldAssumption DEF After

LEMMA MemoryStarts ==
  ASSUME RosInit
  PROVE  MemoryInv
<1> USE PlacesAndTurns DEF RosInit
<1>1. RosTypeOK
  BY DEF RosTypeOK
<1>2. InSequence /\ CopiesPast
  BY DEF InSequence, CopiesPast
<1>3. HalfStored
  BY DEF HalfStored
<1>4. SeenByNextPass /\ TornOneWay
  BY DEF SeenByNextPass, TornOneWay
<1> QED BY <1>1, <1>2, <1>3, <1>4 DEF MemoryInv, RosInv

LEMMA PublishKeepsMemory ==
  ASSUME MemoryInv, NEW t \in Topics, Publish(t)
  PROVE  MemoryInv'
<1> USE PlacesAndTurns DEF MemoryInv, RosInv, Publish, executor, control
<1>1. RosTypeOK'
  BY DEF RosTypeOK
<1>2. InSequence'
  BY DEF InSequence, RosTypeOK
<1>3. HalfStored' /\ CopiesPast'
  BY DEF HalfStored, CopiesPast
<1>4. SeenByNextPass' /\ TornOneWay'
  BY DEF SeenByNextPass, TornOneWay, Copied
<1> QED BY <1>1, <1>2, <1>3, <1>4

LEMMA TakeKeepsMemory ==
  ASSUME MemoryInv, NEW t \in Topics, Take(t)
  PROVE  MemoryInv'
<1> USE PlacesAndTurns DEF MemoryInv, RosInv, Take, control
<1>1. RosTypeOK'
  <2>1. /\ sent[t] \in Nat /\ waiting[t] \in Nat \ {0} /\ whole[t] \in Nat
        /\ whole[t] + waiting[t] <= sent[t]
    BY DEF RosTypeOK, InSequence
  <2>2. message' \in Nat
    BY <2>1
  <2>3. waiting' \in [Topics -> Nat] /\ \A u \in Topics : waiting'[u] <= Depth[u]
    BY <2>1 DEF RosTypeOK
  <2> QED BY <2>2, <2>3 DEF RosTypeOK
<1>2. InSequence'
  BY DEF InSequence, RosTypeOK
<1>3. HalfStored'
  BY DEF HalfStored
<1>4. CopiesPast'
  BY DEF CopiesPast
<1>5. SeenByNextPass' /\ TornOneWay'
  BY DEF SeenByNextPass, TornOneWay, Copied
<1> QED BY <1>1, <1>2, <1>3, <1>4, <1>5

LEMMA StoreKeepsMemory ==
  ASSUME MemoryInv, Store
  PROVE  MemoryInv'
<1> USE PlacesAndTurns DEF MemoryInv, RosInv, Store, control
<1>1. callback \in Topics /\ message \in Nat /\ place \in 1..Size[callback]
  BY DEF RosTypeOK
<1>2. RosTypeOK'
  <2>1. shared' \in [Fields -> Nat]
    BY <1>1 DEF RosTypeOK
  <2>2. whole' \in [Topics -> Nat]
    BY <1>1 DEF RosTypeOK
  <2>3. callback' \in Topics \cup {None} /\ place' \in Nat \ {0}
        /\ (callback' # None => place' <= Size[callback'])
    BY <1>1 DEF RosTypeOK
  <2> QED BY <2>1, <2>2, <2>3 DEF RosTypeOK
<1>3. InSequence'
  BY <1>1 DEF InSequence, RosTypeOK
<1>4. HalfStored'
  <2> SUFFICES ASSUME NEW f \in Fields
               PROVE  shared'[f] = IF TopicOf[f] = callback' /\ Place[f] < place' THEN message'
                                                                ELSE whole'[TopicOf[f]]
    BY DEF HalfStored
  <2>1. shared[f] = IF TopicOf[f] = callback /\ Place[f] < place THEN message
                                                                ELSE whole[TopicOf[f]]
    BY DEF HalfStored
  <2>2. TopicOf[f] \in Topics /\ Place[f] \in 1..Size[TopicOf[f]]
    OBVIOUS
  <2>3. shared'[f] = IF TopicOf[f] = callback /\ Place[f] = place THEN message ELSE shared[f]
    OBVIOUS
  <2>4. CASE place = Size[callback]
    <3>1. whole'[TopicOf[f]] = IF TopicOf[f] = callback THEN message ELSE whole[TopicOf[f]]
      BY <2>2, <2>4 DEF RosTypeOK
    <3> QED BY <1>1, <2>1, <2>2, <2>3, <2>4, <3>1
  <2>5. CASE place # Size[callback]
    BY <1>1, <2>1, <2>2, <2>3, <2>5
  <2> QED BY <2>4, <2>5
<1>5. CopiesPast'
  <2>1. \A f \in Fields : shared[f] <= shared'[f]
    <3> TAKE f \in Fields
    <3>1. shared'[f] = (IF TopicOf[f] = callback /\ Place[f] = place THEN message ELSE shared[f])
          /\ shared[f] \in Nat
      BY DEF RosTypeOK
    <3>2. CASE TopicOf[f] = callback /\ Place[f] = place
      <4>1. shared[f] = whole[callback] /\ whole[callback] < message
        BY <1>1, <3>2 DEF HalfStored, InSequence
      <4> QED BY <1>1, <3>1, <3>2, <4>1 DEF RosTypeOK
    <3> QED BY <3>1, <3>2
  <2>2. \A t \in Topics : whole[t] <= whole'[t]
    BY <1>1 DEF RosTypeOK, InSequence
  <2>3. \A f \in Fields : copy[f] \in Nat /\ shared[f] \in Nat /\ shared'[f] \in Nat
    BY <1>2 DEF RosTypeOK
  <2>4. \A t \in Topics : since[t] \in Nat /\ whole[t] \in Nat /\ whole'[t] \in Nat
    BY <1>2 DEF RosTypeOK
  <2> QED BY <2>1, <2>2, <2>3, <2>4 DEF CopiesPast
<1>6. SeenByNextPass' /\ TornOneWay'
  BY DEF SeenByNextPass, TornOneWay, Copied
<1> QED BY <1>2, <1>3, <1>4, <1>5, <1>6

\* What a callback stores first is never behind what it stores later.
LEMMA StoredInOrder ==
  ASSUME RosInv, NEW f \in Fields, NEW g \in Fields,
         TopicOf[f] = TopicOf[g], Place[g] <= Place[f]
  PROVE  shared[g] >= shared[f]
<1> USE PlacesAndTurns DEF RosInv
<1>1. /\ Place[f] \in Nat /\ Place[g] \in Nat /\ place \in Nat /\ message \in Nat
      /\ whole[TopicOf[f]] \in Nat
  BY DEF RosTypeOK
<1>2. TopicOf[f] = callback => whole[callback] < message
  BY DEF InSequence
<1> QED BY <1>1, <1>2 DEF HalfStored

LEMMA NothingIsNewerThanShared ==
  ASSUME RosInv, NEW f \in Fields
  PROVE  shared[f] >= whole[TopicOf[f]]
<1> USE PlacesAndTurns DEF RosInv
<1>1. message \in Nat /\ whole[TopicOf[f]] \in Nat
  BY DEF RosTypeOK
<1>2. TopicOf[f] = callback => whole[callback] < message
  BY DEF InSequence
<1> QED BY <1>1, <1>2 DEF HalfStored

LEMMA CopyKeepsMemory ==
  ASSUME MemoryInv, Copy
  PROVE  MemoryInv'
<1> USE PlacesAndTurns DEF MemoryInv, executor, CopiedBy
<1>1. RosInv'
  <2>1. pass' \in Passes /\ turn' \in 1..Length[pass']
    BY DEF RosInv, RosTypeOK, Copy
  <2>2. copy' \in [Fields -> Nat] /\ since' \in [Topics -> Nat]
    BY DEF RosInv, RosTypeOK, Copy
  <2>3. RosTypeOK'
    BY <2>1, <2>2 DEF RosInv, RosTypeOK, Copy
  <2>4. InSequence' /\ HalfStored'
    BY DEF RosInv, InSequence, HalfStored, Copy
  <2>5. CopiesPast'
    BY DEF RosInv, RosTypeOK, CopiesPast, Copy
  <2> QED BY <2>3, <2>4, <2>5 DEF RosInv
<1>2. \A f \in Fields :
        /\ copy'[f] = IF PassOf[TopicOf[f]] = pass /\ Turn[f] = turn THEN shared[f] ELSE copy[f]
        /\ since'[TopicOf[f]] = IF turn = 1 /\ PassOf[TopicOf[f]] = pass
                                THEN whole[TopicOf[f]] ELSE since[TopicOf[f]]
  BY DEF Copy
<1>3. turn \in 1..Length[pass] /\ pass \in Passes
  BY DEF RosInv, RosTypeOK
\* A field that counts as copied after the step was copied in it or counted before.
<1>4. \A f \in Fields : Copied(f)' =>
        \/ PassOf[TopicOf[f]] = pass /\ Turn[f] = turn
        \/ PassOf[TopicOf[f]] = pass /\ Turn[f] < turn
        \/ PassOf[TopicOf[f]] # pass
  BY <1>3 DEF Copied, Copy
<1>5. \A f \in Fields : copy[f] \in Nat /\ shared[f] \in Nat /\ copy[f] <= shared[f]
                       /\ since[TopicOf[f]] \in Nat /\ whole[TopicOf[f]] \in Nat
                       /\ since[TopicOf[f]] <= whole[TopicOf[f]]
                       /\ shared[f] >= whole[TopicOf[f]]
  BY NothingIsNewerThanShared DEF RosInv, RosTypeOK, CopiesPast
<1>6. SeenByNextPass'
  <2> SUFFICES ASSUME NEW f \in Fields, Copied(f)'
               PROVE  copy'[f] >= since'[TopicOf[f]]
    BY DEF SeenByNextPass
  <2>1. CASE PassOf[TopicOf[f]] = pass /\ Turn[f] = turn
    BY <2>1, <1>2, <1>5
  <2>2. CASE PassOf[TopicOf[f]] = pass /\ Turn[f] < turn
    <3>1. turn > 1 /\ Turn[f] # turn
      BY <2>2, <1>3
    <3>2. copy[f] >= since[TopicOf[f]]
      BY <2>2, <3>1 DEF SeenByNextPass, Copied
    <3> QED BY <2>2, <3>1, <3>2, <1>2, <1>3
  <2>3. CASE PassOf[TopicOf[f]] # pass
    BY <2>3, <1>2 DEF SeenByNextPass, Copied
  <2> QED BY <2>1, <2>2, <2>3, <1>4
<1>7. TornOneWay'
  <2> SUFFICES ASSUME NEW f \in Fields, NEW g \in Fields, TopicOf[f] = TopicOf[g],
                      Turn[f] < Turn[g], Place[g] <= Place[f], Copied(g)'
               PROVE  copy'[g] >= copy'[f]
    BY DEF TornOneWay
  <2>1. CASE PassOf[TopicOf[g]] = pass /\ Turn[g] = turn
    <3>1. copy'[g] = shared[g] /\ copy'[f] = copy[f] /\ shared[g] >= shared[f]
      BY <2>1, <1>2, <1>3, StoredInOrder
    <3> QED BY <3>1, <1>5
  <2>2. CASE PassOf[TopicOf[g]] = pass /\ Turn[g] < turn
    <3>1. copy'[g] = copy[g] /\ copy'[f] = copy[f]
      BY <2>2, <1>2, <1>3
    <3> QED BY <2>2, <3>1 DEF TornOneWay, Copied
  <2>3. CASE PassOf[TopicOf[g]] # pass
    BY <2>3, <1>2 DEF TornOneWay, Copied
  <2> QED BY <2>1, <2>2, <2>3, <1>4
<1> QED BY <1>1, <1>6, <1>7

-----------------------------------------------------------------------------
(* The link *)

LinkIInv == NodeInv /\ MemoryInv /\ TypeOK /\ LogWithin

LEMMA LinkStarts ==
  ASSUME LinkInit
  PROVE  LinkIInv
<1>1. NodeInv /\ MemoryInv
  BY NodeStarts, MemoryStarts DEF LinkInit
<1>2. log \in Seq(Gait) /\ Len(log) = 0
  BY EmptySeq DEF LinkInit
<1>3. sent[GaitOut] = 0
  BY LinkAssumption DEF LinkInit, RosInit
<1> QED BY <1>1, <1>2, <1>3 DEF LinkIInv, NodeInv, MemoryInv, RosInv, TypeOK, LogWithin

LEMMA NodeUnchanged ==
  ASSUME NodeInv, UNCHANGED nodeVars
  PROVE  NodeInv'
BY DEF NodeInv, nodeVars, NodeTypeOK, OnTrack, StaysWithin

LEMMA MemoryUnchanged ==
  ASSUME MemoryInv, UNCHANGED rosVars
  PROVE  MemoryInv'
BY DEF MemoryInv, RosInv, RosTypeOK, InSequence, HalfStored, CopiesPast, SeenByNextPass,
       TornOneWay, Copied, rosVars, executor, control

\* The log grows by gaits within the commands, one for each message.
LEMMA LogGrows ==
  ASSUME TypeOK, LogWithin, NodeInv', Publish(GaitOut), log' = Append(log, curr')
  PROVE  LogWithin' /\ log' \in Seq(Gait) /\ Len(log') = sent'[GaitOut]
<1>1. curr' \in Gait /\ \A p \in Parts : Within(p, curr'[p])
  BY DEF NodeInv, NodeTypeOK, StaysWithin
<1>2. log \in Seq(Gait) /\ Len(log) \in Nat
  BY LenProperties DEF TypeOK
<1>3. /\ log' \in Seq(Gait) /\ Len(log') = Len(log) + 1
      /\ \A k \in 1..Len(log) : log'[k] = log[k]
      /\ log'[Len(log) + 1] = curr'
  BY <1>1, <1>2, AppendProperties
<1>4. Len(log') = sent'[GaitOut]
  BY <1>3, LinkAssumption DEF TypeOK, RosTypeOK, Publish
<1>5. \A k \in 1..Len(log') : k \in 1..Len(log) \/ k = Len(log) + 1
  BY <1>2, <1>3
<1>6. LogWithin'
  BY <1>1, <1>3, <1>5 DEF LogWithin, Within
<1> QED BY <1>3, <1>4, <1>6

LEMMA LinkSteps ==
  ASSUME LinkIInv, [LinkNext]_linkVars
  PROVE  LinkIInv'
<1> USE DEF LinkIInv
<1>1. CASE TimerTick
  <2>1. NodeInv'
    BY <1>1, TimerKeepsNode DEF TimerTick
  <2>2. CASE Publish(GaitOut) /\ log' = Append(log, curr')
    <3>1. MemoryInv'
      BY <2>2, LinkAssumption, PublishKeepsMemory
    <3>2. LogWithin' /\ log' \in Seq(Gait) /\ Len(log') = sent'[GaitOut]
      BY <2>1, <2>2, LogGrows
    <3> QED BY <2>1, <3>1, <3>2 DEF TypeOK, NodeInv, MemoryInv, RosInv
  <2>3. CASE UNCHANGED <<rosVars, log>>
    <3>1. MemoryInv'
      BY <2>3, MemoryUnchanged
    <3> QED BY <2>1, <2>3, <3>1
            DEF TypeOK, LogWithin, NodeInv, MemoryInv, RosInv, rosVars
  <2> QED BY <1>1, <2>2, <2>3 DEF TimerTick
<1>2. ASSUME NEW g \in Commands, GaitCommand(g) PROVE LinkIInv'
  <2>1. NodeInv' /\ MemoryInv'
    BY <1>2, CommandKeepsNode, MemoryUnchanged DEF GaitCommand
  <2> QED BY <1>2, <2>1
          DEF GaitCommand, TypeOK, LogWithin, NodeInv, MemoryInv, RosInv, rosVars
<1>3. ASSUME NEW t \in Topics, SensorMessage(t) PROVE LinkIInv'
  <2>1. NodeInv' /\ MemoryInv'
    BY <1>3, NodeUnchanged, PublishKeepsMemory DEF SensorMessage
  <2>2. sent'[GaitOut] = sent[GaitOut]
    BY <1>3, LinkAssumption DEF SensorMessage, Publish, TypeOK, RosTypeOK
  <2> QED BY <1>3, <2>1, <2>2
          DEF SensorMessage, TypeOK, LogWithin, NodeInv, MemoryInv, RosInv
<1>4. CASE Threads
  <2>1. NodeInv' /\ UNCHANGED log
    BY <1>4, NodeUnchanged DEF Threads
  <2>2. MemoryInv'
    BY <1>4, StoreKeepsMemory, TakeKeepsMemory, CopyKeepsMemory DEF Threads, Executor
  <2>3. sent' = sent
    BY <1>4 DEF Threads, Executor, Store, Take, Copy
  <2> QED BY <2>1, <2>2, <2>3 DEF TypeOK, LogWithin, NodeInv, MemoryInv, RosInv
<1>5. CASE UNCHANGED linkVars
  <2>1. NodeInv' /\ MemoryInv'
    BY <1>5, NodeUnchanged, MemoryUnchanged DEF linkVars
  <2> QED BY <1>5, <2>1
          DEF linkVars, TypeOK, LogWithin, NodeInv, MemoryInv, RosInv, rosVars
<1> QED BY <1>1, <1>2, <1>3, <1>4, <1>5 DEF LinkNext

LEMMA WalkFollows ==
  ASSUME LinkIInv
  PROVE  WalksWithinCommands
<1> SUFFICES ASSUME NEW p \in Parts, copy[p] # 0
             PROVE  Within(p, log[copy[p]][p])
  BY DEF WalksWithinCommands, Retuned
<1>1. p \in Fields /\ TopicOf[p] = GaitOut /\ GaitOut \in Topics
  BY LinkAssumption
<1>2. copy[p] <= shared[p] /\ copy[p] \in Nat /\ shared[p] \in Nat
  BY <1>1 DEF LinkIInv, MemoryInv, RosInv, CopiesPast, RosTypeOK
<1>3. shared[p] <= sent[GaitOut]
  <2>1. /\ whole[GaitOut] \in Nat /\ waiting[GaitOut] \in Nat /\ sent[GaitOut] \in Nat
        /\ message \in Nat
    BY <1>1 DEF LinkIInv, MemoryInv, RosInv, RosTypeOK
  <2>2. whole[GaitOut] + waiting[GaitOut] <= sent[GaitOut]
        /\ (callback = GaitOut => message + waiting[GaitOut] <= sent[GaitOut])
    BY <1>1, PlacesAndTurns DEF LinkIInv, MemoryInv, RosInv, InSequence
  <2>3. shared[p] = whole[GaitOut] \/ (callback = GaitOut /\ shared[p] = message)
    BY <1>1 DEF LinkIInv, MemoryInv, RosInv, HalfStored
  <2> QED BY <2>1, <2>2, <2>3
<1>4. sent[GaitOut] = Len(log) /\ Len(log) \in Nat
  BY LenProperties DEF LinkIInv, TypeOK
<1>5. copy[p] \in 1..Len(log)
  BY <1>2, <1>3, <1>4
<1> QED BY <1>5 DEF LinkIInv, LogWithin

LEMMA LinkInductive == LinkSpec => []LinkIInv
<1>1. LinkInit => LinkIInv
  BY LinkStarts
<1>2. LinkIInv /\ [LinkNext]_linkVars => LinkIInv'
  BY LinkSteps
<1> QED BY <1>1, <1>2, PTL DEF LinkSpec

\* Every variable of the node, the topics and the threads keeps its type.
THEOREM TypeCorrect == LinkSpec => []TypeOK
<1>1. LinkIInv => TypeOK
  BY DEF LinkIInv
<1> QED BY <1>1, LinkInductive, PTL

\* on_gait_command and timer_callback: the ramp leads to the last command, wherever it was
\* begun, for every n.
THEOREM RampLeadsHome == LinkSpec => []OnTrack
<1>1. LinkIInv => OnTrack
  BY DEF LinkIInv, NodeInv
<1> QED BY <1>1, LinkInductive, PTL

\* What holds of the ramp, of the queues and of the fields in shared memory.
THEOREM LinkInvariant == LinkSpec => []LinkInv
<1>1. LinkIInv => LinkInv
  BY DEF LinkIInv, NodeInv, MemoryInv, LinkInv
<1> QED BY <1>1, LinkInductive, PTL

\* recvState: a message whose callback has returned is seen by the next pass, in all its
\* fields, for any topics, queues and orders of storing and copying.
THEOREM ReportsAreSeen == LinkSpec => []SeenByNextPass
<1>1. LinkIInv => SeenByNextPass
  BY DEF LinkIInv, MemoryInv
<1> QED BY <1>1, LinkInductive, PTL

\* The copies of recvState and run are torn one way only, for any orders.
THEOREM TearsOneWay == LinkSpec => []TornOneWay
<1>1. LinkIInv => TornOneWay
  BY DEF LinkIInv, MemoryInv
<1> QED BY <1>1, LinkInductive, PTL

\* State_GaitTransition::run walks with numbers in the range of the gaits commanded.
THEOREM WalkIsWithin == LinkSpec => []WalksWithinCommands
<1>1. LinkIInv => WalksWithinCommands
  BY WalkFollows
<1> QED BY <1>1, LinkInductive, PTL
=============================================================================
