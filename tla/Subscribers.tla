---------------------------- MODULE Subscribers ----------------------------
(***************************************************************************)
(* The topics junior_ctrl reads, and the memory its threads share without  *)
(* a lock: the subscribers of IOROS, State_GaitTransition and MOVE_GAIT.   *)
(* All subscriptions are in the node's one callback group, so the two      *)
(* threads of the executor run one callback at a time; it stores a message *)
(* field by field.  The control thread meanwhile copies the fields, pass   *)
(* by pass: recvState once a tick, and what the state that runs reads.     *)
(*                                                                         *)
(* The messages of a topic are numbered; a field holds the number of the   *)
(* message it came with, 0 for what the constructor left.  A subscription  *)
(* keeps the last Depth messages, so those waiting are the last ones sent  *)
(* and their count says which they are.                                    *)
(***************************************************************************)
EXTENDS Integers

CONSTANTS
  Topics,
  Fields,
  TopicOf,   \* the topic a field comes with
  Place,     \* its place in the order the callback stores the fields in
  Size,      \* the fields a topic's callback stores
  Turn,      \* its place in the order the pass copies the fields in
  Passes,
  PassOf,    \* the pass that copies the fields of a topic
  Length,    \* the fields a pass copies
  Always,    \* the pass of every tick
  Depth,     \* the depth of a subscription's queue
  MaxMsg     \* bound on the messages of each topic

None == "none"

ASSUME TopicAssumption ==
  /\ TopicOf \in [Fields -> Topics]
  /\ PassOf \in [Topics -> Passes]
  /\ Size \in [Topics -> Nat \ {0}]
  /\ Length \in [Passes -> Nat \ {0}]
  /\ Depth \in [Topics -> Nat \ {0}]
  /\ MaxMsg \in [Topics -> Nat]
  /\ Always \in Passes
  /\ None \notin Topics
ASSUME FieldAssumption ==
  /\ Place \in [Fields -> Nat]
  /\ Turn \in [Fields -> Nat]
  /\ \A f \in Fields : /\ Place[f] \in 1..Size[TopicOf[f]]
                       /\ Turn[f] \in 1..Length[PassOf[TopicOf[f]]]

VARIABLES
  sent,      \* the messages sent
  waiting,   \* how many of them are in the queue
  callback,  \* the topic whose callback is running, if one is
  message,   \* the message it stores
  place,     \* the field it stores next
  shared,    \* _lowState, _targetBeta, ...
  pass,      \* the pass the control thread is in
  turn,      \* the field it copies next
  copy,      \* what it has copied
  whole,     \* history: the last message stored completely
  since      \* history: the same when the pass began

executor == <<callback, message, place, shared, whole>>
control  == <<pass, turn, copy, since>>
rosVars  == <<sent, waiting, executor, control>>

RosInit ==
  /\ sent = [t \in Topics |-> 0]
  /\ waiting = [t \in Topics |-> 0]
  /\ callback = None
  /\ message = 0
  /\ place = 1
  /\ shared = [f \in Fields |-> 0]
  /\ pass = Always
  /\ turn = 1
  /\ copy = [f \in Fields |-> 0]
  /\ whole = [t \in Topics |-> 0]
  /\ since = [t \in Topics |-> 0]

\* A message arrives; if the queue is full the oldest is dropped.
Publish(t) ==
  /\ sent[t] < MaxMsg[t]
  /\ sent' = [sent EXCEPT ![t] = @ + 1]
  /\ waiting' = [waiting EXCEPT ![t] = IF @ < Depth[t] THEN @ + 1 ELSE @]
  /\ UNCHANGED <<executor, control>>

\* The executor takes the oldest message and begins its callback.
Take(t) ==
  /\ callback = None /\ waiting[t] > 0
  /\ callback' = t
  /\ message' = sent[t] - waiting[t] + 1
  /\ place' = 1
  /\ waiting' = [waiting EXCEPT ![t] = @ - 1]
  /\ UNCHANGED <<sent, shared, whole, control>>

\* Mistake: the fields are stored in the opposite order.
Store_Reversed ==
  /\ callback # None
  /\ shared' = [f \in Fields |-> IF TopicOf[f] = callback /\ Place[f] = Size[callback] + 1 - place
                                 THEN message ELSE shared[f]]
  /\ IF place = Size[callback]
     THEN /\ callback' = None
          /\ whole' = [whole EXCEPT ![callback] = message]
          /\ UNCHANGED place
     ELSE place' = place + 1 /\ UNCHANGED <<callback, whole>>
  /\ UNCHANGED <<sent, waiting, message, control>>

\* One assignment of the callback, and its return after the last.
Store ==
  /\ callback # None
  /\ shared' = [f \in Fields |-> IF TopicOf[f] = callback /\ Place[f] = place
                                 THEN message ELSE shared[f]]
  /\ IF place = Size[callback]
     THEN /\ callback' = None
          /\ whole' = [whole EXCEPT ![callback] = message]
          /\ UNCHANGED place
     ELSE place' = place + 1 /\ UNCHANGED <<callback, whole>>
  /\ UNCHANGED <<sent, waiting, message, control>>

CopiedBy(p) == {f \in Fields : PassOf[TopicOf[f]] = p}

\* After recvState comes the state's own pass, or the next tick.
After(p) == IF p = Always THEN Passes ELSE {Always}

\* Mistake: the last field of a pass is never reached.
Copy_StopsShort ==
  /\ copy' = [f \in Fields |-> IF f \in CopiedBy(pass) /\ Turn[f] = turn /\ turn < Length[pass]
                               THEN shared[f] ELSE copy[f]]
  /\ since' = [t \in Topics |-> IF turn = 1 /\ PassOf[t] = pass THEN whole[t] ELSE since[t]]
  /\ IF turn = Length[pass] THEN turn' = 1 /\ pass' \in After(pass)
                            ELSE turn' = turn + 1 /\ UNCHANGED pass
  /\ UNCHANGED <<sent, waiting, executor>>

\* One assignment of a pass.
Copy ==
  /\ copy' = [f \in Fields |-> IF f \in CopiedBy(pass) /\ Turn[f] = turn
                               THEN shared[f] ELSE copy[f]]
  /\ since' = [t \in Topics |-> IF turn = 1 /\ PassOf[t] = pass THEN whole[t] ELSE since[t]]
  /\ IF turn = Length[pass] THEN turn' = 1 /\ pass' \in After(pass)
                            ELSE turn' = turn + 1 /\ UNCHANGED pass
  /\ UNCHANGED <<sent, waiting, executor>>

Executor == Store \/ \E t \in Topics : Take(t)
RosNext == Executor \/ Copy \/ \E t \in Topics : Publish(t)
RosSpec == RosInit /\ [][RosNext]_rosVars

-----------------------------------------------------------------------------

RosTypeOK ==
  /\ sent \in [Topics -> Nat]
  /\ waiting \in [Topics -> Nat]
  /\ \A t \in Topics : waiting[t] <= Depth[t] /\ sent[t] <= MaxMsg[t]
  /\ callback \in Topics \cup {None}
  /\ message \in Nat
  /\ place \in Nat \ {0}
  /\ callback # None => place <= Size[callback]
  /\ shared \in [Fields -> Nat]
  /\ pass \in Passes
  /\ turn \in 1..Length[pass]
  /\ copy \in [Fields -> Nat]
  /\ whole \in [Topics -> Nat]
  /\ since \in [Topics -> Nat]

\* f has been copied since its pass began, the last time it did.
Copied(f) == pass = PassOf[TopicOf[f]] => Turn[f] < turn

\* A message whose callback has returned when a pass begins is seen by that pass, in
\* every field: a fall the simulator has reported is not missed because older messages
\* were waiting, or because the copy is torn.
SeenByNextPass ==
  \A f \in Fields : Copied(f) /\ (pass = PassOf[TopicOf[f]] => turn > 1)
                    => copy[f] >= since[TopicOf[f]]

\* A torn copy is torn one way: a field stored no later than another and copied after it
\* is at least as new.  So the bias TRANSITION walks with is never newer than the ratio.
TornOneWay ==
  \A f, g \in Fields :
    /\ TopicOf[f] = TopicOf[g] /\ Turn[f] < Turn[g] /\ Place[g] <= Place[f]
    /\ Copied(g)
    => copy[g] >= copy[f]
-----------------------------------------------------------------------------
(* Why: what lies in shared memory, and in which order it came.             *)

\* The message being stored, or else the last one stored, and those after it that
\* were dropped, come before the ones that wait.
InSequence ==
  /\ \A t \in Topics : whole[t] + waiting[t] <= sent[t]
  /\ callback # None => /\ whole[callback] < message
                        /\ message + waiting[callback] <= sent[callback]

\* Shared memory holds the last whole message, overwritten as far as the callback is.
HalfStored ==
  \A f \in Fields :
    shared[f] = IF TopicOf[f] = callback /\ Place[f] < place THEN message
                                                            ELSE whole[TopicOf[f]]

CopiesPast ==
  /\ \A f \in Fields : copy[f] <= shared[f]
  /\ \A t \in Topics : since[t] <= whole[t]

RosInv == RosTypeOK /\ InSequence /\ HalfStored /\ CopiesPast
=============================================================================
