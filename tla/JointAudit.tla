------------------------------ MODULE JointAudit ------------------------------
(***************************************************************************)
(* Which command an update of the joint controller obeys.  History         *)
(* variables record the commands heard, the one the real-time buffer is    *)
(* meant to hold, whether the real-time thread wrote lastCmd while the     *)
(* callback that stored it was using it, and whether a callback ran during *)
(* the current update.                                                     *)
(***************************************************************************)
EXTENDS LeggedController

VARIABLES
  heard,     \* the commands that arrived, in order, since the controller was configured
  stored,    \* the command the buffer is meant to hold
  mixed,     \* ... and lastCmd was written under the callback that stored it
  disturbed, \* lastCmd was written under the callback now running
  overlap    \* a callback ran during the update now running

audit == <<heard, stored, mixed, disturbed, overlap>>

Arrived == cb = "idle" /\ cb' = "store"
Stored  == cb = "copy" /\ cb' = "idle"
Emptied == life' # life /\ life' = "inactive"

Scratches == up \in {"activate", "copy", "sane"} /\ <<up, upAt>>' # <<up, upAt>>

audit_step ==
  /\ heard' = IF Arrived THEN Append(heard, msg') ELSE heard
  /\ stored' = IF Stored THEN msg ELSE IF Emptied THEN Default ELSE stored
  /\ mixed' = IF Stored THEN disturbed ELSE ~Emptied /\ mixed
  /\ disturbed' = (cb' # "idle" /\ cb # "idle" /\ (disturbed \/ Scratches))
  /\ overlap' = (up' \in {"copy", "sane", "build"} /\ (overlap \/ cb' # "idle"))

AuditInit == /\ Init
             /\ heard = <<>> /\ stored = Default
             /\ mixed = FALSE /\ disturbed = FALSE /\ overlap = FALSE
AuditNext == Next /\ audit_step
AuditSpec == AuditInit /\ [][AuditNext]_<<vars, audit>>

Heard == {heard[i] : i \in DOMAIN heard}

Sanitised(c) == [s \in Slot |-> sane(c[ReadOf[s]])]

\* An update that no callback overlaps obeys, field for field, the command stored
\* last, or the empty one if none came since the controller was configured or
\* deactivated - unless the real-time thread wrote lastCmd while the callback that
\* stored that command was building or copying it.  Nothing but these two overlaps
\* can make the joint follow another command.
ExactUnlessRaced ==
  [][WriteEffort /\ ~overlap /\ ~mixed =>
       effort' \in Efforts(Sanitised(stored), limits)]_vars

\* Why: the buffer is handed the message whole unless the real-time thread wrote
\* lastCmd under the callback, an update with no callback in it finds what is stored
\* in the reader's cell, and copies, sanitises and reads it field by field.
Upto(order, k, a, b) == \A j \in 1..6 : j < k => a[order[j]] = b[order[j]]
Beyond(order, k, a, b) == \A j \in 1..6 : j >= k => a[order[j]] = b[order[j]]

Cleaned(c) == [f \in FieldName |->
  IF f = "mode" THEN IF c[f] \in {PMSM, BRAKE} THEN c[f] ELSE BRAKE ELSE sane(c[f])]

NoCallbackYet == life = "unconfigured" => cb = "idle"
CopiesFromFirst == cb = "lock" => cbAt = 1
Unshared == up \in {"copy", "sane", "build"} /\ ~overlap => cb = "idle" /\ ~fresh
Delivered == ~mixed => /\ fresh /\ cb # "copy" => nonRT = stored
                       /\ ~fresh => rt = stored
Handed == ~disturbed =>
  /\ cb = "store" => Upto(CallbackOrder, cbAt, lastCmd, msg)
  /\ cb \in {"lock", "copy"} => lastCmd = msg
  /\ cb = "copy" => Upto(CopyOrder, cbAt, nonRT, msg)
Taken == ~overlap =>
  /\ up = "copy" => Upto(CopyOrder, upAt, lastCmd, rt)
  /\ up = "sane" => /\ Upto(SaneOrder, upAt, lastCmd, Cleaned(rt))
                    /\ Beyond(SaneOrder, upAt, lastCmd, rt)
  /\ up = "build" => lastCmd = Cleaned(rt)
  /\ up = "build" => \A j \in 1..8 :
       j < upAt => seen[ReadOrder[j]] = Cleaned(rt)[ReadOf[ReadOrder[j]]]

ExactInv == NoCallbackYet /\ CopiesFromFirst /\ Unshared /\ Delivered /\ Handed /\ Taken

Promise == INSTANCE JointPromise WITH
  Own <- {Default, FreeFall, Braking}, Others <- Commands, Response <- Efforts,
  awake <- life, limited <- limits, said <- {Default, FreeFall, Braking} \cup Heard,
  effort <- effort

\* However the two threads tear commands apart, the joint does nothing but answer,
\* while it is active, a command put together from fields that were really sent.
KeepsPromise == Promise!PromiseSpec

-----------------------------------------------------------------------------
(* What a comment in update says, and the code does not do. *)

\* "do nothing if no command received yet ... prevents applying default BRAKE damping
\* before guide controller starts"
FreeUntilCommanded == heard = <<>> => effort = 0
===============================================================================
