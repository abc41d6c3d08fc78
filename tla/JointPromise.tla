----------------------------- MODULE JointPromise -----------------------------
(***************************************************************************)
(* What a joint promises whoever commands it, with no thread, buffer or    *)
(* scratch in sight: it moves only while it is active, and then answers    *)
(* some command each field of which it has been told - by the commander or *)
(* by itself.  It does not promise that the fields were told together.     *)
(* Whether it lets go when it is put to sleep is left open here.           *)
(***************************************************************************)
CONSTANTS
  Own, Others,        \* the commands it gives itself, and those it may be given
  Response(_, _)      \* the efforts that answer a reading, with limits or without

VARIABLES awake, limited, said, effort

Told(f) == {c[f] : c \in said}

\* The mode, the position, its gain, whether it asks for position control, and so on.
Reading == [mode : Told("mode"),
            pos : Told("q"), kp : Told("kp"), posStop : Told("q"),
            vel : Told("dq"), kd : Told("kd"), velStop : Told("dq"),
            tau : Told("tau")]

PromiseInit == /\ awake = "unconfigured" /\ limited = FALSE
               /\ said = Own /\ effort = 0

Prepare == /\ awake = "unconfigured" /\ awake' = "inactive"
           /\ limited' \in BOOLEAN
           /\ UNCHANGED <<said, effort>>

Tell(c) == /\ said' = said \cup {c}
           /\ UNCHANGED <<awake, limited, effort>>

Wake  == awake = "inactive" /\ awake' = "active" /\ UNCHANGED <<limited, said, effort>>
Sleep == /\ awake = "active" /\ awake' = "inactive"
         /\ effort' \in {effort, 0}
         /\ UNCHANGED <<limited, said>>

Move == /\ awake = "active"
        /\ \E r \in Reading : effort' \in Response(r, limited)
        /\ UNCHANGED <<awake, limited, said>>

PromiseNext == Prepare \/ (\E c \in Others : Tell(c)) \/ Wake \/ Sleep \/ Move

PromiseSpec == PromiseInit /\ [][PromiseNext]_<<awake, limited, said, effort>>
===============================================================================
