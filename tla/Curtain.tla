------------------------------ MODULE Curtain ------------------------------
(***************************************************************************)
(* What the gateway promises to the motors of the curtains.  A motor       *)
(* stands or is driven one way.  A user drives it with a pulse and         *)
(* thereby owes it a release, and drives no other motor before that; any   *)
(* release stops the motor, whoever drives it.  Only a fault, a lost frame *)
(* or the death of the process, takes a release away without stopping.     *)
(***************************************************************************)
CONSTANTS Motors, Users

VARIABLES drive,   \* what each motor does: "stop", "one" or "other"
          owed,    \* the users that owe each motor a release
          fault    \* 1 after a fault

Free(u) == \A m \in Motors : u \notin owed[m]

Init ==
  /\ drive = [m \in Motors |-> "stop"] /\ owed = [m \in Motors |-> {}] /\ fault = 0

Pulse(u, m) ==
  /\ Free(u)
  /\ \E way \in {"one", "other"} : drive' = [drive EXCEPT ![m] = way]
  /\ owed' = [owed EXCEPT ![m] = @ \cup {u}]
  /\ UNCHANGED fault

Release(u, m) ==
  /\ u \in owed[m]
  /\ drive' = [drive EXCEPT ![m] = "stop"]
  /\ owed' = [owed EXCEPT ![m] = @ \ {u}]
  /\ UNCHANGED fault

\* A frame is lost: one of a pulse, its release, or one that is for no curtain.
Fault(u) ==
  /\ \/ UNCHANGED owed
     \/ \E m \in Motors : Free(u) /\ owed' = [owed EXCEPT ![m] = @ \cup {u}]
     \/ \E m \in Motors : u \in owed[m] /\ owed' = [owed EXCEPT ![m] = @ \ {u}]
  /\ fault' = 1 /\ UNCHANGED drive

\* The process dies.
Forget ==
  /\ owed' = [m \in Motors |-> {}]
  /\ fault' = 1 /\ UNCHANGED drive

Next == Forget \/ \E u \in Users : Fault(u) \/ \E m \in Motors : Pulse(u, m) \/ Release(u, m)

Spec == Init /\ [][Next]_<<drive, owed, fault>>
=============================================================================
