------------------------------ MODULE RateQuota ------------------------------
(***************************************************************************)
(* What a leaky bucket promises its users: from the moment it is created,  *)
(* it has never granted more than its capacity plus what its rate yields   *)
(* in the time passed.  Nothing is said about when a request is refused.   *)
(***************************************************************************)
EXTENDS Naturals

CONSTANTS
  Weights,     \* the weights of requests
  Capacity,    \* tokens in a full bucket
  Rate, Per    \* Rate tokens accrue every Per units of time

VARIABLES now, granted

Init == now = 0 /\ granted = 0

Tick == now' = now + 1 /\ UNCHANGED granted

Grant ==
  \E w \in Weights :
    /\ (granted + w) * Per <= Capacity * Per + Rate * now
    /\ granted' = granted + w
    /\ UNCHANGED now

Next == Tick \/ Grant

Spec == Init /\ [][Next]_<<now, granted>>
=============================================================================
