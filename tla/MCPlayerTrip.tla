---------------------------- MODULE MCPlayerTrip ----------------------------
(***************************************************************************)
(* One run about the end of a trip: a player trip with its lifecycle       *)
(* (PlayerTrip), or an arrival lifecycle with a radio receiver behind it,  *)
(* driven by every caller (ArrivalLifecycle).                              *)
(***************************************************************************)
EXTENDS PlayerTrip, ArrivalLifecycle

VARIABLE part  \* which of the two a behaviour is about

MCInit == Init /\ ArrivalInit /\ part \in {"player", "lifecycle"}

MCNext ==
  \/ part = "player" /\ Next /\ UNCHANGED <<part, arrivalVars>>
  \/ part = "lifecycle" /\ ArrivalNext /\ UNCHANGED <<part, vars>>

MCSpec == MCInit /\ [][MCNext]_<<part, vars, arrivalVars>> /\ Fairness

\* A lifecycle that is over has a phone that does not play any more (player
\* trips), and a receiver whose state is known (lifecycles).
\* The types of both modules come with it.
ReleaseIsSafe == TypeOK /\ ArrivalTypeOK /\ ReleasedPhoneIsStill /\ ReleaseIsSettled
=============================================================================
