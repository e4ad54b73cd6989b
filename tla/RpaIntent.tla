------------------------------ MODULE RpaIntent ------------------------------
(***************************************************************************)
(* What a caller of POST /devices/:id/rpa is promised of each accepted     *)
(* intent, whatever the queue, the database, the provider and the          *)
(* processes do in between (docs/rpa-reliability.md): its submission       *)
(* reaches the provider at most once at a time and never again once it may *)
(* have been accepted; the intent goes back to waiting, or is closed as    *)
(* failed, only when nothing is at the provider; and a submission that may *)
(* have been accepted stays outstanding until an operator resolves it.     *)
(***************************************************************************)
EXTENDS Naturals

CONSTANT Jobs

VARIABLES
  intent,  \* absent, pending, outstanding, closed or resolved
  landed   \* requests at the provider, or on their way to it

vars == <<intent, landed>>

Init ==
  /\ intent = [j \in Jobs |-> "absent"]
  /\ landed = [j \in Jobs |-> 0]

Accept(j) ==
  /\ intent[j] = "absent"
  /\ intent' = [intent EXCEPT ![j] = "pending"]
  /\ UNCHANGED landed

Claim(j) ==
  /\ intent[j] = "pending"
  /\ intent' = [intent EXCEPT ![j] = "outstanding"]
  /\ UNCHANGED landed

\* A claimed request leaves.  An operator may have resolved the intent since.
Send(j) ==
  /\ intent[j] \in {"outstanding", "resolved"}
  /\ landed[j] = 0
  /\ landed' = [landed EXCEPT ![j] = 1]
  /\ UNCHANGED intent

\* The provider refused it, or it was lost on the way.
Refuse(j) ==
  /\ landed[j] = 1
  /\ landed' = [landed EXCEPT ![j] = 0]
  /\ UNCHANGED intent

Reopen(j) ==
  /\ intent[j] = "outstanding"
  /\ landed[j] = 0
  /\ intent' = [intent EXCEPT ![j] = "pending"]
  /\ UNCHANGED landed

\* Failed before a submission or after definite refusals, or run dry.
Close(j) ==
  /\ intent[j] \in {"pending", "outstanding"}
  /\ landed[j] = 0
  /\ intent' = [intent EXCEPT ![j] = "closed"]
  /\ UNCHANGED landed

\* An operator attests what became of it.
Resolve(j) ==
  /\ intent[j] \in {"pending", "outstanding", "closed"}
  /\ intent' = [intent EXCEPT ![j] = "resolved"]
  /\ UNCHANGED landed

Next == \E j \in Jobs :
  Accept(j) \/ Claim(j) \/ Send(j) \/ Refuse(j) \/ Reopen(j)
  \/ Close(j) \/ Resolve(j)

Spec == Init /\ [][Next]_vars
=============================================================================
