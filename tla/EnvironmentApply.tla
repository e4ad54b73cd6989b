-------------------------- MODULE EnvironmentApply --------------------------
(***************************************************************************)
(* The Wi-Fi environment of a phone (orchestrator/environment.ts): a       *)
(* preview is prepared for the phone's anchor under a new revision, that   *)
(* revision is applied with one provider update, its acceptance is stored, *)
(* and the phone's Wi-Fi is read back then or in a later recheck.          *)
(*                                                                         *)
(* One operation at a time has the environment window of the phone         *)
(* (DeviceOperations), but a registration changes the anchor without it,   *)
(* and the process may stop anywhere.                                      *)
(***************************************************************************)
EXTENDS Integers

CONSTANTS
  Anchors,        \* places the phone's anchor can be
  MaxRevision,    \* bound on the previews
  MaxMoves,       \* bound on the changes of the anchor
  MaxEnvFaults    \* bound on restarts and database failures

ASSUME EnvAssumption ==
  Anchors # {} /\ MaxRevision \in Nat /\ MaxMoves \in Nat /\ MaxEnvFaults \in Nat

VARIABLES
  anchor,      \* the device row's anchor
  env,         \* the DeviceEnvironment row: revision, status, anchor, dispatchedAt
  accepted,    \* its acceptedJson and acceptedVerificationJson: revision, anchor, status
  verified,    \* the revision whose Wi-Fi the device row holds, 0 at first
  envOp,       \* the operation in the window: where it is, what it read
  phoneWifi,   \* the revision the phone's Wi-Fi is set to
  updates,     \* history: the provider updates sent per revision
  matched,     \* history: the revisions some readback found on the phone
  moves, envFaults

envVars == <<anchor, env, accepted, verified, envOp, phoneWifi, updates, matched, moves, envFaults>>

NoEnvOp == [pc |-> "idle", rev |-> 0, anchor |-> CHOOSE a \in Anchors : TRUE, read |-> "PENDING"]

EnvInit ==
  /\ anchor \in Anchors
  /\ env = [rev |-> 0, status |-> "NONE", anchor |-> anchor, sent |-> FALSE]
  /\ accepted = [rev |-> 0, anchor |-> anchor, status |-> "NONE"]
  /\ verified = 0
  /\ envOp = NoEnvOp
  /\ phoneWifi = 0
  /\ updates = [r \in 0..MaxRevision |-> 0]
  /\ matched = {}
  /\ moves = 0
  /\ envFaults = 0

EnvAt(where)   == envOp.pc = where
EnvGoes(where) == envOp' = [envOp EXCEPT !.pc = where]
EnvLeaves      == envOp' = NoEnvOp

EnvHistory == UNCHANGED <<phoneWifi, updates, matched, moves, envFaults>>
RowsKept   == UNCHANGED <<anchor, env, accepted, verified>>

-----------------------------------------------------------------------------
(* previewEnvironment.                                                     *)

\* A continuation names the revision it continues, at an unchanged anchor.
PreviewBegins ==
  /\ EnvAt("idle") /\ env.status # "APPLYING" /\ env.rev < MaxRevision
  /\ envOp' = [NoEnvOp EXCEPT !.pc = "preview", !.anchor = anchor, !.rev = env.rev]
  /\ RowsKept /\ EnvHistory

\* The lookup may fail; the transaction checks the anchor and the row again.
PreviewEnds ==
  /\ EnvAt("preview")
  /\ \/ /\ env.status # "APPLYING" /\ env.rev = envOp.rev /\ anchor = envOp.anchor
        /\ env' = [rev |-> env.rev + 1, status |-> "PREPARED", anchor |-> anchor, sent |-> FALSE]
     \/ UNCHANGED env
  /\ EnvLeaves
  /\ UNCHANGED <<anchor, accepted, verified>> /\ EnvHistory

-----------------------------------------------------------------------------
(* applyEnvironment.                                                       *)

\* The revision the operator reviewed; one already accepted or sent is refused.
ApplyEnvironment ==
  /\ EnvAt("idle") /\ env.rev > 0
  /\ env.status \notin {"ACCEPTED", "APPLYING"}
  /\ accepted.rev # env.rev /\ ~env.sent
  /\ envOp' = [NoEnvOp EXCEPT !.pc = "eligible", !.rev = env.rev, !.anchor = env.anchor]
  /\ RowsKept /\ EnvHistory

EnvIsCurrent == anchor = envOp.anchor /\ env.rev = envOp.rev   \* ensureCurrent

\* Power and anchor are confirmed, then the row is claimed.
ClaimEnvironment ==
  /\ EnvAt("eligible")
  /\ \/ /\ EnvIsCurrent /\ env.status \in {"PREPARED", "FAILED"}
        /\ env' = [env EXCEPT !.status = "APPLYING"]
        /\ EnvGoes("trigger")
     \/ EnvLeaves /\ UNCHANGED env
  /\ UNCHANGED <<anchor, accepted, verified>> /\ EnvHistory

\* The callback of one key's turn: current, powered on, and the durable marker.
MarkDispatched ==
  /\ EnvAt("trigger")
  /\ \/ /\ EnvIsCurrent /\ env.status = "APPLYING" /\ ~env.sent
        /\ env' = [env EXCEPT !.sent = TRUE]
        /\ EnvGoes("update")
     \/ EnvGoes("catch") /\ UNCHANGED env
  /\ UNCHANGED <<anchor, accepted, verified>> /\ EnvHistory

\* Accepted; refused for this key, whose request did nothing as far as the answer
\* says; or unanswered, with or without effect.
UpdateWifi ==
  /\ EnvAt("update")
  /\ updates' = [updates EXCEPT ![envOp.rev] = @ + 1]
  /\ \E next \in {"accepted", "trigger", "catch"}, done \in BOOLEAN :
       /\ next = "accepted" => done
       /\ next = "trigger" => ~done
       /\ phoneWifi' = IF done THEN envOp.rev ELSE phoneWifi
       /\ EnvGoes(next)
  /\ RowsKept /\ UNCHANGED <<matched, moves, envFaults>>

\* Acceptance is stored before the readback, in one transaction that may fail.
StoreAcceptance ==
  /\ EnvAt("accepted")
  /\ \/ /\ env' = [env EXCEPT !.status = IF anchor = envOp.anchor THEN "ACCEPTED" ELSE "FAILED"]
        /\ accepted' = [rev |-> envOp.rev, anchor |-> envOp.anchor, status |-> "PENDING"]
        /\ EnvGoes("readback") /\ UNCHANGED envFaults
     \/ /\ envFaults < MaxEnvFaults /\ envFaults' = envFaults + 1
        /\ EnvGoes("catch") /\ UNCHANGED <<env, accepted>>
  /\ UNCHANGED <<anchor, verified, phoneWifi, updates, matched, moves>>

\* verifyWifi: what the provider says the phone is set to, or nothing usable.
ReadWifi ==
  /\ envOp.pc \in {"readback", "recheck"}
  /\ \E read \in {"UNAVAILABLE", IF phoneWifi = envOp.rev THEN "VERIFIED" ELSE "MISMATCH"} :
       /\ envOp' = [envOp EXCEPT !.read = read, !.pc = IF @ = "readback" THEN "verdict" ELSE "recheck verdict"]
       /\ matched' = IF read = "VERIFIED" THEN matched \cup {envOp.rev} ELSE matched
  /\ RowsKept /\ UNCHANGED <<phoneWifi, updates, moves, envFaults>>

Verdict == IF anchor # envOp.anchor \/ envOp.read = "MISMATCH" THEN "FAILED" ELSE "ACCEPTED"

\* The final transaction, or the database fails once more.
StoreVerdict ==
  /\ EnvAt("verdict")
  /\ \/ /\ env' = [env EXCEPT !.status = Verdict]
        /\ accepted' = [accepted EXCEPT !.status = envOp.read]
        /\ verified' = IF envOp.read = "VERIFIED" THEN envOp.rev ELSE verified
        /\ EnvLeaves /\ UNCHANGED envFaults
     \/ /\ envFaults < MaxEnvFaults /\ envFaults' = envFaults + 1
        /\ EnvGoes("catch") /\ UNCHANGED <<env, accepted, verified>>
  /\ UNCHANGED <<anchor, phoneWifi, updates, matched, moves>>

\* Only a row that is still APPLYING this revision is marked as failed.
CatchEnvironment ==
  /\ EnvAt("catch")
  /\ env' = IF env.status = "APPLYING" /\ env.rev = envOp.rev THEN [env EXCEPT !.status = "FAILED"] ELSE env
  /\ EnvLeaves
  /\ UNCHANGED <<anchor, accepted, verified>> /\ EnvHistory

-----------------------------------------------------------------------------
(* recheckEnvironment, and what happens around the window.                 *)

RecheckBegins ==
  /\ EnvAt("idle") /\ accepted.rev > 0 /\ env.status # "APPLYING"
  /\ envOp' = [NoEnvOp EXCEPT !.pc = "recheck", !.rev = accepted.rev, !.anchor = accepted.anchor]
  /\ RowsKept /\ EnvHistory

\* The verdict of an older accepted revision leaves a newer preview alone.
RecheckEnds ==
  /\ EnvAt("recheck verdict")
  /\ IF env.status # "APPLYING" /\ accepted.rev = envOp.rev
     THEN /\ accepted' = [accepted EXCEPT !.status = envOp.read]
          /\ env' = IF env.rev = envOp.rev THEN [env EXCEPT !.status = Verdict] ELSE env
     ELSE UNCHANGED <<env, accepted>>
  /\ EnvLeaves
  /\ UNCHANGED <<anchor, verified>> /\ EnvHistory

\* registerDevice does not take the window.
AnchorMoves ==
  /\ moves < MaxMoves /\ moves' = moves + 1
  /\ anchor' \in Anchors \ {anchor}
  /\ UNCHANGED <<env, accepted, verified, envOp, phoneWifi, updates, matched, envFaults>>

\* A restart, and recoverInterruptedEnvironments.
EnvRestarts ==
  /\ envFaults < MaxEnvFaults /\ envFaults' = envFaults + 1
  /\ env' = IF env.status = "APPLYING" THEN [env EXCEPT !.status = "FAILED"] ELSE env
  /\ accepted' = IF accepted.status = "PENDING" THEN [accepted EXCEPT !.status = "UNAVAILABLE"] ELSE accepted
  /\ EnvLeaves
  /\ UNCHANGED <<anchor, verified, phoneWifi, updates, matched, moves>>

EnvNext ==
  \/ PreviewBegins \/ PreviewEnds
  \/ ApplyEnvironment \/ ClaimEnvironment \/ MarkDispatched \/ UpdateWifi \/ StoreAcceptance
  \/ ReadWifi \/ StoreVerdict \/ CatchEnvironment
  \/ RecheckBegins \/ RecheckEnds \/ AnchorMoves \/ EnvRestarts

EnvSpec == EnvInit /\ [][EnvNext]_envVars

-----------------------------------------------------------------------------

Previews    == 0..MaxRevision
EnvRows     == [rev : Previews, status : {"NONE", "PREPARED", "APPLYING", "ACCEPTED", "FAILED"},
                anchor : Anchors, sent : BOOLEAN]
Acceptances == [rev : Previews, anchor : Anchors,
                status : {"NONE", "PENDING", "VERIFIED", "MISMATCH", "UNAVAILABLE"}]
EnvOps      == [pc : {"idle", "preview", "eligible", "trigger", "update", "accepted", "readback", "verdict", "catch",
                      "recheck", "recheck verdict"},
                rev : Previews, anchor : Anchors, read : {"PENDING", "VERIFIED", "MISMATCH", "UNAVAILABLE"}]

EnvTypeOK ==
  /\ anchor \in Anchors
  /\ env \in EnvRows
  /\ accepted \in Acceptances /\ accepted.rev <= env.rev
  /\ verified \in Previews /\ phoneWifi \in Previews /\ matched \subseteq Previews
  /\ envOp \in EnvOps
  /\ updates \in [Previews -> Nat]
  /\ moves \in 0..MaxMoves /\ envFaults \in 0..MaxEnvFaults

\* A revision is sent at most once, whatever key, database or process fails, and
\* what the rows say of it is true: a preview that may still be applied was never
\* sent, an ACCEPTED one was, a VERIFIED one was found on the phone and is the
\* accepted one, and the recheck of an older one never touches a newer preview.
RevisionIsSentOnce ==
  /\ \A r \in 1..MaxRevision : updates[r] <= 1
  /\ env.status = "PREPARED" => updates[env.rev] = 0 /\ ~env.sent
  /\ env.status = "ACCEPTED" => updates[env.rev] = 1 /\ accepted.rev = env.rev
  /\ accepted.status = "VERIFIED" => accepted.rev \in matched
  /\ accepted.rev = env.rev /\ accepted.status = "MISMATCH" => env.status = "FAILED"
  /\ verified \in matched \cup {0}
=============================================================================
