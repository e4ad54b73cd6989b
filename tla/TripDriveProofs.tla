--------------------------- MODULE TripDriveProofs ---------------------------
(***************************************************************************)
(* The driving trip for a timeline of any length and any number of         *)
(* revisions: types, evidence, exclusion of the user's requests, progress. *)
(* At the end, the trigger that makes and starts a trip (TripTrigger), for *)
(* any number of requests under its key.                                   *)
(***************************************************************************)
EXTENDS TripDrive, TripTrigger, TLAPS

\* The bound on revisions, which makes the types inductive; a dead process
\* runs nothing.
RevisionsLeft ==
  /\ op.pc # "idle" => op.snap.rev < MaxRev
  /\ ~up => trip.rev < MaxRev /\ op.pc = "idle" /\ step.pc = "idle"

\* The steps that may still turn into a call of this step.
BeforeCall == At("reserved") \/ (At("queued") /\ ~step.started) \/ At("vetted")
\* The steps of a call whose answer is not stored yet.
InCall == At("marked") \/ At("sent") \/ (At("queued") /\ step.started) \/ At("answered")

\* A retry is of a point the provider refused, as the row still says.
RetryIsOfRefused ==
  /\ step.retry => step.snap.pending # NoPoint
  /\ BeforeCall /\ step.retry => last.status = "BUSY"

\* The row of the call at hand says what the step knows of it.
CallIsRecorded ==
  /\ At("loaded") \/ At("reserved") => ~step.started
  /\ At("marked") \/ At("sent") => step.started
  /\ InCall => last.status = "DISPATCHED" /\ last.point = step.point
  /\ At("marked") => last.wire = "none"
  /\ At("queued") /\ step.started => last.wire = "refused"
  /\ At("answered") => \/ step.answer = "API_ACCEPTED" /\ last.wire = "applied"
                       \/ step.answer \in {"BUSY", "REJECTED"} /\ last.wire = "refused"
  /\ At("completed") => last.status = step.answer /\ last.point = step.point

\* A call whose outcome is open leaves its point pending.
OpenCallIsPending ==
  /\ InCall => trip.pending # NoPoint
  /\ trip.pending = NoPoint => /\ last.wire # "flying"
                               /\ last.wire = "applied" => last.status = "API_ACCEPTED"

\* A request past its checks was allowed for the row it read.
OpFitsStatus ==
  op.pc \in {"checking", "commit"} =>
    \/ op.kind = "start"  /\ op.snap.status = "PREVIEW"
    \/ op.kind = "pause"  /\ op.snap.status \in Driving \cup {"PAUSED"}
    \/ op.kind = "resume" /\ op.snap.status = "PAUSED"
    \/ op.kind = "cancel" /\ op.snap.status \in Driving \cup {"PREVIEW", "PAUSED"}
    \/ op.kind = "adopt"  /\ op.snap.status = "ARRIVED"

\* The step's own record of the arrival Wi-Fi is the row's, or newer by the
\* remark that nothing was sent; a row without a dispatch means none was.
WifiIsRecorded ==
  /\ At("finish") \/ At("arrival") \/ At("wifiMarked") \/ At("wifiSent") => step.wifi = trip.wifi
  /\ At("land") => \/ step.wifi = trip.wifi
                   \/ step.wifi = "unsent" /\ trip.wifi = "selected"
  /\ At("wifiMarked") => trip.wifi = "dispatched" /\ wifiSends = 0
  /\ trip.wifi \notin {"dispatched", "accepted"} => wifiSends = 0

\* The user's request and a call exclude each other.
RequestsExcluded ==
  /\ op.pc # "idle" <=> window = "op"
  /\ op.pc \in {"leasing", "checking", "commit"} => ~mover
  /\ BeforeCall \/ InCall => mover \/ At("answered")
  /\ At("marked") => trip.status = "RUNNING" /\ trip.rev = step.snap.rev
  /\ At("arrival") \/ At("wifiMarked") \/ At("wifiSent") => window = "step"
  /\ At("wifiMarked") => trip.status = "ARRIVING" /\ trip.rev = step.snap.rev

\* The steps from which the trip may still advance.
Advancing == At("loaded") \/ BeforeCall \/ InCall \/ At("completed")

\* No point before the accepted one is ever called.
PointsGoForward ==
  /\ trip.pending # NoPoint => trip.pending >= trip.elapsed
  /\ Advancing => /\ step.snap.elapsed = trip.elapsed
                  /\ step.snap.pending # NoPoint => step.snap.pending >= trip.elapsed
  /\ Advancing /\ ~At("loaded") /\ ~At("reserved") => step.point >= trip.elapsed

-----------------------------------------------------------------------------
\* Types.  What the updates of a trip's row and of the step's record keep.

LEMMA CallUpdate ==
  ASSUME NEW t \in Trips, NEW p \in Points \cup {NoPoint}, NEW r \in 0..1
  PROVE  [t EXCEPT !.pending = p, !.retries = r] \in Trips
BY DEF Trips

LEMMA ProgressUpdate ==
  ASSUME NEW t \in Trips, NEW e \in Points, NEW p \in Points \cup {NoPoint}, NEW r \in 0..1,
         NEW s \in Statuses
  PROVE  [t EXCEPT !.elapsed = e, !.pending = p, !.retries = r, !.status = s] \in Trips
BY DEF Trips

LEMMA PendingUpdate ==
  ASSUME NEW t \in Trips, NEW p \in Points \cup {NoPoint}
  PROVE  [t EXCEPT !.pending = p] \in Trips
BY DEF Trips

LEMMA StatusUpdate ==
  ASSUME NEW t \in Trips, NEW s \in Statuses
  PROVE  [t EXCEPT !.status = s] \in Trips /\ [t EXCEPT !.status = s].rev = t.rev
BY DEF Trips

LEMMA WifiUpdate ==
  ASSUME NEW t \in Trips, NEW w \in WifiMarks
  PROVE  [t EXCEPT !.wifi = w] \in Trips /\ [t EXCEPT !.wifi = w].rev = t.rev
BY DEF Trips

LEMMA LandUpdate ==
  ASSUME NEW t \in Trips, NEW s \in Statuses, NEW w \in WifiMarks
  PROVE  [t EXCEPT !.status = s, !.wifi = w] \in Trips
BY DEF Trips

LEMMA RevisionUpdate ==
  ASSUME NEW t \in Trips, NEW s \in Statuses, t.rev < MaxRev
  PROVE  [t EXCEPT !.rev = @ + 1, !.status = s] \in Trips
<1>1. t.rev + 1 \in Revs
  BY PointsAndBounds DEF Trips, Revs
<1>2. QED
  BY <1>1 DEF Trips

LEMMA RestTyped ==
  /\ Rest \in Steps /\ Rest.pc = "idle" /\ Rest.retry = FALSE /\ Rest.started = FALSE
  /\ NoWait \in [rev : Revs, seenOn : BOOLEAN]
  /\ Preview("off") \in Trips /\ Preview("off").rev = 0
  /\ 0 \in Revs
BY PointsAndBounds
   DEF Rest, NoWait, Steps, Places, Trips, Preview, Points, Revs, Statuses, WifiMarks

Typed == TypeOK /\ RevisionsLeft /\ (step.retry => step.snap.pending # NoPoint)

LEMMA TypedStep == Typed /\ [Next]_vars => Typed'
<1> SUFFICES ASSUME Typed, [Next]_vars PROVE Typed'
  OBVIOUS
<1> USE RestTyped
    DEF Typed, TypeOK, RevisionsLeft, db, process, aux, At, Goto, Leave
<1>1. CASE UNCHANGED vars
  BY <1>1 DEF vars
<1>2. CASE StepTakes
  <2>1. step' \in Steps /\ step'.retry = FALSE
    BY <1>2 DEF StepTakes, Steps, Places
  <2>2. QED
    BY <1>2, <2>1 DEF StepTakes
<1>3. CASE Defer \/ LoadedUnsafe \/ HoldOff \/ ScheduleStalled \/ ReadinessTimesOut
  <2>1. step' \in Steps /\ (step'.retry => step'.snap.pending # NoPoint)
    BY <1>3 DEF Defer, LoadedUnsafe, HoldOff, ScheduleStalled, ReadinessTimesOut, Steps, Places
  <2>2. QED
    BY <1>3, <2>1 DEF Defer, LoadedUnsafe, HoldOff, ScheduleStalled, ReadinessTimesOut
<1>4. CASE Reserve
  <2>1. step' \in Steps /\ (step'.retry => step'.snap.pending # NoPoint)
    BY <1>4 DEF Reserve, Retryable, Steps, Places
  <2>2. step.snap.rev \in Revs
    BY DEF Steps, Trips
  <2>3. QED
    BY <1>4, <2>1, <2>2 DEF Reserve
<1>5. CASE PowerUnusable \/ PowerBusy \/ PowerFirstOn
  <2>0. device' \in [trip : BOOLEAN, active : BOOLEAN, at : Points, power : Power]
    BY <1>5 DEF PowerUnusable, PowerBusy, PowerFirstOn, Power
  <2>1. step' \in Steps /\ (step'.retry => step'.snap.pending # NoPoint)
    BY <1>5 DEF PowerUnusable, PowerBusy, PowerFirstOn, Steps, Places
  <2>2. step.snap.rev \in Revs
    BY DEF Steps, Trips
  <2>3. readiness' \in [rev : Revs, seenOn : BOOLEAN]
    <3>1. CASE PowerUnusable
      BY <3>1 DEF PowerUnusable
    <3>2. CASE PowerBusy
      BY <2>2, <3>2 DEF PowerBusy
    <3>3. CASE PowerFirstOn
      BY <3>3, Zenon DEF PowerFirstOn
    <3>4. QED
      BY <1>5, <3>1, <3>2, <3>3
  <2>4. QED
    BY <1>5, <2>0, <2>1, <2>3 DEF PowerUnusable, PowerBusy, PowerFirstOn
<1>6. CASE PowerReady
  <2>1. NextPoint \in Points
    BY PointsAndBounds DEF NextPoint, Points, Steps, Trips
  <2>2. step' \in Steps /\ (step'.retry => step'.snap.pending # NoPoint)
    BY <1>6, <2>1 DEF PowerReady, Waiting, Steps, Places
  <2>3. QED
    BY <1>6, <2>2 DEF PowerReady, Power
<1>7. CASE Vet \/ Unsent \/ Post \/ KeyFails \/ CompletedUnsafe
  <2>1. step' \in Steps /\ (step'.retry => step'.snap.pending # NoPoint)
    BY <1>7 DEF Vet, Unsent, Post, KeyFails, CompletedUnsafe, Steps, Places
  <2>2. last' \in Requests
    BY <1>7 DEF Vet, Unsent, Post, KeyFails, CompletedUnsafe, Requests
  <2>3. QED
    BY <1>7, <2>1, <2>2 DEF Vet, Unsent, Post, KeyFails, CompletedUnsafe
<1>8. CASE Dispatch
  <2>1. step' \in Steps /\ step'.retry = step.retry /\ step'.snap = step.snap /\ step.point \in Points
    BY <1>8 DEF Dispatch, Steps, Places
  <2>2. (IF step.retry THEN 1 ELSE trip.retries) \in 0..1
    BY DEF Trips
  <2>3. trip' \in Trips
    BY <1>8, <2>1, <2>2, CallUpdate DEF Dispatch
  <2>4. last' \in Requests
    BY <1>8, <2>1 DEF Dispatch, Requests
  <2>5. adrift' \in BOOLEAN
    BY <1>8 DEF Dispatch
  <2>6. QED
    BY <1>8, <2>1, <2>3, <2>4, <2>5 DEF Dispatch
<1>9. CASE Answered
  <2>1. step' \in Steps /\ (step'.retry => step'.snap.pending # NoPoint)
    BY <1>9 DEF Answered, Answers, Steps, Places
  <2>2. QED
    BY <1>9, <2>1 DEF Answered
<1>10. CASE Doubt \/ CompleteFails
  <2>1. step' \in Steps /\ (step'.retry => step'.snap.pending # NoPoint)
    BY <1>10 DEF Doubt, CompleteFails, Steps, Places
  <2>2. last' \in Requests
    BY <1>10 DEF Doubt, CompleteFails, Unresolved, Requests
  <2>3. QED
    BY <1>10, <2>1, <2>2 DEF Doubt, CompleteFails
<1>11. CASE Complete
  <2>1. step' \in Steps /\ (step'.retry => step'.snap.pending # NoPoint)
    BY <1>11 DEF Complete, Steps, Places
  <2>2. last' \in Requests /\ step.point \in Points
    BY <1>11 DEF Complete, Requests, Steps
  <2>3. QED
    BY <1>11, <2>1, <2>2 DEF Complete
<1>12. CASE Accept
  <2>1. step.point \in Points /\ (IF step.point = LastPoint THEN "ARRIVING" ELSE trip.status) \in Statuses
    BY DEF Steps, Trips, Statuses, Driving
  <2>2. NoPoint \in Points \cup {NoPoint} /\ 0 \in 0..1
    OBVIOUS
  <2>3. trip' \in Trips
    BY <1>12, <2>1, <2>2, ProgressUpdate DEF Accept
  <2>4. step' \in Steps /\ step'.retry = FALSE
    <3>1. trip.wifi \in WifiMarks
      BY DEF Trips
    <3>2. CASE step' = Rest
      BY <3>2
    <3>3. CASE step' = [Rest EXCEPT !.pc = "finish", !.snap = trip', !.wifi = trip.wifi]
      BY <2>3, <3>1, <3>3 DEF Steps, Places
    <3>4. QED
      BY <1>12, <3>2, <3>3 DEF Accept
  <2>5. step.snap.rev \in Revs
    BY DEF Steps, Trips
  <2>6. QED
    BY <1>12, <2>3, <2>4, <2>5 DEF Accept
<1>13. CASE HoldForRetry
  <2>1. step.snap.rev \in Revs
    BY DEF Steps, Trips
  <2>2. QED
    BY <1>13, <2>1 DEF HoldForRetry
<1>14. CASE ClearRejected
  <2>1. step' \in Steps /\ (step'.retry => step'.snap.pending # NoPoint)
    BY <1>14 DEF ClearRejected, Steps, Places
  <2>2. trip' \in Trips
    BY <1>14, PendingUpdate DEF ClearRejected
  <2>3. QED
    BY <1>14, <2>1, <2>2 DEF ClearRejected
<1>15. CASE PauseUnsafe \/ PauseFails
  <2>1. "PAUSED" \in Statuses /\ trip.wifi \in WifiMarks
    BY DEF Statuses, Trips
  <2>2. trip' \in Trips
    <3>1. trip' = trip \/ trip' = [trip EXCEPT !.status = "PAUSED"]
      BY <1>15 DEF PauseUnsafe, PauseFails
    <3>2. QED
      BY <2>1, <3>1, StatusUpdate
  <2>3. QED
    BY <1>15, <2>2 DEF PauseUnsafe, PauseFails
<1>16. CASE LandingReady
  <2>1. step' \in Steps /\ (step'.retry => step'.snap.pending # NoPoint)
    BY <1>16 DEF LandingReady, Steps, Places, Trips
  <2>2. QED
    BY <1>16, <2>1 DEF LandingReady
<1>17. CASE FinishOpens \/ FinishFails \/ ArrivalReplay \/ ArrivalPlain
  <2>1. step' \in Steps /\ (step'.retry => step'.snap.pending # NoPoint)
    BY <1>17 DEF FinishOpens, FinishFails, ArrivalReplay, ArrivalPlain, Steps, Places
  <2>2. QED
    BY <1>17, <2>1 DEF FinishOpens, FinishFails, ArrivalReplay, ArrivalPlain
<1>18. CASE WifiMark \/ WifiPost \/ WifiKeyFails \/ WifiAccepted \/ WifiFails
  <2>1. step' \in Steps /\ (step'.retry => step'.snap.pending # NoPoint)
    BY <1>18, ZenonT(40) DEF WifiMark, WifiPost, WifiKeyFails, WifiAccepted, WifiFails, Steps, Places, WifiMarks
  <2>2. "dispatched" \in WifiMarks /\ "accepted" \in WifiMarks /\ trip.status \in Statuses
    BY DEF WifiMarks, Trips
  <2>3. trip' \in Trips
    <3>1. \/ trip' = trip
          \/ trip' = [trip EXCEPT !.wifi = "dispatched"]
          \/ trip' = [trip EXCEPT !.wifi = "accepted"]
      BY <1>18 DEF WifiMark, WifiPost, WifiKeyFails, WifiAccepted, WifiFails
    <3>2. QED
      BY <2>2, <3>1, WifiUpdate
  <2>4. QED
    BY <1>18, <2>1, <2>3 DEF WifiMark, WifiPost, WifiKeyFails, WifiAccepted, WifiFails
<1>19. CASE Land
  <2>1. "ARRIVED" \in Statuses /\ step.wifi \in WifiMarks
    BY DEF Statuses, Steps
  <2>2. trip' \in Trips
    BY <1>19, <2>1, LandUpdate DEF Land
  <2>3. QED
    BY <1>19, <2>2 DEF Land
<1>20. CASE Provider
  <2>1. last' \in Requests
    BY <1>20 DEF Provider, Requests
  <2>2. QED
    BY <1>20, <2>1 DEF Provider
<1>21. CASE OpBegins
  BY <1>21, RestTyped DEF OpBegins, NoOp, Kinds, Trips
<1>22. CASE OpDrained \/ OpLeases \/ OpChecks
  BY <1>22 DEF OpDrained, OpLeases, OpChecks, Power
<1>23. CASE OpGivesUp
  BY <1>23 DEF OpGivesUp, OpEnds, NoOp, Kinds
<1>24. CASE StartTrip \/ PauseTrip \/ ResumeTrip \/ CancelTrip \/ AdoptAnchor
  <2>1. \E k \in Kinds, s \in Statuses : OpCommits(k, s)
    BY <1>24 DEF StartTrip, PauseTrip, ResumeTrip, CancelTrip, AdoptAnchor, Kinds, Statuses, Driving
  <2>2. PICK k \in Kinds, s \in Statuses : OpCommits(k, s)
    BY <2>1
  <2>3. trip' \in Trips
    BY <2>2, RevisionUpdate DEF OpCommits
  <2>4. device' \in [trip : BOOLEAN, active : BOOLEAN, at : Points, power : Power]
    BY <1>24 DEF StartTrip, PauseTrip, ResumeTrip, CancelTrip, AdoptAnchor
  <2>5. op' = NoOp /\ up' /\ NoOp.pc = "idle"
        /\ NoOp \in [pc : {"idle", "draining", "leasing", "checking", "commit"}, kind : Kinds, snap : Trips]
    BY <2>2 DEF OpCommits, OpEnds, NoOp, Kinds
  <2>6. QED
    BY <2>2, <2>3, <2>4, <2>5 DEF OpCommits, OpEnds
<1>25. CASE DriftSwitched \/ FleetSync \/ SubscriptionEnds \/ OtherTakes \/ OtherLeaves \/ Lapse
  BY <1>25, ZenonT(40) DEF DriftSwitched, FleetSync, SubscriptionEnds, OtherTakes, OtherLeaves, Lapse
<1>26. CASE Crash
  BY <1>26 DEF Crash, NoOp, Kinds
<1>27. CASE Recover
  <2>1. "PAUSED" \in Statuses
    BY DEF Statuses
  <2>2. trip' \in Trips
    <3>1. trip.rev < MaxRev
      BY <1>27 DEF Recover
    <3>2. trip' = trip \/ trip' = [trip EXCEPT !.rev = @ + 1, !.status = "PAUSED"]
      BY <1>27 DEF Recover
    <3>3. trip \in Trips
      OBVIOUS
    <3> HIDE DEF Typed, TypeOK, RevisionsLeft
    <3>4. [trip EXCEPT !.rev = @ + 1, !.status = "PAUSED"] \in Trips
      BY <2>1, <3>1, <3>3, RevisionUpdate, Zenon
    <3>5. QED
      BY <3>2, <3>3, <3>4, Zenon
  <2>3. QED
    BY <1>27, <2>2 DEF Recover
<1>28. QED
  BY <1>1, <1>2, <1>3, <1>4, <1>5, <1>6, <1>7, <1>8, <1>9, <1>10, <1>11, <1>12, <1>13, <1>14,
     <1>15, <1>16, <1>17, <1>18, <1>19, <1>20, <1>21, <1>22, <1>23, <1>24, <1>25, <1>26, <1>27
     DEF Next, StepRuns, GpsCall, Arrival, OpProceeds

-----------------------------------------------------------------------------
\* The evidence of the GPS calls.

Evidence ==
  RetryIsOfRefused /\ CallIsRecorded /\ EvidenceIsTrue /\ OpenCallIsPending /\ NothingAdrift

\* The steps in which Evidence asks something of the step.
Calling == At("loaded") \/ At("reserved") \/ At("vetted") \/ At("queued") \/ At("marked")
           \/ At("sent") \/ At("answered") \/ At("completed")

\* A step that leaves the rows alone and no call behind.
LEMMA NoCallLeft ==
  ASSUME Evidence, UNCHANGED <<last, adrift>>, trip'.pending = trip.pending,
         ~Calling', step'.retry => step.retry /\ step'.snap = step.snap
  PROVE  Evidence'
BY DEF Evidence, RetryIsOfRefused, CallIsRecorded, EvidenceIsTrue, OpenCallIsPending,
       NothingAdrift, BeforeCall, InCall, Calling, At

LEMMA EvidenceStep == Typed /\ Evidence /\ [Next]_vars => Evidence'
<1> SUFFICES ASSUME Typed, Evidence, [Next]_vars PROVE Evidence'
  OBVIOUS
<1>0. /\ trip \in Trips /\ step \in Steps /\ last \in Requests /\ adrift \in BOOLEAN
      /\ ~Rest.retry /\ Rest.pc = "idle"
  BY RestTyped DEF Typed, TypeOK
<1> USE <1>0 DEF db, process, aux, Goto, Leave
<1>1. CASE UNCHANGED <<trip, last, step, adrift>>
  BY <1>1 DEF Evidence, RetryIsOfRefused, CallIsRecorded, EvidenceIsTrue, OpenCallIsPending,
       NothingAdrift, BeforeCall, InCall, At
<1>2. CASE UNCHANGED <<last, adrift, step>> /\ trip'.pending = trip.pending
  BY <1>2 DEF Evidence, RetryIsOfRefused, CallIsRecorded, EvidenceIsTrue, OpenCallIsPending,
       NothingAdrift, BeforeCall, InCall, At
<1>3. CASE StepTakes
  BY <1>3 DEF StepTakes, Steps, Evidence, RetryIsOfRefused, CallIsRecorded, EvidenceIsTrue,
       OpenCallIsPending, NothingAdrift, BeforeCall, InCall, At, Rest
<1>4. CASE Reserve
  BY <1>4 DEF Reserve, Retryable, Steps, Evidence, RetryIsOfRefused, CallIsRecorded,
       EvidenceIsTrue, OpenCallIsPending, NothingAdrift, BeforeCall, InCall, At
<1>5. CASE Defer \/ HoldOff \/ PowerBusy \/ PowerFirstOn \/ HoldForRetry \/ PauseFails
  <2>1. UNCHANGED <<trip, last, adrift>> /\ step' = Rest
    BY <1>5 DEF Defer, HoldOff, PowerBusy, PowerFirstOn, HoldForRetry, PauseFails
  <2>2. QED
    BY <2>1, NoCallLeft DEF Calling, At
<1>6. CASE LoadedUnsafe \/ ScheduleStalled \/ ReadinessTimesOut \/ PowerUnusable \/ Unsent
           \/ CompletedUnsafe
  <2>1. UNCHANGED <<trip, last, adrift>> /\ step' = [step EXCEPT !.pc = "pausing"]
    BY <1>6 DEF LoadedUnsafe, ScheduleStalled, ReadinessTimesOut, PowerUnusable, Unsent,
                CompletedUnsafe
  <2>2. ~Calling' /\ step'.retry = step.retry /\ step'.snap = step.snap
    BY <2>1 DEF Calling, At, Steps
  <2>3. QED
    BY <2>1, <2>2, NoCallLeft
<1>7. CASE PowerReady \/ Vet
  <2>1. UNCHANGED <<trip, last, adrift>> /\ BeforeCall /\ BeforeCall'
        /\ step'.retry = step.retry /\ step'.snap = step.snap /\ step'.started = FALSE
    BY <1>7 DEF PowerReady, Vet, Steps, Evidence, CallIsRecorded, BeforeCall, At
  <2>2. ~InCall' /\ ~At("loaded")' /\ ~At("completed")'
    BY <1>7, <2>1 DEF PowerReady, Vet, Steps, InCall, At
  <2>3. QED
    BY <2>1, <2>2 DEF Evidence, RetryIsOfRefused, CallIsRecorded, EvidenceIsTrue,
         OpenCallIsPending, NothingAdrift, InCall, At
<1>22. CASE Post
  BY <1>22 DEF Post, Steps, Requests, Evidence, RetryIsOfRefused,
       CallIsRecorded, EvidenceIsTrue, OpenCallIsPending, NothingAdrift, BeforeCall, InCall, At
<1>8. CASE Dispatch
  <2>1. /\ last' = [status |-> "DISPATCHED", point |-> step.point, wire |-> "none"]
        /\ At("marked")' /\ step'.started /\ step'.point = step.point /\ trip'.pending = step.point
        /\ step'.retry = step.retry /\ step'.snap = step.snap
    BY <1>8 DEF Dispatch, Steps, Trips, At
  <2>2. trip'.pending # NoPoint
    BY <2>1, PointsAndBounds DEF Steps, Points
  <2>3. last.wire # "flying" /\ (last.wire = "applied" => last.status = "API_ACCEPTED")
    <3>1. CASE step.retry
      BY <1>8, <3>1 DEF Dispatch, Evidence, RetryIsOfRefused, EvidenceIsTrue, BeforeCall, At
    <3>2. CASE ~step.retry
      BY <1>8, <3>2 DEF Dispatch, Evidence, OpenCallIsPending
    <3>3. QED
      BY <3>1, <3>2
  <2>4. ~adrift'
    BY <1>8, <2>3 DEF Dispatch, Evidence, NothingAdrift
  <2>5. QED
    BY <2>1, <2>2, <2>4 DEF Evidence, RetryIsOfRefused, CallIsRecorded, EvidenceIsTrue,
         OpenCallIsPending, NothingAdrift, BeforeCall, InCall, At
<1>9. CASE Provider
  BY <1>9 DEF Provider, Requests, Evidence, RetryIsOfRefused,
       CallIsRecorded, EvidenceIsTrue, OpenCallIsPending, NothingAdrift, BeforeCall, InCall, At
<1>10. CASE Answered
  BY <1>10 DEF Answered, Answers, Steps, Requests, Evidence, RetryIsOfRefused,
       CallIsRecorded, EvidenceIsTrue, OpenCallIsPending, NothingAdrift, BeforeCall, InCall, At
<1>11. CASE KeyFails
  BY <1>11 DEF KeyFails, Steps, Evidence, RetryIsOfRefused,
       CallIsRecorded, EvidenceIsTrue, OpenCallIsPending, NothingAdrift, BeforeCall, InCall, At
<1>12. CASE Doubt \/ CompleteFails
  BY <1>12 DEF Doubt, CompleteFails, Unresolved, Steps, Requests, Evidence, RetryIsOfRefused,
       CallIsRecorded, EvidenceIsTrue, OpenCallIsPending, NothingAdrift, BeforeCall, InCall, At
<1>13. CASE Complete
  BY <1>13 DEF Complete, Steps, Requests, Evidence, RetryIsOfRefused,
       CallIsRecorded, EvidenceIsTrue, OpenCallIsPending, NothingAdrift, BeforeCall, InCall, At
<1>14. CASE Accept \/ ClearRejected
  <2>1. UNCHANGED <<last, adrift>> /\ ~Calling' /\ (step'.retry => step.retry /\ step'.snap = step.snap)
    BY <1>14 DEF Accept, ClearRejected, Steps, Calling, At, Rest
  <2>2. last.wire # "flying" /\ (last.wire = "applied" => last.status = "API_ACCEPTED")
    BY <1>14 DEF Accept, ClearRejected, Evidence, CallIsRecorded, EvidenceIsTrue, At
  <2>3. QED
    BY <2>1, <2>2 DEF Evidence, RetryIsOfRefused, CallIsRecorded, EvidenceIsTrue,
         OpenCallIsPending, NothingAdrift, BeforeCall, InCall, Calling, At
<1>15. CASE PauseUnsafe \/ Land
  <2>1. UNCHANGED <<last, adrift>> /\ step' = Rest /\ trip'.pending = trip.pending
    BY <1>15 DEF PauseUnsafe, Land, Trips
  <2>2. QED
    BY <2>1, NoCallLeft DEF Calling, At
<1>16. CASE LandingReady \/ FinishOpens \/ FinishFails \/ ArrivalReplay \/ ArrivalPlain
            \/ WifiMark \/ WifiPost \/ WifiKeyFails \/ WifiAccepted \/ WifiFails
  <2>1. UNCHANGED <<last, adrift>> /\ trip'.pending = trip.pending
    BY <1>16 DEF LandingReady, FinishOpens, FinishFails, ArrivalReplay, ArrivalPlain,
         WifiMark, WifiPost, WifiKeyFails, WifiAccepted, WifiFails, Trips
  <2>2. ~Calling' /\ (step'.retry => step.retry /\ step'.snap = step.snap)
    BY <1>16 DEF LandingReady, FinishOpens, FinishFails, ArrivalReplay, ArrivalPlain,
         WifiMark, WifiPost, WifiKeyFails, WifiAccepted, WifiFails, Steps, Calling, At
  <2>3. QED
    BY <2>1, <2>2, NoCallLeft
<1>17. CASE OpBegins \/ OpProceeds
  <2>1. UNCHANGED <<last, adrift, step>> /\ trip'.pending = trip.pending
    BY <1>17 DEF OpBegins, NoOp, OpProceeds, OpDrained, OpLeases, OpChecks, StartTrip, PauseTrip,
         ResumeTrip, CancelTrip, AdoptAnchor, OpCommits, OpGivesUp, Trips
  <2>2. QED
    BY <1>2, <2>1
<1>18. CASE DriftSwitched \/ FleetSync \/ SubscriptionEnds \/ OtherTakes \/ OtherLeaves \/ Lapse
  BY <1>1, <1>18 DEF DriftSwitched, FleetSync, SubscriptionEnds, OtherTakes, OtherLeaves, Lapse
<1>19. CASE Crash
  <2>1. UNCHANGED <<trip, last, adrift>> /\ step' = Rest
    BY <1>19 DEF Crash
  <2>2. QED
    BY <2>1, NoCallLeft DEF Calling, At
<1>20. CASE Recover
  <2>1. UNCHANGED <<last, adrift, step>> /\ trip'.pending = trip.pending
    BY <1>20 DEF Recover, Trips
  <2>2. QED
    BY <1>2, <2>1
<1>21. CASE UNCHANGED vars
  BY <1>1, <1>21 DEF vars
<1>23. QED
  BY <1>3, <1>4, <1>5, <1>6, <1>7, <1>22, <1>8, <1>9, <1>10, <1>11, <1>12, <1>13, <1>14,
     <1>15, <1>16, <1>17, <1>18, <1>19, <1>20, <1>21 DEF Next, StepRuns, GpsCall, Arrival

-----------------------------------------------------------------------------
\* The trip and the device.

Ownership == OpFitsStatus /\ DeviceFollowsTrip

LEMMA OwnershipStep == Typed /\ Ownership /\ [Next]_vars => Ownership'
<1> SUFFICES ASSUME Typed, Ownership, [Next]_vars PROVE Ownership'
  OBVIOUS
<1>0. /\ trip \in Trips
      /\ device \in [trip : BOOLEAN, active : BOOLEAN, at : Points, power : Power]
      /\ op \in [pc : {"idle", "draining", "leasing", "checking", "commit"}, kind : Kinds, snap : Trips]
  BY DEF Typed, TypeOK
<1> USE <1>0 DEF Ownership, db, process, aux
<1>1. CASE UNCHANGED <<device, op>> /\ trip'.status = trip.status
  BY <1>1 DEF OpFitsStatus, DeviceFollowsTrip
<1>2. CASE UNCHANGED <<trip, op>> /\ device'.trip = device.trip /\ (device'.active => device.active \/ ~device.trip)
  BY <1>2 DEF OpFitsStatus, DeviceFollowsTrip
<1>3. CASE \/ StepTakes \/ Defer \/ LoadedUnsafe \/ Reserve \/ HoldOff \/ ScheduleStalled
           \/ ReadinessTimesOut
  <2>1. UNCHANGED <<trip, device, op>>
    BY <1>3 DEF StepTakes, Defer, LoadedUnsafe, Reserve, HoldOff, ScheduleStalled, ReadinessTimesOut
  <2>2. QED
    BY <1>1, <2>1
<1>4. CASE PowerUnusable \/ PowerBusy \/ PowerFirstOn \/ PowerReady \/ DriftSwitched \/ FleetSync \/ SubscriptionEnds
  <2>1. UNCHANGED <<trip, op>> /\ device'.trip = device.trip /\ (device'.active => device.active \/ ~device.trip)
    BY <1>4 DEF PowerUnusable, PowerBusy, PowerFirstOn, PowerReady, DriftSwitched, FleetSync, SubscriptionEnds
  <2>2. QED
    BY <1>2, <2>1
<1>5. CASE \/ Vet \/ Unsent \/ Post \/ Answered \/ KeyFails \/ Doubt \/ CompleteFails \/ HoldForRetry
           \/ CompletedUnsafe \/ PauseFails \/ Provider
  <2>1. UNCHANGED <<trip, device, op>>
    BY <1>5 DEF Vet, Unsent, Post, Answered, KeyFails, Doubt, CompleteFails, HoldForRetry,
         CompletedUnsafe, PauseFails, Provider
  <2>2. QED
    BY <1>1, <2>1
<1>6. CASE Dispatch \/ ClearRejected
  <2>1. UNCHANGED <<device, op>> /\ trip'.status = trip.status
    BY <1>6 DEF Dispatch, ClearRejected, Trips
  <2>2. QED
    BY <1>1, <2>1
<1>7. CASE Complete
  <2>1. UNCHANGED <<trip, op>> /\ device'.trip = device.trip /\ device'.active = device.active
    BY <1>7 DEF Complete
  <2>2. QED
    BY <1>2, <2>1
<1>8. CASE Accept
  <2>1. UNCHANGED <<device, op>> /\ trip.status = "RUNNING" /\ trip'.status \in Driving
    BY <1>8 DEF Accept, Trips, Driving
  <2>2. QED
    BY <2>1 DEF OpFitsStatus, DeviceFollowsTrip, Driving
<1>9. CASE PauseUnsafe
  <2>1. CASE UNCHANGED <<trip, device>>
    BY <1>1, <1>9, <2>1 DEF PauseUnsafe
  <2>2. CASE trip.status \in Driving /\ trip' = [trip EXCEPT !.status = "PAUSED"]
             /\ device' = [device EXCEPT !.active = @ /\ ~device.trip]
    <3>1. op' = op /\ trip'.status = "PAUSED" /\ device'.trip = device.trip /\ device.trip
          /\ ~device'.active
      BY <1>9, <2>2 DEF PauseUnsafe, Trips, DeviceFollowsTrip
    <3>2. QED
      BY <3>1 DEF OpFitsStatus, DeviceFollowsTrip, Driving
  <2>3. QED
    BY <1>9, <2>1, <2>2 DEF PauseUnsafe
<1>10. CASE LandingReady \/ FinishOpens \/ FinishFails \/ ArrivalReplay \/ ArrivalPlain
            \/ WifiMark \/ WifiPost \/ WifiKeyFails \/ WifiAccepted \/ WifiFails
  <2>1. UNCHANGED <<device, op>> /\ trip'.status = trip.status
    BY <1>10 DEF LandingReady, FinishOpens, FinishFails, ArrivalReplay, ArrivalPlain,
         WifiMark, WifiPost, WifiKeyFails, WifiAccepted, WifiFails, Trips
  <2>2. QED
    BY <1>1, <2>1
<1>11. CASE Land
  <2>1. op' = op /\ trip'.status = "ARRIVED" /\ ~device'.trip /\ ~device'.active
    BY <1>11 DEF Land, Trips, DeviceFollowsTrip, Driving
  <2>2. QED
    BY <2>1 DEF OpFitsStatus, DeviceFollowsTrip, Driving
<1>12. CASE OpBegins
  BY <1>12 DEF OpBegins, NoOp, OpFitsStatus, DeviceFollowsTrip
<1>13. CASE OpDrained \/ OpGivesUp
  BY <1>13 DEF OpDrained, OpGivesUp, OpEnds, NoOp, OpFitsStatus, DeviceFollowsTrip
<1>14. CASE OpLeases
  BY <1>14 DEF OpLeases, OpAllowed, OpFitsStatus, DeviceFollowsTrip
<1>15. CASE OpChecks
  <2>1. trip' = trip /\ device'.trip = device.trip /\ device'.active = device.active
    BY <1>15 DEF OpChecks
  <2>2. op'.kind = op.kind /\ op'.snap = op.snap /\ op.pc = "checking"
    BY <1>15 DEF OpChecks
  <2>3. QED
    BY <2>1, <2>2 DEF OpFitsStatus, DeviceFollowsTrip
<1>16. CASE StartTrip \/ PauseTrip \/ ResumeTrip \/ CancelTrip \/ AdoptAnchor
  <2>1. op' = NoOp /\ trip.status = op.snap.status /\ op.pc = "commit"
    BY <1>16 DEF StartTrip, PauseTrip, ResumeTrip, CancelTrip, AdoptAnchor, OpCommits, OpEnds
  <2>2. OpFitsStatus'
    BY <2>1 DEF OpFitsStatus, NoOp
  <2>3. CASE StartTrip
    <3>1. trip'.status = "RUNNING" /\ device'.trip /\ device'.active
      BY <2>3 DEF StartTrip, OpCommits, Trips
    <3>2. QED
      BY <2>2, <3>1 DEF DeviceFollowsTrip, Driving
  <2>4. CASE PauseTrip
    <3>1. trip'.status = "PAUSED" /\ device'.trip = device.trip /\ device.trip /\ ~device'.active
      BY <2>1, <2>4 DEF PauseTrip, OpCommits, Trips, OpFitsStatus, DeviceFollowsTrip
    <3>2. QED
      BY <2>2, <3>1 DEF DeviceFollowsTrip, Driving
  <2>5. CASE ResumeTrip
    <3>1. trip'.status = "RUNNING" /\ device'.trip /\ device'.active
      BY <2>5 DEF ResumeTrip, OpCommits, Trips
    <3>2. QED
      BY <2>2, <3>1 DEF DeviceFollowsTrip, Driving
  <2>6. CASE CancelTrip
    <3>1. trip'.status = "CANCELLED" /\ ~device'.trip
      BY <2>6 DEF CancelTrip, OpCommits, Trips, DeviceFollowsTrip, Driving
    <3>2. QED
      BY <2>2, <3>1 DEF DeviceFollowsTrip, Driving
  <2>7. CASE AdoptAnchor
    <3>1. trip'.status = "ARRIVED" /\ ~device'.trip
      BY <2>7 DEF AdoptAnchor, OpCommits, Trips
    <3>2. QED
      BY <2>2, <3>1 DEF DeviceFollowsTrip, Driving
  <2>8. QED
    BY <1>16, <2>3, <2>4, <2>5, <2>6, <2>7
<1>17. CASE OtherTakes \/ OtherLeaves \/ Lapse
  BY <1>1, <1>17 DEF OtherTakes, OtherLeaves, Lapse
<1>18. CASE Crash
  BY <1>18 DEF Crash, NoOp, OpFitsStatus, DeviceFollowsTrip
<1>19. CASE Recover
  <2>1. op' = op
    BY <1>19 DEF Recover
  <2>2. CASE UNCHANGED <<trip, device>>
    BY <1>1, <2>1, <2>2
  <2>3. CASE trip.status \in Driving /\ trip' = [trip EXCEPT !.rev = @ + 1, !.status = "PAUSED"]
             /\ device' = [device EXCEPT !.active = @ /\ ~device.trip]
    <3>1. trip'.status = "PAUSED" /\ device'.trip = device.trip /\ device.trip /\ ~device'.active
      BY <2>3 DEF Trips, DeviceFollowsTrip
    <3>2. QED
      BY <2>1, <3>1 DEF OpFitsStatus, DeviceFollowsTrip, Driving
  <2>4. QED
    BY <1>19, <2>2, <2>3 DEF Recover
<1>20. CASE UNCHANGED vars
  BY <1>1, <1>20 DEF vars
<1>21. QED
  BY <1>3, <1>4, <1>5, <1>6, <1>7, <1>8, <1>9, <1>10, <1>11, <1>12, <1>13, <1>14, <1>15,
     <1>16, <1>17, <1>18, <1>19, <1>20 DEF Next, StepRuns, GpsCall, Arrival, OpProceeds

-----------------------------------------------------------------------------
\* The arrival Wi-Fi.

Wifi == WifiIsRecorded /\ WifiOnce

\* The steps in which the step keeps its own record of the arrival Wi-Fi.
Landing == At("finish") \/ At("arrival") \/ At("wifiMarked") \/ At("wifiSent") \/ At("land")

LEMMA WifiStep == Typed /\ Wifi /\ [Next]_vars => Wifi'
<1> SUFFICES ASSUME Typed, Wifi, [Next]_vars PROVE Wifi'
  OBVIOUS
<1>0. trip \in Trips /\ step \in Steps /\ wifiSends \in Nat /\ Rest.pc = "idle"
  BY RestTyped DEF Typed, TypeOK
<1> USE <1>0 DEF Wifi, db, process, aux, Goto, Leave
<1>1. CASE wifiSends' = wifiSends /\ trip'.wifi = trip.wifi /\ (step' = step \/ ~Landing')
  BY <1>1 DEF WifiIsRecorded, WifiOnce, Landing, At
<1>2. CASE \/ StepTakes \/ Defer \/ LoadedUnsafe \/ Reserve \/ HoldOff \/ ScheduleStalled
           \/ ReadinessTimesOut \/ PowerUnusable \/ PowerBusy \/ PowerFirstOn \/ PowerReady
  <2>1. UNCHANGED <<trip, wifiSends>>
    BY <1>2 DEF StepTakes, Defer, LoadedUnsafe, Reserve, HoldOff, ScheduleStalled,
         ReadinessTimesOut, PowerUnusable, PowerBusy, PowerFirstOn, PowerReady
  <2>2. ~Landing'
    BY <1>2 DEF StepTakes, Defer, LoadedUnsafe, Reserve, HoldOff, ScheduleStalled,
         ReadinessTimesOut, PowerUnusable, PowerBusy, PowerFirstOn, PowerReady,
         Landing, At, Steps, Rest
  <2>3. QED
    BY <1>1, <2>1, <2>2
<1>3. CASE \/ Vet \/ Unsent \/ Dispatch \/ Post \/ Answered \/ KeyFails \/ Doubt \/ Complete
           \/ CompleteFails \/ HoldForRetry \/ ClearRejected \/ CompletedUnsafe
  <2>1. wifiSends' = wifiSends /\ trip'.wifi = trip.wifi
    BY <1>3 DEF Vet, Unsent, Dispatch, Post, Answered, KeyFails, Doubt, Complete,
         CompleteFails, HoldForRetry, ClearRejected, CompletedUnsafe, Trips
  <2>2. ~Landing'
    BY <1>3 DEF Vet, Unsent, Dispatch, Post, Answered, KeyFails, Doubt, Complete,
         CompleteFails, HoldForRetry, ClearRejected, CompletedUnsafe, Landing, At, Steps
  <2>3. QED
    BY <1>1, <2>1, <2>2
<1>4. CASE Accept
  <2>1. wifiSends' = wifiSends /\ trip'.wifi = trip.wifi
    BY <1>4 DEF Accept, Trips
  <2>2. CASE step' = Rest
    BY <1>1, <2>1, <2>2 DEF Landing, At
  <2>3. CASE step' = [Rest EXCEPT !.pc = "finish", !.snap = trip', !.wifi = trip.wifi]
    <3>1. step'.pc = "finish" /\ step'.wifi = trip.wifi
      BY <2>3 DEF Rest
    <3>2. QED
      BY <2>1, <3>1 DEF WifiIsRecorded, WifiOnce, At
  <2>4. QED
    BY <1>4, <2>2, <2>3 DEF Accept
<1>5. CASE PauseUnsafe \/ PauseFails
  <2>1. wifiSends' = wifiSends /\ trip'.wifi = trip.wifi /\ ~Landing'
    BY <1>5 DEF PauseUnsafe, PauseFails, Trips, Landing, At
  <2>2. QED
    BY <1>1, <2>1
<1>6. CASE LandingReady
  BY <1>6 DEF LandingReady, Steps, WifiIsRecorded, WifiOnce, At
<1>7. CASE FinishOpens \/ ArrivalPlain \/ WifiKeyFails
  BY <1>7 DEF FinishOpens, ArrivalPlain, WifiKeyFails, Steps, WifiIsRecorded, WifiOnce, At
<1>8. CASE FinishFails \/ ArrivalReplay
  <2>1. UNCHANGED <<trip, wifiSends>> /\ ~Landing'
    BY <1>8 DEF FinishFails, ArrivalReplay, Steps, Landing, At
  <2>2. QED
    BY <1>1, <2>1
<1>9. CASE WifiMark
  <2>1. trip.wifi = "selected" /\ wifiSends = 0
    BY <1>9 DEF WifiMark, WifiIsRecorded, At
  <2>2. /\ trip'.wifi = "dispatched" /\ step'.wifi = "dispatched"
        /\ step'.pc = "wifiMarked" /\ wifiSends' = wifiSends
    BY <1>9 DEF WifiMark, Steps, Trips
  <2>3. QED
    BY <2>1, <2>2 DEF WifiIsRecorded, WifiOnce, At
<1>10. CASE WifiPost
  <2>1. /\ step'.pc = "wifiSent" /\ step'.wifi = trip.wifi /\ trip' = trip
        /\ trip.wifi = "dispatched" /\ wifiSends' = 1
    BY <1>10 DEF WifiPost, WifiIsRecorded, Steps, At
  <2>2. QED
    BY <2>1 DEF WifiIsRecorded, WifiOnce, At
<1>11. CASE WifiAccepted
  <2>1. /\ step'.pc = "land" /\ step'.wifi = "accepted" /\ trip'.wifi = "accepted"
        /\ wifiSends' = wifiSends
    BY <1>11 DEF WifiAccepted, Steps, Trips
  <2>2. QED
    BY <2>1 DEF WifiIsRecorded, WifiOnce, At
<1>12. CASE WifiFails
  <2>1. /\ step'.pc = "land" /\ UNCHANGED <<trip, wifiSends>>
        /\ step'.wifi = IF step.wifi = "selected" THEN "unsent" ELSE step.wifi
        /\ step.wifi = trip.wifi
    BY <1>12 DEF WifiFails, WifiIsRecorded, Steps, At
  <2>2. QED
    BY <2>1 DEF WifiIsRecorded, WifiOnce, At
<1>13. CASE Land
  <2>1. /\ step' = Rest /\ trip'.wifi = step.wifi /\ wifiSends' = wifiSends
        /\ (step.wifi = trip.wifi \/ (step.wifi = "unsent" /\ trip.wifi = "selected"))
    BY <1>13 DEF Land, WifiIsRecorded, Trips, At
  <2>2. QED
    BY <2>1 DEF WifiIsRecorded, WifiOnce, At
<1>14. CASE Provider \/ OpBegins \/ OpProceeds
  <2>1. wifiSends' = wifiSends /\ trip'.wifi = trip.wifi /\ step' = step
    BY <1>14 DEF Provider, OpBegins, NoOp, OpProceeds, OpDrained, OpLeases, OpChecks, StartTrip,
         PauseTrip, ResumeTrip, CancelTrip, AdoptAnchor, OpCommits, OpGivesUp, Trips
  <2>2. QED
    BY <1>1, <2>1
<1>15. CASE DriftSwitched \/ FleetSync \/ SubscriptionEnds \/ OtherTakes \/ OtherLeaves \/ Lapse \/ Crash \/ Recover
  <2>1. wifiSends' = wifiSends /\ trip'.wifi = trip.wifi /\ (step' = step \/ step' = Rest)
    BY <1>15 DEF DriftSwitched, FleetSync, SubscriptionEnds, OtherTakes, OtherLeaves, Lapse, Crash, Recover, Trips
  <2>2. QED
    BY <1>1, <2>1 DEF Landing, At
<1>16. CASE UNCHANGED vars
  BY <1>1, <1>16 DEF vars
<1>17. QED
  BY <1>2, <1>3, <1>4, <1>5, <1>6, <1>7, <1>8, <1>9, <1>10, <1>11, <1>12, <1>13, <1>14,
     <1>15, <1>16 DEF Next, StepRuns, GpsCall, Arrival

-----------------------------------------------------------------------------
\* The user's requests and the calls.

LEMMA RequestsExcludedStep == Typed /\ RequestsExcluded /\ [Next]_vars => RequestsExcluded'
<1> SUFFICES ASSUME Typed, RequestsExcluded, [Next]_vars PROVE RequestsExcluded'
  OBVIOUS
<1>0. /\ trip \in Trips /\ step \in Steps /\ mover \in BOOLEAN /\ Rest.pc = "idle"
      /\ op \in [pc : {"idle", "draining", "leasing", "checking", "commit"}, kind : Kinds, snap : Trips]
      /\ window \in {"none", "step", "op"}
  BY RestTyped DEF Typed, TypeOK
<1> USE <1>0 DEF db, process, aux, Goto
<1>1. CASE UNCHANGED <<op, window, mover>> /\ ((UNCHANGED <<trip, step>>)
             \/ (~BeforeCall' /\ ~InCall' /\ ~At("arrival")' /\ ~At("wifiMarked")' /\ ~At("wifiSent")'))
  BY <1>1 DEF RequestsExcluded, BeforeCall, InCall, At
<1>2. CASE Leave /\ op' = op
  BY <1>2 DEF Leave, RequestsExcluded, BeforeCall, InCall, At
<1>3. CASE Defer \/ HoldOff \/ PowerBusy \/ PowerFirstOn \/ HoldForRetry \/ PauseUnsafe
           \/ PauseFails \/ Land
  BY <1>2, <1>3 DEF Defer, HoldOff, PowerBusy, PowerFirstOn, HoldForRetry, PauseUnsafe,
       PauseFails, Land
<1>4. CASE StepTakes \/ LoadedUnsafe \/ ScheduleStalled \/ ReadinessTimesOut \/ PowerUnusable
           \/ Unsent \/ Doubt \/ Complete \/ CompleteFails \/ ClearRejected \/ CompletedUnsafe
  <2>1. UNCHANGED <<op, window, mover>>
    BY <1>4 DEF StepTakes, LoadedUnsafe, ScheduleStalled, ReadinessTimesOut, PowerUnusable,
         Unsent, Doubt, Complete, CompleteFails, ClearRejected, CompletedUnsafe
  <2>2. step'.pc \in {"loaded", "landing", "pausing", "completed"}
    BY <1>4 DEF StepTakes, LoadedUnsafe, ScheduleStalled, ReadinessTimesOut, PowerUnusable,
         Unsent, Doubt, Complete, CompleteFails, ClearRejected, CompletedUnsafe, Steps, Rest
  <2>3. QED
    BY <1>1, <2>1, <2>2 DEF BeforeCall, InCall, At
<1>5. CASE Reserve
  BY <1>5 DEF Reserve, Steps, RequestsExcluded, BeforeCall, InCall, At
<1>6. CASE PowerReady \/ Vet \/ Answered \/ KeyFails
  <2>1. UNCHANGED <<op, window, mover>>
    BY <1>6 DEF PowerReady, Vet, Answered, KeyFails
  <2>2. (mover \/ step'.pc = "answered") /\ step'.pc \in {"queued", "vetted", "answered"}
    BY <1>6 DEF PowerReady, Vet, Answered, KeyFails, Steps, RequestsExcluded, BeforeCall, InCall, At
  <2>3. QED
    BY <2>1, <2>2 DEF RequestsExcluded, At
<1>7. CASE Dispatch
  <2>1. UNCHANGED <<op, window, mover>> /\ mover
    BY <1>7 DEF Dispatch, RequestsExcluded, BeforeCall, At
  <2>2. step'.pc = "marked" /\ trip'.status = "RUNNING" /\ trip'.rev = step'.snap.rev
    BY <1>7 DEF Dispatch, Steps, Trips
  <2>3. QED
    BY <2>1, <2>2 DEF RequestsExcluded, At
<1>8. CASE Post
  <2>1. UNCHANGED <<op, window, mover>> /\ mover /\ step'.pc = "sent"
    BY <1>8 DEF Post, RequestsExcluded, InCall, At, Steps
  <2>2. QED
    BY <2>1 DEF RequestsExcluded, At
<1>9. CASE Accept
  <2>1. CASE Leave
    BY <1>2, <1>9, <2>1 DEF Accept
  <2>2. CASE step' = [Rest EXCEPT !.pc = "finish", !.snap = trip', !.wifi = trip.wifi]
             /\ mover' = FALSE /\ UNCHANGED <<lease, window>>
    <3>1. step'.pc = "finish" /\ op' = op
      BY <1>9, <2>2 DEF Accept, Rest
    <3>2. QED
      BY <2>2, <3>1 DEF RequestsExcluded, BeforeCall, InCall, At
  <2>3. QED
    BY <1>9, <2>1, <2>2 DEF Accept
<1>10. CASE LandingReady \/ ArrivalReplay \/ ArrivalPlain \/ WifiAccepted \/ WifiFails
  <2>1. UNCHANGED <<op, window, mover>>
    BY <1>10 DEF LandingReady, ArrivalReplay, ArrivalPlain, WifiAccepted, WifiFails
  <2>2. step'.pc \in {"finish", "pausing", "land"}
    BY <1>10 DEF LandingReady, ArrivalReplay, ArrivalPlain, WifiAccepted, WifiFails, Steps
  <2>3. QED
    BY <1>1, <2>1, <2>2 DEF BeforeCall, InCall, At
<1>11. CASE FinishOpens
  <2>1. op' = op /\ mover' = mover /\ window = "none" /\ window' = "step" /\ step'.pc = "arrival"
    BY <1>11 DEF FinishOpens, Steps
  <2>2. QED
    BY <2>1 DEF RequestsExcluded, BeforeCall, InCall, At
<1>12. CASE FinishFails
  <2>1. CASE Leave
    BY <1>2, <1>12, <2>1 DEF FinishFails
  <2>2. CASE step' = [step EXCEPT !.pc = "pausing"] /\ UNCHANGED <<lease, mover>>
             /\ window' = IF window = "step" THEN "none" ELSE window
    <3>1. step'.pc = "pausing" /\ op' = op
      BY <1>12, <2>2 DEF FinishFails, Steps
    <3>2. QED
      BY <2>2, <3>1 DEF RequestsExcluded, BeforeCall, InCall, At
  <2>3. QED
    BY <1>12, <2>1, <2>2 DEF FinishFails
<1>13. CASE WifiMark
  <2>1. UNCHANGED <<op, window, mover>> /\ step'.pc = "wifiMarked" /\ window = "step"
    BY <1>13 DEF WifiMark, RequestsExcluded, At, Steps
  <2>2. trip'.status = "ARRIVING" /\ trip'.rev = step'.snap.rev
    BY <1>13 DEF WifiMark, Owns, Steps, Trips
  <2>3. QED
    BY <2>1, <2>2 DEF RequestsExcluded, BeforeCall, InCall, At
<1>14. CASE WifiPost \/ WifiKeyFails
  <2>1. UNCHANGED <<op, window, mover>> /\ step'.pc \in {"wifiSent", "arrival"} /\ window = "step"
    BY <1>14 DEF WifiPost, WifiKeyFails, RequestsExcluded, At, Steps
  <2>2. QED
    BY <2>1 DEF RequestsExcluded, BeforeCall, InCall, At
<1>15. CASE OpBegins
  BY <1>15 DEF OpBegins, NoOp, RequestsExcluded, BeforeCall, InCall, At
<1>16. CASE OpDrained \/ OpLeases \/ OpChecks
  <2>1. UNCHANGED <<trip, step, mover, window>> /\ op'.pc # "idle" /\ op.pc # "idle" /\ ~mover
    BY <1>16 DEF OpDrained, OpLeases, OpChecks, RequestsExcluded
  <2>2. QED
    BY <2>1 DEF RequestsExcluded, BeforeCall, InCall, At
<1>17. CASE StartTrip \/ PauseTrip \/ ResumeTrip \/ CancelTrip \/ AdoptAnchor
  <2>1. UNCHANGED <<step, mover>> /\ op' = NoOp /\ window' = "none" /\ op.pc = "commit"
    BY <1>17 DEF StartTrip, PauseTrip, ResumeTrip, CancelTrip, AdoptAnchor, OpCommits, OpEnds
  <2>2. ~mover /\ window = "op"
    BY <2>1 DEF RequestsExcluded
  <2>3. ~At("marked") /\ ~At("wifiMarked") /\ ~At("arrival") /\ ~At("wifiSent")
    BY <2>2 DEF RequestsExcluded, InCall, At
  <2>4. QED
    BY <2>1, <2>2, <2>3 DEF RequestsExcluded, BeforeCall, InCall, At, NoOp
<1>18. CASE OpGivesUp
  <2>1. UNCHANGED <<trip, step, mover>> /\ op' = NoOp /\ window' = "none" /\ window = "op"
    BY <1>18 DEF OpGivesUp, OpEnds, RequestsExcluded
  <2>2. QED
    BY <2>1 DEF RequestsExcluded, BeforeCall, InCall, At, NoOp
<1>19. CASE Provider \/ DriftSwitched \/ FleetSync \/ SubscriptionEnds \/ OtherTakes \/ OtherLeaves \/ Lapse
  BY <1>1, <1>19 DEF Provider, DriftSwitched, FleetSync, SubscriptionEnds, OtherTakes, OtherLeaves, Lapse
<1>20. CASE Crash
  BY <1>20 DEF Crash, NoOp, RequestsExcluded, BeforeCall, InCall, At
<1>21. CASE Recover
  <2>1. UNCHANGED <<step, op, window, mover>> /\ step.pc = "idle"
    BY <1>21 DEF Recover, Typed, RevisionsLeft
  <2>2. QED
    BY <1>1, <2>1 DEF BeforeCall, InCall, At
<1>22. CASE UNCHANGED vars
  BY <1>1, <1>22 DEF vars
<1>23. QED
  BY <1>3, <1>4, <1>5, <1>6, <1>7, <1>8, <1>9, <1>10, <1>11, <1>12, <1>13, <1>14, <1>15,
     <1>16, <1>17, <1>18, <1>19, <1>20, <1>21, <1>22
     DEF Next, StepRuns, GpsCall, Arrival, OpProceeds

-----------------------------------------------------------------------------
\* Progress.

LEMMA PointsGoForwardStep ==
  Typed /\ Evidence /\ PointsGoForward /\ [Next]_vars => PointsGoForward'
<1> SUFFICES ASSUME Typed, Evidence, PointsGoForward, [Next]_vars PROVE PointsGoForward'
  OBVIOUS
<1>0. trip \in Trips /\ step \in Steps /\ Rest.pc = "idle" /\ Points \subseteq Nat
  BY RestTyped, PointsAndBounds DEF Typed, TypeOK, Points
<1> USE <1>0 DEF db, process, aux, Goto, Leave
<1>1. CASE trip'.elapsed = trip.elapsed /\ trip'.pending = trip.pending /\ (step' = step \/ ~Advancing')
  BY <1>1 DEF PointsGoForward, Advancing, BeforeCall, InCall, At
\* The step goes on with what it read and the point it chose.
<1>2. CASE /\ UNCHANGED trip /\ Advancing /\ ~At("loaded") /\ ~At("reserved")
           /\ step'.snap = step.snap /\ step'.point = step.point
  BY <1>2 DEF PointsGoForward
<1>3. CASE StepTakes
  BY <1>3 DEF StepTakes, Rest, PointsGoForward, Advancing, BeforeCall, InCall, At
<1>4. CASE Reserve
  <2>1. UNCHANGED trip /\ At("loaded") /\ At("reserved")' /\ step'.snap = step.snap
    BY <1>4 DEF Reserve, Steps, At
  <2>2. QED
    BY <2>1 DEF PointsGoForward, Advancing, BeforeCall, InCall, At
<1>5. CASE PowerReady
  <2>1. UNCHANGED trip /\ At("reserved") /\ At("queued")' /\ step'.snap = step.snap
        /\ step'.point = NextPoint
    BY <1>5 DEF PowerReady, Steps, At
  <2>2. step.snap.elapsed \in Nat /\ (step.retry => step.snap.pending # NoPoint)
    BY DEF Steps, Trips, Typed
  <2>3. NextPoint >= trip.elapsed
    BY <2>1, <2>2 DEF NextPoint, PointsGoForward, Advancing, BeforeCall
  <2>4. QED
    BY <2>1, <2>3 DEF PointsGoForward, Advancing, BeforeCall, InCall, At
<1>6. CASE Vet \/ Post \/ Answered \/ KeyFails \/ Complete
  <2>1. UNCHANGED trip /\ step'.snap = step.snap /\ step'.point = step.point
    BY <1>6 DEF Vet, Post, Answered, KeyFails, Complete, Steps
  <2>2. Advancing /\ ~At("loaded") /\ ~At("reserved")
    BY <1>6, <1>0 DEF Vet, Post, Answered, KeyFails, Complete, Evidence, CallIsRecorded,
         Advancing, BeforeCall, InCall, At
  <2>3. QED
    BY <1>2, <2>1, <2>2
<1>7. CASE Dispatch
  <2>1. /\ At("vetted") /\ At("marked")' /\ step'.snap = step.snap /\ step'.point = step.point
        /\ trip'.elapsed = trip.elapsed /\ trip'.pending = step.point
    BY <1>7 DEF Dispatch, Steps, Trips, At
  <2>2. QED
    BY <2>1 DEF PointsGoForward, Advancing, BeforeCall, InCall, At
<1>8. CASE Accept
  <2>1. trip'.pending = NoPoint /\ ~Advancing'
    BY <1>8 DEF Accept, Trips, Rest, Advancing, BeforeCall, InCall, At
  <2>2. QED
    BY <2>1 DEF PointsGoForward, Advancing
<1>9. CASE ClearRejected
  <2>1. /\ trip'.elapsed = trip.elapsed /\ (trip'.pending = trip.pending \/ trip'.pending = NoPoint)
        /\ ~Advancing'
    BY <1>9 DEF ClearRejected, Trips, Steps, Advancing, BeforeCall, InCall, At
  <2>2. QED
    BY <2>1 DEF PointsGoForward, Advancing
<1>10. CASE \/ Defer \/ LoadedUnsafe \/ HoldOff \/ ScheduleStalled \/ ReadinessTimesOut \/ PowerUnusable
            \/ PowerBusy \/ PowerFirstOn \/ Unsent \/ Doubt \/ CompleteFails \/ HoldForRetry
            \/ CompletedUnsafe \/ PauseUnsafe \/ PauseFails \/ Land
  <2>1. trip'.elapsed = trip.elapsed /\ trip'.pending = trip.pending
    BY <1>10 DEF Defer, LoadedUnsafe, HoldOff, ScheduleStalled, ReadinessTimesOut, PowerUnusable,
         PowerBusy, PowerFirstOn, Unsent, Doubt, CompleteFails, HoldForRetry, CompletedUnsafe,
         PauseUnsafe, PauseFails, Land, Trips
  <2>2. step'.pc \in {"idle", "pausing"}
    BY <1>10 DEF Defer, LoadedUnsafe, HoldOff, ScheduleStalled, ReadinessTimesOut, PowerUnusable,
         PowerBusy, PowerFirstOn, Unsent, Doubt, CompleteFails, HoldForRetry, CompletedUnsafe,
         PauseUnsafe, PauseFails, Land, Steps
  <2>3. QED
    BY <1>1, <2>1, <2>2 DEF Advancing, BeforeCall, InCall, At
<1>11. CASE LandingReady \/ FinishOpens \/ FinishFails \/ ArrivalReplay \/ ArrivalPlain
            \/ WifiMark \/ WifiPost \/ WifiKeyFails \/ WifiAccepted \/ WifiFails
  <2>1. trip'.elapsed = trip.elapsed /\ trip'.pending = trip.pending
    BY <1>11 DEF LandingReady, FinishOpens, FinishFails, ArrivalReplay, ArrivalPlain,
         WifiMark, WifiPost, WifiKeyFails, WifiAccepted, WifiFails, Trips
  <2>2. ~Advancing'
    BY <1>11 DEF LandingReady, FinishOpens, FinishFails, ArrivalReplay, ArrivalPlain,
         WifiMark, WifiPost, WifiKeyFails, WifiAccepted, WifiFails, Steps,
         Advancing, BeforeCall, InCall, At
  <2>3. QED
    BY <1>1, <2>1, <2>2
<1>12. CASE Provider \/ OpBegins \/ OpProceeds \/ DriftSwitched \/ FleetSync \/ SubscriptionEnds
            \/ OtherTakes \/ OtherLeaves \/ Lapse \/ Crash \/ Recover
  <2>1. trip'.elapsed = trip.elapsed /\ trip'.pending = trip.pending
    BY <1>12 DEF Provider, OpBegins, NoOp, OpProceeds, OpDrained, OpLeases, OpChecks, StartTrip,
         PauseTrip, ResumeTrip, CancelTrip, AdoptAnchor, OpCommits, OpGivesUp, DriftSwitched, FleetSync, SubscriptionEnds,
         OtherTakes, OtherLeaves, Lapse, Crash, Recover, Trips
  <2>2. step' = step \/ step' = Rest
    BY <1>12 DEF Provider, OpBegins, NoOp, OpProceeds, OpDrained, OpLeases, OpChecks, StartTrip,
         PauseTrip, ResumeTrip, CancelTrip, AdoptAnchor, OpCommits, OpGivesUp, DriftSwitched, FleetSync, SubscriptionEnds,
         OtherTakes, OtherLeaves, Lapse, Crash, Recover
  <2>3. QED
    BY <1>1, <2>1, <2>2 DEF Advancing, BeforeCall, InCall, At
<1>13. CASE UNCHANGED vars
  BY <1>1, <1>13 DEF vars
<1>14. QED
  BY <1>3, <1>4, <1>5, <1>6, <1>7, <1>8, <1>9, <1>10, <1>11, <1>12, <1>13
     DEF Next, StepRuns, GpsCall, Arrival

-----------------------------------------------------------------------------
\* The invariant, and what follows from it.

IInv == Typed /\ Evidence /\ Ownership /\ Wifi /\ RequestsExcluded /\ PointsGoForward

LEMMA InitIInv == Init => IInv
<1> SUFFICES ASSUME Init PROVE IInv
  OBVIOUS
<1>1. PICK w \in {"off", "selected"} : trip = Preview(w)
  BY DEF Init
<1>2. /\ Preview(w) \in Trips /\ trip.status = "PREVIEW" /\ trip.pending = NoPoint
      /\ trip.wifi \in {"off", "selected"} /\ 0 \in Points
  BY <1>1, PointsAndBounds DEF Preview, Trips, Statuses, Revs, Points, WifiMarks
<1>3. step.pc = "idle" /\ ~step.retry /\ op.pc = "idle"
  BY DEF Init, Rest, NoOp
<1>4. Typed
  <2>1. device \in [trip : BOOLEAN, active : BOOLEAN, at : Points, power : Power]
    BY <1>2 DEF Init, Power
  <2>2. last \in Requests
    BY <1>2 DEF Init, Requests
  <2>3. op \in [pc : {"idle", "draining", "leasing", "checking", "commit"}, kind : Kinds, snap : Trips]
    BY RestTyped DEF Init, NoOp, Kinds
  <2>4. QED
    BY <1>1, <1>2, <1>3, <2>1, <2>2, <2>3, RestTyped DEF Init, Typed, TypeOK, RevisionsLeft
<1>5. Evidence
  BY <1>3 DEF Init, Evidence, RetryIsOfRefused, CallIsRecorded, EvidenceIsTrue, OpenCallIsPending,
     NothingAdrift, BeforeCall, InCall, At
<1>6. Ownership
  BY <1>2, <1>3 DEF Init, Ownership, OpFitsStatus, DeviceFollowsTrip, Driving
<1>7. Wifi
  BY <1>2, <1>3 DEF Init, Wifi, WifiIsRecorded, WifiOnce, At
<1>8. RequestsExcluded /\ PointsGoForward
  BY <1>2, <1>3 DEF Init, RequestsExcluded, PointsGoForward, Advancing, BeforeCall, InCall, At
<1>9. QED
  BY <1>4, <1>5, <1>6, <1>7, <1>8 DEF IInv

LEMMA IInvStep == IInv /\ [Next]_vars => IInv'
BY TypedStep, EvidenceStep, OwnershipStep, WifiStep, RequestsExcludedStep, PointsGoForwardStep
   DEF IInv

LEMMA IInvHolds == Spec => []IInv
BY InitIInv, IInvStep, PTL DEF Spec

(* The rows, the lease and the processes' records are well typed in every  *)
(* reachable state.                                                        *)
THEOREM TypeCorrect == Spec => []TypeOK
<1>1. IInv => TypeOK
  BY DEF IInv, Typed
<1>2. QED
  BY <1>1, IInvHolds, PTL

(* No GPS call replaces one that may still move the phone unaccounted for. *)
THEOREM NeverAdrift == Spec => []NothingAdrift
<1>1. IInv => NothingAdrift
  BY DEF IInv, Evidence
<1>2. QED
  BY <1>1, IInvHolds, PTL

(* An accepted request was carried out; a busy or rejected one was not and *)
(* never will be.                                                          *)
THEOREM EvidenceCorrect == Spec => []EvidenceIsTrue
<1>1. IInv => EvidenceIsTrue
  BY DEF IInv, Evidence
<1>2. QED
  BY <1>1, IInvHolds, PTL

(* The device belongs to its trip from start to end and moves only while   *)
(* the trip drives.                                                        *)
THEOREM DeviceIsTheTrips == Spec => []DeviceFollowsTrip
<1>1. IInv => DeviceFollowsTrip
  BY DEF IInv, Ownership
<1>2. QED
  BY <1>1, IInvHolds, PTL

(* The arrival Wi-Fi leaves the process at most once.                      *)
THEOREM WifiSentOnce == Spec => []WifiOnce
<1>1. IInv => WifiOnce
  BY DEF IInv, Wifi
<1>2. QED
  BY <1>1, IInvHolds, PTL

\* Only an accepted point is progress, only a carried out one a position.
LEMMA ProgressStep ==
  ASSUME IInv, [Next]_vars
  PROVE  /\ trip'.elapsed # trip.elapsed =>
              /\ last.wire = "applied" /\ last.point = trip'.elapsed
              /\ trip'.elapsed > trip.elapsed
         /\ device'.at # device.at => last.wire = "applied" /\ last.point = device'.at
<1>0. /\ trip \in Trips /\ step \in Steps /\ Points \subseteq Nat
      /\ device \in [trip : BOOLEAN, active : BOOLEAN, at : Points, power : Power]
  BY PointsAndBounds DEF IInv, Typed, TypeOK, Points
<1> USE <1>0 DEF db, process, aux
<1>1. CASE Accept
  <2>1. last.wire = "applied" /\ last.point = step.point /\ step.point >= trip.elapsed
    BY <1>1 DEF Accept, IInv, Evidence, CallIsRecorded, EvidenceIsTrue, PointsGoForward, Advancing, At
  <2>2. trip'.elapsed = step.point /\ device' = device
    BY <1>1 DEF Accept, Trips
  <2>3. step.point \in Nat /\ trip.elapsed \in Nat
    BY DEF Steps, Trips
  <2>4. QED
    BY <2>1, <2>2, <2>3
<1>2. CASE Complete
  <2>1. trip' = trip /\ (device'.at # device.at => step.answer = "API_ACCEPTED" /\ device'.at = step.point)
    BY <1>2 DEF Complete
  <2>2. last.point = step.point /\ (step.answer = "API_ACCEPTED" => last.wire = "applied")
    BY <1>2 DEF Complete, IInv, Evidence, CallIsRecorded, InCall, At
  <2>3. QED
    BY <2>1, <2>2
<1>3. CASE trip'.elapsed = trip.elapsed /\ device'.at = device.at
  BY <1>3
<1>4. CASE \/ StepTakes \/ Defer \/ LoadedUnsafe \/ Reserve \/ HoldOff \/ ScheduleStalled
           \/ ReadinessTimesOut \/ PowerUnusable \/ PowerBusy \/ PowerFirstOn \/ PowerReady
  BY <1>3, <1>4 DEF StepTakes, Defer, LoadedUnsafe, Reserve, HoldOff, ScheduleStalled,
       ReadinessTimesOut, PowerUnusable, PowerBusy, PowerFirstOn, PowerReady
<1>5. CASE \/ Vet \/ Unsent \/ Dispatch \/ Post \/ Answered \/ KeyFails \/ Doubt \/ CompleteFails
           \/ HoldForRetry \/ ClearRejected \/ CompletedUnsafe \/ Provider
  BY <1>3, <1>5 DEF Vet, Unsent, Dispatch, Post, Answered, KeyFails, Doubt, CompleteFails,
       HoldForRetry, ClearRejected, CompletedUnsafe, Provider, Trips
<1>6. CASE \/ PauseUnsafe \/ PauseFails \/ LandingReady \/ FinishOpens \/ FinishFails
           \/ ArrivalReplay \/ ArrivalPlain
           \/ WifiMark \/ WifiPost \/ WifiKeyFails \/ WifiAccepted \/ WifiFails \/ Land
  BY <1>3, <1>6 DEF PauseUnsafe, PauseFails, LandingReady, FinishOpens, FinishFails,
       ArrivalReplay, ArrivalPlain, WifiMark, WifiPost, WifiKeyFails, WifiAccepted, WifiFails,
       Land, Trips
<1>7. CASE OpBegins \/ OpProceeds
  BY <1>3, <1>7 DEF OpBegins, NoOp, OpProceeds, OpDrained, OpLeases, OpChecks, StartTrip,
       PauseTrip, ResumeTrip, CancelTrip, AdoptAnchor, OpCommits, OpGivesUp, Trips
<1>8. CASE DriftSwitched \/ FleetSync \/ SubscriptionEnds \/ OtherTakes \/ OtherLeaves \/ Lapse \/ Crash \/ Recover
  BY <1>3, <1>8 DEF DriftSwitched, FleetSync, SubscriptionEnds, OtherTakes, OtherLeaves, Lapse, Crash, Recover, Trips
<1>9. CASE UNCHANGED vars
  BY <1>3, <1>9 DEF vars
<1>10. QED
  BY <1>1, <1>2, <1>4, <1>5, <1>6, <1>7, <1>8, <1>9 DEF Next, StepRuns, GpsCall, Arrival

(* Progress and position change only to a point the provider carried out,  *)
(* and progress never goes back.                                           *)
THEOREM ProgressCorrect == Spec => ProgressIsApplied
<1>1. IInv /\ [Next]_vars =>
        [ /\ trip'.elapsed # trip.elapsed =>
               /\ last.wire = "applied" /\ last.point = trip'.elapsed
               /\ trip'.elapsed > trip.elapsed
          /\ device'.at # device.at => last.wire = "applied" /\ last.point = device'.at ]_vars
  BY ProgressStep
<1>2. QED
  BY <1>1, IInvHolds, PTL DEF Spec, ProgressIsApplied

\* Only two actions send, both for a trip that still is as the step read it.
LEMMA SilentStep ==
  ASSUME IInv, [Next]_vars
  PROVE  (last'.wire = "flying" /\ last.wire # "flying") \/ wifiSends' # wifiSends =>
            trip.status \in Driving /\ trip.rev = step.snap.rev
<1>0. last \in Requests
  BY DEF IInv, Typed, TypeOK
<1> USE <1>0 DEF db, process, aux
<1>1. CASE Post
  BY <1>1 DEF Post, IInv, RequestsExcluded, Driving
<1>2. CASE WifiPost
  BY <1>2 DEF WifiPost, IInv, RequestsExcluded, Driving
<1>3. CASE ~(last'.wire = "flying" /\ last.wire # "flying") /\ wifiSends' = wifiSends
  BY <1>3
<1>4. CASE Dispatch \/ Doubt \/ Complete \/ CompleteFails \/ Provider
  <2>1. wifiSends' = wifiSends
    BY <1>4 DEF Dispatch, Doubt, Complete, CompleteFails, Provider
  <2>2. last'.wire = last.wire \/ last'.wire = "none" \/ last.wire = "flying"
    <3>0. CASE Dispatch
      <4>1. last' = [status |-> "DISPATCHED", point |-> step.point, wire |-> "none"]
        BY <3>0 DEF Dispatch
      <4>2. QED
        BY <4>1
    <3>1. CASE Provider
      BY <3>1 DEF Provider
    <3>2. CASE Doubt
      BY <3>2 DEF Doubt, Requests
    <3>3. CASE Complete
      BY <3>3 DEF Complete, Requests
    <3>4. CASE CompleteFails
      BY <3>4 DEF CompleteFails, Requests
    <3>5. QED
      BY <1>4, <3>0, <3>1, <3>2, <3>3, <3>4
  <2>3. QED
    BY <1>3, <2>1, <2>2
<1>5. CASE \/ StepTakes \/ Defer \/ LoadedUnsafe \/ Reserve \/ HoldOff \/ ScheduleStalled
           \/ ReadinessTimesOut \/ PowerUnusable \/ PowerBusy \/ PowerFirstOn \/ PowerReady
           \/ Vet \/ Unsent \/ Answered \/ KeyFails \/ Accept
           \/ HoldForRetry \/ ClearRejected \/ CompletedUnsafe
  BY <1>3, <1>5 DEF StepTakes, Defer, LoadedUnsafe, Reserve, HoldOff, ScheduleStalled,
       ReadinessTimesOut, PowerUnusable, PowerBusy, PowerFirstOn, PowerReady, Vet, Unsent,
       Answered, KeyFails, Accept, HoldForRetry, ClearRejected, CompletedUnsafe
<1>6. CASE \/ PauseUnsafe \/ PauseFails \/ LandingReady \/ FinishOpens \/ FinishFails
           \/ ArrivalReplay \/ ArrivalPlain
           \/ WifiMark \/ WifiKeyFails \/ WifiAccepted \/ WifiFails \/ Land
  BY <1>3, <1>6 DEF PauseUnsafe, PauseFails, LandingReady, FinishOpens, FinishFails,
       ArrivalReplay, ArrivalPlain, WifiMark, WifiKeyFails, WifiAccepted, WifiFails, Land
<1>7. CASE OpBegins \/ OpProceeds
  BY <1>3, <1>7 DEF OpBegins, NoOp, OpProceeds, OpDrained, OpLeases, OpChecks, StartTrip,
       PauseTrip, ResumeTrip, CancelTrip, AdoptAnchor, OpCommits, OpGivesUp
<1>8. CASE DriftSwitched \/ FleetSync \/ SubscriptionEnds \/ OtherTakes \/ OtherLeaves \/ Lapse \/ Crash \/ Recover
  BY <1>3, <1>8 DEF DriftSwitched, FleetSync, SubscriptionEnds, OtherTakes, OtherLeaves, Lapse, Crash, Recover
<1>9. CASE UNCHANGED vars
  BY <1>3, <1>9 DEF vars
<1>10. QED
  BY <1>1, <1>2, <1>4, <1>5, <1>6, <1>7, <1>8, <1>9 DEF Next, StepRuns, GpsCall, Arrival

(* Nothing leaves the process for a trip that is stopped or changed.       *)
THEOREM SilenceCorrect == Spec => SilentWhenStopped
<1>1. IInv /\ [Next]_vars =>
        [ (last'.wire = "flying" /\ last.wire # "flying") \/ wifiSends' # wifiSends =>
            trip.status \in Driving /\ trip.rev = step.snap.rev ]_vars
  BY SilentStep
<1>2. QED
  BY <1>1, IInvHolds, PTL DEF Spec, SilentWhenStopped

-----------------------------------------------------------------------------
(* The trigger (TripTrigger).                                              *)

\* The versions a trip can have; the one before it is made is NoneMade.
Versions == [hash : Hashes \cup {"none"}, status : {"NONE", "PREVIEW", "UNDERWAY", "OVER"}, rev : Nat]

Making   == {"build", "again", "route", "insert"}
Starting == {"start", "check", "write", "recheck"}

TriggerTyped ==
  /\ tgRow \in Versions /\ (tgRow = NoneMade \/ (tgRow.status # "NONE" /\ tgRow.rev >= 1))
  /\ tgStarts \in Nat
  /\ tgPending \in Triggers \cup {NoRequest}
  /\ tgCalls \in [Triggers -> [pc : {"idle", "look", "join", "wait", "done"} \cup Making \cup Starting,
                               hash : Hashes \cup {"none"}, seen : Versions, ok : BOOLEAN]]

\* A trip was started once if it has left its preview by a start.
StartsFit == tgStarts <= 1 /\ (tgRow.status \in {"NONE", "PREVIEW"} => tgStarts = 0)

\* A version of the trip that was read, and may be old by now.
Version(seen, row) ==
  /\ seen # NoneMade /\ seen.status # "NONE" /\ seen.rev >= 1
  /\ seen.rev <= row.rev /\ seen.hash = row.hash
  /\ seen.rev = row.rev => seen = row

\* Who starts a trip holds a version of the trip it asked for.
CallsFit ==
  \A r \in Triggers :
    /\ tgCalls[r].pc \in Starting => Version(tgCalls[r].seen, tgRow) /\ tgCalls[r].seen.hash = tgCalls[r].hash
    /\ tgCalls[r].pc \in {"check", "write"} => tgCalls[r].seen.status = "PREVIEW"

\* One request makes the trip, and who waits for it asked for the same.
MakersFit ==
  \A r \in Triggers :
    /\ tgCalls[r].pc \in Making <=> tgPending = r
    /\ tgCalls[r].pc = "wait" => tgPending # NoRequest /\ tgCalls[tgPending].hash = tgCalls[r].hash

TriggerInv == TriggerTyped /\ StartsFit /\ CallsFit /\ MakersFit /\ TriggerDrivesOnce

LEMMA InitTriggerInv == TriggerInit => TriggerInv
  BY TriggerAssumption DEF TriggerInit, TriggerInv, TriggerTyped, StartsFit, CallsFit, MakersFit, TriggerDrivesOnce,
     Versions, NoneMade, IdleCall, Making, Starting, CallAt, NoRequest

\* A version stays one, whatever becomes of the trip.
TripGoesOn ==
  /\ tgRow' \in Versions
  /\ \/ UNCHANGED tgRow
     \/ tgRow = NoneMade /\ tgRow'.status # "NONE" /\ tgRow'.rev >= 1
     \/ tgRow # NoneMade /\ tgRow'.status # "NONE" /\ tgRow'.hash = tgRow.hash /\ tgRow'.rev = tgRow.rev + 1

LEMMA VersionStays ==
  ASSUME TriggerTyped, TripGoesOn, NEW seen \in Versions, Version(seen, tgRow)
  PROVE  Version(seen, tgRow')
  BY DEF TriggerTyped, TripGoesOn, Version, Versions, NoneMade

LEMMA RowIsVersion ==
  ASSUME TriggerTyped, tgRow # NoneMade
  PROVE  Version(tgRow, tgRow)
  BY DEF TriggerTyped, Version, Versions

\* A step of one call that leaves the making of a trip alone.
CallStep(r) ==
  /\ tgCalls'[r] \in [pc : {"idle", "look", "join", "done"} \cup Starting,
                      hash : Hashes \cup {"none"}, seen : Versions, ok : BOOLEAN]
  /\ tgCalls' = [tgCalls EXCEPT ![r] = tgCalls'[r]]
  /\ tgCalls'[r].pc \in Starting =>
       Version(tgCalls'[r].seen, tgRow') /\ tgCalls'[r].seen.hash = tgCalls'[r].hash
  /\ tgCalls'[r].pc \in {"check", "write"} => tgCalls'[r].seen.status = "PREVIEW"
  /\ tgCalls'[r].pc = "done" /\ tgCalls'[r].ok =>
       tgCalls'[r].seen.hash = tgCalls'[r].hash /\ tgCalls'[r].seen.status # "PREVIEW"

LEMMA EndsKeeps ==
  ASSUME TriggerInv, NEW r \in Triggers, NEW row \in Versions, CallEnds(r, row),
         row # NoneMade => row.hash = tgCalls[r].hash /\ row.status # "PREVIEW"
  PROVE  CallStep(r)
<1> DEFINE call == [tgCalls[r] EXCEPT !.pc = "done", !.seen = row, !.ok = row # NoneMade]
<1>1. /\ tgCalls[r] \in [pc : {"idle", "look", "join", "wait", "done"} \cup Making \cup Starting,
                         hash : Hashes \cup {"none"}, seen : Versions, ok : BOOLEAN]
      /\ DOMAIN tgCalls = Triggers
  BY DEF TriggerInv, TriggerTyped
<1>2. tgCalls' = [tgCalls EXCEPT ![r] = call]
  BY DEF CallEnds, CallOver
<1>3. tgCalls'[r] = call
  BY <1>1, <1>2
<1>4. /\ call.pc = "done" /\ call.seen = row /\ call.hash = tgCalls[r].hash
      /\ call.ok => row # NoneMade
  BY <1>1
<1>5. call \in [pc : {"idle", "look", "join", "done"} \cup Starting,
                hash : Hashes \cup {"none"}, seen : Versions, ok : BOOLEAN]
  BY <1>1
<1> HIDE DEF call
<1> QED
  BY <1>2, <1>3, <1>4, <1>5 DEF CallStep, Starting

LEMMA GoesKeeps ==
  ASSUME TriggerInv, NEW r \in Triggers, NEW place \in {"join"} \cup Starting, CallGoes(r, place),
         place \in Starting => Version(tgCalls[r].seen, tgRow') /\ tgCalls[r].seen.hash = tgCalls[r].hash,
         place \in {"check", "write"} => tgCalls[r].seen.status = "PREVIEW"
  PROVE  CallStep(r)
<1>1. /\ tgCalls[r] \in [pc : {"idle", "look", "join", "wait", "done"} \cup Making \cup Starting,
                         hash : Hashes \cup {"none"}, seen : Versions, ok : BOOLEAN]
      /\ DOMAIN tgCalls = Triggers
  BY DEF TriggerInv, TriggerTyped
<1>2. tgCalls'[r] = [tgCalls[r] EXCEPT !.pc = place]
  BY <1>1 DEF CallGoes
<1>3. tgCalls' = [tgCalls EXCEPT ![r] = tgCalls'[r]]
  BY <1>2 DEF CallGoes
<1> QED
  BY <1>1, <1>2, <1>3 DEF CallStep, Starting

LEMMA CallStepKeeps ==
  ASSUME TriggerInv, NEW r \in Triggers, tgCalls[r].pc \notin Making \cup {"wait"}, UNCHANGED tgPending,
         CallStep(r), TripGoesOn, tgStarts' \in Nat, StartsFit',
         tgRow' = NoneMade \/ (tgRow'.status # "NONE" /\ tgRow'.rev >= 1)
  PROVE  TriggerInv'
<1> USE DEF TriggerInv
<1>1. \A q \in Triggers : q # r => tgCalls'[q] = tgCalls[q]
  BY DEF CallStep, TriggerTyped
<1>2. TriggerTyped'
  BY DEF CallStep, TriggerTyped, TripGoesOn
<1>3. CallsFit'
  <2>1. \A q \in Triggers : tgCalls[q].seen \in Versions
    BY DEF TriggerTyped
  <2> QED
    BY <1>1, <2>1, VersionStays DEF CallsFit, CallStep
<1>4. tgPending # r /\ (tgPending # NoRequest => tgPending \in Triggers)
  BY DEF TriggerTyped, MakersFit
<1>5. tgCalls'[r].pc \notin Making \cup {"wait"}
  BY DEF CallStep, Making, Starting
<1>6. MakersFit'
  BY <1>1, <1>4, <1>5 DEF MakersFit
<1>7. TriggerDrivesOnce'
  BY <1>1 DEF TriggerDrivesOnce, CallStep, CallAt, StartsFit
<1> QED
  BY <1>2, <1>3, <1>6, <1>7

\* The one that makes the trip goes on.
LEMMA MakerKeeps ==
  ASSUME TriggerInv, NEW r \in Triggers, NEW place \in Making, CallGoes(r, place),
         tgCalls[r].pc \in Making \/ (tgCalls[r].pc = "join" /\ tgPending = NoRequest),
         tgPending' = r, UNCHANGED <<tgRow, tgStarts>>
  PROVE  TriggerInv'
<1> USE DEF TriggerInv
<1>1. \A q \in Triggers : /\ tgCalls'[q].hash = tgCalls[q].hash /\ tgCalls'[q].seen = tgCalls[q].seen
                          /\ tgCalls'[q].ok = tgCalls[q].ok
                          /\ tgCalls'[q].pc = IF q = r THEN place ELSE tgCalls[q].pc
  BY DEF CallGoes, TriggerTyped
<1>2. place \notin Starting \cup {"wait", "done"}
  BY DEF Making, Starting
<1>3. TriggerTyped'
  BY DEF CallGoes, TriggerTyped
<1>4. CallsFit'
  BY <1>1, <1>2 DEF CallsFit, Starting
<1>5. MakersFit'
  <2>1. tgPending \in {r, NoRequest}
    BY DEF MakersFit
  <2>2. \A q \in Triggers : q # r => tgCalls[q].pc \notin Making
    BY <2>1, TriggerAssumption DEF MakersFit, NoRequest
  <2>3. \A q \in Triggers : q # r /\ tgCalls[q].pc = "wait" => tgCalls[r].hash = tgCalls[q].hash
    BY <2>1 DEF MakersFit
  <2>4. r # NoRequest
    BY TriggerAssumption DEF NoRequest
  <2> QED
    BY <1>1, <1>2, <2>2, <2>3, <2>4 DEF MakersFit
<1>6. TriggerDrivesOnce'
  BY <1>1, <1>2 DEF TriggerDrivesOnce, CallAt
<1> QED
  BY <1>3, <1>4, <1>5, <1>6 DEF StartsFit

\* The trip is made, or not, and who waited for it goes on with its maker.
LEMMA MadeKeeps ==
  ASSUME TriggerInv, NEW r \in Triggers, tgCalls[r].pc \in Making, NEW row \in Versions, Made(r, row),
         row = NoneMade \/ (Version(row, tgRow') /\ row.hash = tgCalls[r].hash),
         TripGoesOn, UNCHANGED tgStarts, StartsFit',
         tgRow' = NoneMade \/ (tgRow'.status # "NONE" /\ tgRow'.rev >= 1)
  PROVE  TriggerInv'
<1> USE DEF TriggerInv
<1>1. tgPending = r /\ tgPending' = NoRequest
  BY DEF MakersFit, Made
<1>2. \A q \in Triggers :
        IF q = r \/ tgCalls[q].pc = "wait"
        THEN /\ tgCalls'[q].hash = tgCalls[q].hash /\ tgCalls'[q].seen = row
             /\ IF row = NoneMade THEN tgCalls'[q].pc = "done" /\ ~tgCalls'[q].ok
                ELSE tgCalls'[q].pc = "start"
        ELSE tgCalls'[q] = tgCalls[q]
  BY <1>1 DEF Made, CallOver, CallAt, TriggerTyped
<1>3. \A q \in Triggers : q = r \/ tgCalls[q].pc = "wait" => tgCalls[q].hash = tgCalls[r].hash
  BY <1>1 DEF MakersFit
<1>4. \A q \in Triggers : q # r => tgCalls[q].pc \notin Making
  BY <1>1 DEF MakersFit
<1>5. TriggerTyped'
  <2>1. tgCalls' \in [Triggers -> [pc : {"idle", "look", "join", "wait", "done"} \cup Making \cup Starting,
                                   hash : Hashes \cup {"none"}, seen : Versions, ok : BOOLEAN]]
    BY DEF Made, CallOver, TriggerTyped, Starting
  <2> QED
    BY <1>1, <2>1 DEF TriggerTyped, TripGoesOn
<1>6. CallsFit'
  <2>1. \A q \in Triggers : tgCalls[q].seen \in Versions
    BY DEF TriggerTyped
  <2>2. SUFFICES ASSUME NEW q \in Triggers
                 PROVE  /\ tgCalls'[q].pc \in Starting =>
                             Version(tgCalls'[q].seen, tgRow') /\ tgCalls'[q].seen.hash = tgCalls'[q].hash
                        /\ tgCalls'[q].pc \in {"check", "write"} => tgCalls'[q].seen.status = "PREVIEW"
    BY DEF CallsFit
  <2>3. CASE q = r \/ tgCalls[q].pc = "wait"
    BY <1>2, <1>3, <2>3 DEF Starting
  <2>4. CASE ~(q = r \/ tgCalls[q].pc = "wait")
    BY <1>2, <2>1, <2>4, VersionStays DEF CallsFit
  <2> QED
    BY <2>3, <2>4
<1>7. MakersFit'
  <2>1. \A q \in Triggers : tgCalls'[q].pc \notin Making \cup {"wait"}
    BY <1>2, <1>4 DEF Making
  <2> QED
    BY <1>1, <2>1, TriggerAssumption DEF MakersFit, NoRequest
<1>8. TriggerDrivesOnce'
  <2>1. \A q \in Triggers : tgCalls'[q].pc = "done" /\ tgCalls'[q].ok =>
          tgCalls[q].pc = "done" /\ tgCalls'[q] = tgCalls[q]
    BY <1>2
  <2> QED
    BY <2>1 DEF TriggerDrivesOnce, CallAt, StartsFit
<1> QED
  BY <1>5, <1>6, <1>7, <1>8

\* Who only reads the trip, or waits, starts nothing.
LEMMA TripStays == TriggerInv /\ UNCHANGED <<tgRow, tgStarts>> => TripGoesOn /\ StartsFit' /\ tgStarts' \in Nat
                     /\ (tgRow' = NoneMade \/ (tgRow'.status # "NONE" /\ tgRow'.rev >= 1))
  BY DEF TriggerInv, TriggerTyped, TripGoesOn, StartsFit

\* The calls that make a trip.
LEMMA CreateStep ==
  ASSUME TriggerInv, NEW r \in Triggers,
         Join(r) \/ Build(r) \/ LookAgain(r) \/ RouteAnswers(r) \/ Insert(r)
  PROVE  TriggerInv'
<1> USE DEF Rows
<1>0. NoneMade \in Versions /\ tgRow \in Versions
  BY DEF NoneMade, Versions, TriggerInv, TriggerTyped
<1>1. CASE Join(r)
  <2>1. CASE tgPending = NoRequest
    BY <1>1, <2>1, MakerKeeps DEF Join, CallAt, Making
  <2>2. CASE tgPending # NoRequest /\ tgCalls[tgPending].hash = tgCalls[r].hash
    <3>1. \A q \in Triggers : /\ tgCalls'[q].hash = tgCalls[q].hash /\ tgCalls'[q].seen = tgCalls[q].seen
                              /\ tgCalls'[q].ok = tgCalls[q].ok
                              /\ tgCalls'[q].pc = IF q = r THEN "wait" ELSE tgCalls[q].pc
      BY <1>1, <2>2 DEF Join, CallGoes, TriggerInv, TriggerTyped
    <3>2. UNCHANGED <<tgRow, tgStarts, tgPending>> /\ tgCalls[r].pc = "join"
      BY <1>1, <2>2 DEF Join, CallAt
    <3>3. TriggerTyped'
      BY <1>1, <2>2, <3>2 DEF Join, CallGoes, TriggerInv, TriggerTyped
    <3>4. tgPending \in Triggers
      BY <2>2 DEF TriggerInv, TriggerTyped
    <3> QED
      BY <2>2, <3>1, <3>2, <3>3, <3>4
         DEF TriggerInv, StartsFit, CallsFit, MakersFit, TriggerDrivesOnce, CallAt, Making, Starting
  <2>3. CASE tgPending # NoRequest /\ tgCalls[tgPending].hash # tgCalls[r].hash
    <3>1. CallStep(r)
      BY <1>0, <1>1, <2>3, ZenonT(40) DEF Join, CallEnds, CallOver, CallStep, TriggerInv, TriggerTyped, Starting
    <3> QED
      BY <1>1, <2>3, <3>1, TripStays, CallStepKeeps DEF Join, CallAt, Making
  <2> QED
    BY <2>1, <2>2, <2>3
<1>2. CASE Build(r)
  <2>1. tgCalls[r].pc \in Making /\ UNCHANGED <<tgRow, tgStarts>>
    BY <1>2 DEF Build, CallAt, Making
  <2>2. CASE tgLease = NoRequest /\ tgWindow = NoRequest
    BY <1>2, <2>1, <2>2, MakerKeeps DEF Build, Making, TriggerInv, MakersFit
  <2>3. CASE ~(tgLease = NoRequest /\ tgWindow = NoRequest)
    BY <1>0, <1>2, <2>1, <2>3, MadeKeeps, TripStays DEF Build
  <2> QED
    BY <2>2, <2>3
<1>3. CASE LookAgain(r)
  <2>1. tgCalls[r].pc \in Making /\ UNCHANGED <<tgRow, tgStarts>>
    BY <1>3 DEF LookAgain, CallAt, Making
  <2>2. CASE Existing(tgCalls[r].hash) = "same"
    <3>1. Made(r, tgRow)
      BY <1>3, <2>2 DEF LookAgain
    <3>2. Version(tgRow, tgRow') /\ tgRow.hash = tgCalls[r].hash
      BY <2>1, <2>2, RowIsVersion DEF Existing, TriggerInv
    <3> QED
      BY <1>0, <2>1, <3>1, <3>2, MadeKeeps, TripStays
  <2>3. CASE Existing(tgCalls[r].hash) # "same"
    <3>1. CASE Made(r, NoneMade)
      BY <1>0, <2>1, <3>1, MadeKeeps, TripStays
    <3>2. CASE CallGoes(r, "route") /\ UNCHANGED tgPending
      BY <2>1, <3>2, MakerKeeps DEF Making, TriggerInv, MakersFit
    <3> QED
      BY <1>3, <2>3, <3>1, <3>2 DEF LookAgain
  <2> QED
    BY <2>2, <2>3
<1>4. CASE RouteAnswers(r)
  <2>1. tgCalls[r].pc \in Making /\ UNCHANGED <<tgRow, tgStarts>>
    BY <1>4 DEF RouteAnswers, CallAt, Making
  <2>2. CASE Made(r, NoneMade)
    BY <1>0, <2>1, <2>2, MadeKeeps, TripStays
  <2>3. CASE CallGoes(r, "insert") /\ UNCHANGED tgPending
    BY <2>1, <2>3, MakerKeeps DEF Making, TriggerInv, MakersFit
  <2> QED
    BY <1>4, <2>2, <2>3 DEF RouteAnswers
<1>5. CASE Insert(r)
  <2> DEFINE new == [hash |-> tgCalls[r].hash, status |-> "PREVIEW", rev |-> 1]
  <2>1. tgCalls[r].pc \in Making /\ UNCHANGED tgStarts
    BY <1>5 DEF Insert, CallAt, Making
  <2>2. CASE tgRow = NoneMade /\ ~tgOther
    <3>1. tgRow' = new /\ Made(r, new)
      BY <1>5, <2>2 DEF Insert
    <3>2. new \in Versions /\ Version(new, tgRow') /\ new.hash = tgCalls[r].hash
      BY <3>1 DEF TriggerInv, TriggerTyped, Versions, Version, NoneMade
    <3>3. TripGoesOn /\ StartsFit'
      BY <2>1, <2>2, <3>1, <3>2 DEF TripGoesOn, TriggerInv, StartsFit, NoneMade
    <3> QED
      BY <2>1, <3>1, <3>2, <3>3, MadeKeeps
  <2>3. CASE ~(tgRow = NoneMade /\ ~tgOther)
    <3>1. UNCHANGED tgRow
      BY <1>5, <2>3 DEF Insert
    <3>2. CASE Existing(tgCalls[r].hash) = "same"
      <4>1. Made(r, tgRow)
        BY <1>5, <2>3, <3>2 DEF Insert
      <4>2. Version(tgRow, tgRow') /\ tgRow.hash = tgCalls[r].hash
        BY <3>1, <3>2, RowIsVersion DEF Existing, TriggerInv
      <4> QED
        BY <1>0, <2>1, <3>1, <4>1, <4>2, MadeKeeps, TripStays
    <3>3. CASE Existing(tgCalls[r].hash) # "same"
      <4>1. Made(r, NoneMade)
        BY <1>5, <2>3, <3>3 DEF Insert
      <4> QED
        BY <1>0, <2>1, <3>1, <4>1, MadeKeeps, TripStays
    <3> QED
      BY <3>2, <3>3
  <2> QED
    BY <2>2, <2>3
<1> QED
  BY <1>1, <1>2, <1>3, <1>4, <1>5

\* The calls that look the trip up, start it, and end.
LEMMA StartStep ==
  ASSUME TriggerInv, NEW r \in Triggers,
         Triggered(r) \/ LookUp(r) \/ BeginStart(r) \/ CheckStart(r) \/ WriteStart(r) \/ Recheck(r) \/ TriggerAnswered(r)
  PROVE  TriggerInv'
<1> USE DEF Rows
<1>0. /\ NoneMade \in Versions /\ tgRow \in Versions
      /\ tgCalls[r].hash \in Hashes \cup {"none"} /\ tgCalls[r].seen \in Versions
      /\ tgCalls \in [Triggers -> [pc : {"idle", "look", "join", "wait", "done"} \cup Making \cup Starting,
                                   hash : Hashes \cup {"none"}, seen : Versions, ok : BOOLEAN]]
  BY DEF NoneMade, Versions, TriggerInv, TriggerTyped
<1>1. CASE Triggered(r)
  <2>1. CallStep(r)
    BY <1>0, <1>1, ZenonT(40) DEF Triggered, IdleCall, CallStep, Starting
  <2> QED
    BY <1>1, <2>1, TripStays, CallStepKeeps DEF Triggered, CallAt, Making
<1>2. CASE LookUp(r)
  <2>1. UNCHANGED <<tgRow, tgStarts, tgPending>> /\ tgCalls[r].pc = "look"
    BY <1>2 DEF LookUp, CallAt
  <2>2. CallStep(r)
    <3>1. CASE Existing(tgCalls[r].hash) = "none"
      BY <1>2, <3>1, GoesKeeps DEF LookUp, Starting
    <3>2. CASE Existing(tgCalls[r].hash) = "same"
      <4>1. Version(tgRow, tgRow') /\ tgRow.hash = tgCalls[r].hash
        BY <2>1, <3>2, RowIsVersion DEF Existing, TriggerInv
      <4> QED
        BY <1>0, <1>2, <3>2, <4>1 DEF LookUp, CallStep, Starting
    <3>3. CASE Existing(tgCalls[r].hash) = "other"
      BY <1>0, <1>2, <3>3, EndsKeeps DEF LookUp
    <3> QED
      BY <3>1, <3>2, <3>3 DEF Existing
  <2> QED
    BY <2>1, <2>2, TripStays, CallStepKeeps DEF Making
<1>3. CASE BeginStart(r)
  <2>1. UNCHANGED <<tgRow, tgStarts, tgPending>> /\ tgCalls[r].pc = "start"
    BY <1>3 DEF BeginStart, CallAt
  <2>2. Version(tgCalls[r].seen, tgRow') /\ tgCalls[r].seen.hash = tgCalls[r].hash
    BY <2>1 DEF TriggerInv, CallsFit, Starting
  <2>3. CallStep(r)
    <3>1. CASE tgCalls[r].seen.status # "PREVIEW"
      BY <1>0, <1>3, <2>2, <3>1, EndsKeeps DEF BeginStart
    <3>2. CASE tgCalls[r].seen.status = "PREVIEW"
      BY <1>3, <2>2, <3>2, GoesKeeps DEF BeginStart, Starting
    <3> QED
      BY <3>1, <3>2
  <2> QED
    BY <2>1, <2>3, TripStays, CallStepKeeps DEF Making
<1>4. CASE CheckStart(r)
  <2>1. UNCHANGED <<tgRow, tgStarts, tgPending>> /\ tgCalls[r].pc = "check"
    BY <1>4 DEF CheckStart, CallAt
  <2>2. Version(tgCalls[r].seen, tgRow') /\ tgCalls[r].seen.hash = tgCalls[r].hash /\ tgCalls[r].seen.status = "PREVIEW"
    BY <2>1 DEF TriggerInv, CallsFit, Starting
  <2>3. CallStep(r)
    <3>1. CASE CallGoes(r, "write") \/ CallGoes(r, "recheck")
      BY <2>2, <3>1, GoesKeeps DEF Starting
    <3>2. CASE CallEnds(r, NoneMade)
      BY <1>0, <3>2, EndsKeeps
    <3> QED
      BY <1>4, <3>1, <3>2 DEF CheckStart
  <2> QED
    BY <2>1, <2>3, TripStays, CallStepKeeps DEF Making
<1>5. CASE WriteStart(r)
  <2>1. UNCHANGED tgPending /\ tgCalls[r].pc = "write"
    BY <1>5 DEF WriteStart, CallAt
  <2>2. /\ Version(tgCalls[r].seen, tgRow) /\ tgCalls[r].seen.hash = tgCalls[r].hash
        /\ tgCalls[r].seen.status = "PREVIEW"
    BY <2>1 DEF TriggerInv, CallsFit, Starting
  <2>3. CASE UNCHANGED <<tgRow, tgStarts>> /\ (CallGoes(r, "recheck") \/ CallEnds(r, NoneMade))
    <3>1. CallStep(r)
      BY <1>0, <2>2, <2>3, EndsKeeps, GoesKeeps DEF Starting
    <3> QED
      BY <2>1, <2>3, <3>1, TripStays, CallStepKeeps DEF Making
  <2>4. CASE /\ StillAsSeen(r)
             /\ tgRow' = [tgRow EXCEPT !.status = "UNDERWAY", !.rev = @ + 1] /\ tgStarts' = tgStarts + 1
             /\ CallEnds(r, tgRow') \/ CallEnds(r, NoneMade)
    <3>1. tgRow = tgCalls[r].seen /\ tgRow.status = "PREVIEW" /\ tgRow # NoneMade
      BY <2>2, <2>4 DEF StillAsSeen, Version
    <3>2. /\ tgRow' \in Versions
          /\ tgRow'.status = "UNDERWAY"
          /\ tgRow'.hash = tgRow.hash
          /\ tgRow'.rev = tgRow.rev + 1
      <4>1. tgRow' = [tgRow EXCEPT !.status = "UNDERWAY", !.rev = @ + 1]
        BY <2>4
      <4>2. tgRow.rev + 1 \in Nat
        BY <1>0 DEF Versions
      <4> QED
        BY <1>0, <4>1, <4>2 DEF Versions
    <3>3. tgStarts = 0
      BY <3>1 DEF TriggerInv, StartsFit
    <3>4. TripGoesOn /\ StartsFit' /\ tgStarts' \in Nat
      BY <2>4, <3>1, <3>2, <3>3 DEF TripGoesOn, StartsFit
    <3>5. CallStep(r)
      BY <1>0, <2>2, <2>4, <3>1, <3>2, EndsKeeps
    <3>6. tgRow'.rev >= 1
      BY <1>0, <3>2 DEF Versions
    <3> QED
      BY <2>1, <3>2, <3>4, <3>5, <3>6, CallStepKeeps DEF Making
  <2> QED
    BY <1>5, <2>3, <2>4 DEF WriteStart
<1>6. CASE Recheck(r)
  <2>1. UNCHANGED <<tgRow, tgStarts, tgPending>> /\ tgCalls[r].pc = "recheck"
    BY <1>6 DEF Recheck, CallAt
  <2>2. tgRow.hash = tgCalls[r].hash
    BY <2>1 DEF TriggerInv, CallsFit, Version, Starting
  <2>3. CallStep(r)
    BY <1>0, <1>6, <2>2, EndsKeeps DEF Recheck
  <2> QED
    BY <2>1, <2>3, TripStays, CallStepKeeps DEF Making
<1>7. CASE TriggerAnswered(r)
  <2>1. CallStep(r)
    BY <1>0, <1>7 DEF TriggerAnswered, IdleCall, CallStep, Starting
  <2> QED
    BY <1>7, <2>1, TripStays, CallStepKeeps DEF TriggerAnswered, CallAt, Making
<1> QED
  BY <1>1, <1>2, <1>3, <1>4, <1>5, <1>6, <1>7

LEMMA ElsewhereStep ==
  ASSUME TriggerInv, TripChangesElsewhere \/ LeaseLapses \/ TriggerRestarts \/ UNCHANGED triggerVars
  PROVE  TriggerInv'
<1> USE DEF Rows, TriggerInv
<1>1. CASE TripChangesElsewhere
  <2>1. UNCHANGED <<tgPending, tgCalls>>
    BY <1>1 DEF TripChangesElsewhere
  <2>2. /\ TripGoesOn /\ StartsFit' /\ tgStarts' \in Nat
        /\ tgRow' = NoneMade \/ (tgRow'.status # "NONE" /\ tgRow'.rev >= 1)
    <3>0. tgRow \in Versions /\ tgRow.rev + 1 \in Nat
      BY DEF TriggerTyped, Versions
    <3>1. CASE \E hash \in Hashes : /\ tgRow = NoneMade /\ UNCHANGED tgStarts
                                    /\ tgRow' = [hash |-> hash, status |-> "PREVIEW", rev |-> 1]
      BY <3>1 DEF TripGoesOn, TriggerTyped, StartsFit, Versions, NoneMade
    <3>2. CASE \/ tgRow.status = "PREVIEW" /\ tgRow' = [tgRow EXCEPT !.rev = @ + 1] /\ UNCHANGED tgStarts
               \/ /\ tgRow.status \in {"PREVIEW", "UNDERWAY"} /\ UNCHANGED tgStarts
                  /\ tgRow' = [tgRow EXCEPT !.status = "OVER", !.rev = @ + 1]
               \/ /\ tgRow.status = "PREVIEW" /\ tgStarts' = tgStarts + 1
                  /\ tgRow' = [tgRow EXCEPT !.status = "UNDERWAY", !.rev = @ + 1]
      <4>1. tgRow' \in Versions /\ tgRow'.hash = tgRow.hash /\ tgRow'.rev = tgRow.rev + 1
        BY <3>0, <3>2 DEF Versions
      <4>2. \/ tgRow'.status \in {"PREVIEW", "OVER"} /\ tgRow'.status # "NONE" /\ UNCHANGED tgStarts
               /\ (tgRow'.status = "PREVIEW" => tgRow.status = "PREVIEW")
            \/ tgRow.status = "PREVIEW" /\ tgRow'.status = "UNDERWAY" /\ tgStarts' = tgStarts + 1
        BY <3>0, <3>2 DEF Versions
      <4>3. tgRow # NoneMade
        BY <3>2 DEF NoneMade
      <4> QED
        BY <3>0, <4>1, <4>2, <4>3 DEF TripGoesOn, TriggerTyped, StartsFit, Versions
    <3>3. CASE UNCHANGED <<tgRow, tgStarts>>
      BY <3>3, TripStays
    <3> QED
      BY <1>1, <3>1, <3>2, <3>3 DEF TripChangesElsewhere
  <2>3. TriggerTyped'
    BY <2>1, <2>2 DEF TriggerTyped, TripGoesOn
  <2>4. CallsFit'
    <3>1. \A q \in Triggers : tgCalls[q].seen \in Versions
      BY DEF TriggerTyped
    <3> QED
      BY <2>1, <2>2, <3>1, VersionStays DEF CallsFit
  <2> QED
    BY <2>1, <2>2, <2>3, <2>4 DEF MakersFit, TriggerDrivesOnce, CallAt, StartsFit
<1>2. CASE LeaseLapses \/ UNCHANGED triggerVars
  BY <1>2 DEF LeaseLapses, triggerVars, TriggerTyped, StartsFit, CallsFit, MakersFit, TriggerDrivesOnce, CallAt
<1>3. CASE TriggerRestarts
  <2>1. \A q \in Triggers : tgCalls'[q] = IdleCall
    BY <1>3 DEF TriggerRestarts
  <2>2. UNCHANGED <<tgRow, tgStarts>> /\ tgPending' = NoRequest
    BY <1>3 DEF TriggerRestarts
  <2>3. TriggerTyped'
    BY <1>3, <2>2 DEF TriggerRestarts, TriggerTyped, IdleCall, NoneMade, Versions
  <2> QED
    BY <2>1, <2>2, <2>3, TriggerAssumption
       DEF StartsFit, CallsFit, MakersFit, TriggerDrivesOnce, CallAt, IdleCall, Making, Starting, NoRequest
<1> QED
  BY <1>1, <1>2, <1>3

\* Under one key one trip is started at most once, and an accepted request is
\* answered with its own trip, for any number of requests: while they wait for
\* each other, after a lease that lapsed, a restart, or another controller's
\* change of the trip.
THEOREM DrivesOnce == TriggerSpec => []TriggerDrivesOnce
<1>1. TriggerInv /\ [TriggerNext]_triggerVars => TriggerInv'
  BY CreateStep, StartStep, ElsewhereStep DEF TriggerNext
<1>2. TriggerInv => TriggerDrivesOnce
  BY DEF TriggerInv
<1> QED
  BY <1>1, <1>2, InitTriggerInv, PTL DEF TriggerSpec
=============================================================================
