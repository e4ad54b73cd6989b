----------------------------- MODULE PhoneSync -----------------------------
(***************************************************************************)
(* A trip that is linked to Maps on its phone (trips/phoneSync.ts, with    *)
(* its callers in trips/runner.ts and trips/service.ts): Maps is launched  *)
(* once, and each next point waits until Android shows a fresh fused fix   *)
(* at the one before.                                                      *)
(*                                                                         *)
(* The steps' readiness wait, their leases and the evidence of a point are *)
(* those of TripDrive; here a point is sent and answered in two steps.     *)
(* Points of one place are within ten meters of each other.                *)
(***************************************************************************)
EXTENDS Integers, Sequences

CONSTANTS
  PhoneFresh, PhoneDeadline,    \* PHONE_LOCATION_MAX_AGE_MS, and the 90 s of a readback, in ticks
  MaxPoints,      \* bound on the points sent
  MaxPhoneClock,  \* bound on the clock
  MaxResumes,     \* bound on the user's starts and resumptions
  MaxIntrusions   \* bound on crashes and on actions of another process during a step

ASSUME PhoneSyncAssumption == {PhoneFresh, PhoneDeadline, MaxPoints, MaxPhoneClock, MaxResumes, MaxIntrusions} \subseteq Nat

VARIABLES
  psTrip,     \* SQL: the trip
  psPoints,   \* SQL: its requests, in the order of their numbers, each with the point before it
  psLast,     \* the last point: its place, and when it left
  psStep,     \* process: the step under way, with the trip as it holds it
  psPhone,    \* the phone: its place, and the last fix Android has
  psClock,
  psSeen,     \* (history) whether the phone really had a fused fix at the last point after that left
  psCounts    \* (history) launches, starts, intrusions; whether a point, or the arrival, overtook the phone

phoneSyncVars == <<psTrip, psPoints, psLast, psStep, psPhone, psClock, psSeen, psCounts>>

NoReadback == [req |-> 0, match |-> FALSE, started |-> 0, fixed |-> 0]
NoFix      == [place |-> 0, fused |-> FALSE, at |-> 0, after |-> 0]
NoReading  == [place |-> 0, fused |-> FALSE, age |-> 0, after |-> 0]

\* last: lastRequestId; accepted: whether there is an accepted point.
LinkedPreview == [status |-> "PREVIEW", rev |-> 0, maps |-> "PENDING", gps |-> NoReadback,
             last |-> 0, accepted |-> FALSE, pending |-> FALSE, retried |-> FALSE]

NoPhoneStep == [pc |-> "idle", trip |-> LinkedPreview, began |-> 0, seen |-> NoReading]

PhoneSyncInit ==
  /\ psTrip = LinkedPreview
  /\ psPoints = <<>> /\ psLast = [place |-> 0, sent |-> 0]
  /\ psStep = NoPhoneStep
  /\ psPhone = [place |-> 0, fix |-> NoFix]
  /\ psClock = 0 /\ psSeen = FALSE
  /\ psCounts = [launches |-> 0, starts |-> 0, intrusions |-> 0, unseen |-> FALSE]

Driven == psTrip.status \in {"RUNNING", "ARRIVING"}
StepAt(place) == psStep.pc = place
StepGoes(place) == psStep' = [psStep EXCEPT !.pc = place]
Own == psStep.trip

\* A revision only has to differ from the one that a step holds, over at most MaxIntrusions changes.
NextRevision == (psTrip.rev + 1) % (MaxIntrusions + 1)

\* requireOwnership, and the condition under which save and the other updates of a step write.
Unchanged == psTrip.rev = Own.rev /\ psTrip.status = Own.status

StepOnly == UNCHANGED <<psPoints, psLast, psPhone, psClock, psSeen, psCounts>>

\* pauseUnsafe, of a trip that is still the step's.
PausedTrip == IF psTrip.rev = Own.rev /\ Driven THEN [psTrip EXCEPT !.status = "PAUSED"] ELSE psTrip

Refuses == psTrip' = PausedTrip /\ psStep' = NoPhoneStep

\* save; when the trip has changed the step ends and pauses nothing.
Saves(trip, place) ==
  IF Unchanged
  THEN /\ psTrip' = [psTrip EXCEPT !.maps = trip.maps, !.gps = trip.gps]
       /\ psStep' = IF place = "idle" THEN NoPhoneStep
                   ELSE [NoPhoneStep EXCEPT !.pc = place, !.trip = trip, !.began = IF place = "asked" THEN psClock ELSE 0]
  ELSE Refuses

SavesReadback(match, fixed, place) ==
  Saves([Own EXCEPT !.gps = [@ EXCEPT !.match = match, !.fixed = fixed]], place)

-----------------------------------------------------------------------------
Status(req) == psPoints[req].status

\* readRetryableCheckpoint
MayRetry(trip) == trip.pending /\ ~trip.retried /\ Status(trip.last) = "BUSY"

Locked(trip) == trip.last # 0 /\ trip.accepted

\* A step of the scheduler: it reads the trip, checks the phone's power, and
\* goes on to the readback unless nothing was accepted or a point is retried.
PhoneSteps ==
  /\ StepAt("idle") /\ Driven
  /\ \/ psTrip.pending /\ ~MayRetry(psTrip) /\ psTrip' = [psTrip EXCEPT !.status = "PAUSED"] /\ UNCHANGED psStep
     \/ psTrip.status = "RUNNING" /\ psTrip' = [psTrip EXCEPT !.status = "PAUSED"] /\ UNCHANGED psStep    \* the power
     \/ /\ psTrip.pending => MayRetry(psTrip)
        /\ psStep' = [NoPhoneStep EXCEPT !.trip = psTrip,
                                     !.pc = IF Locked(psTrip) /\ ~MayRetry(psTrip) THEN "readback" ELSE "maps"]
        /\ UNCHANGED psTrip
  /\ StepOnly

\* Mutant: a match is a match, whichever point it was of.
StillShownOfAny == Own.gps.match /\ psClock - Own.gps.fixed <= PhoneFresh

\* The readback of this very point matched, and its fix is fresh still.
StillShown == Own.gps.req = Own.last /\ Own.gps.match /\ psClock - Own.gps.fixed <= PhoneFresh

Confirmed == IF Own.status = "ARRIVING" THEN "finish" ELSE "maps"

StartOf(gps) == IF gps.req = Own.last THEN gps.started ELSE psClock

\* waitForTripPhone, up to the phone command.
LooksAtPhone ==
  /\ StepAt("readback")
  /\ \/ StillShown /\ StepGoes(Confirmed) /\ UNCHANGED psTrip
     \/ ~StillShown /\ Status(Own.last) # "ACCEPTED" /\ Refuses
     \/ ~StillShown /\ psClock >= StartOf(Own.gps) + PhoneDeadline /\ Refuses
     \/ /\ ~StillShown /\ Status(Own.last) = "ACCEPTED" /\ psClock < StartOf(Own.gps) + PhoneDeadline
        /\ Saves([Own EXCEPT !.gps = [NoReadback EXCEPT !.req = Own.last, !.started = StartOf(Own.gps)]], "asked")
  /\ StepOnly

\* The command runs on the phone at some time between its start and its answer.
PhoneTells ==
  /\ StepAt("asked")
  /\ LET fix == psPhone.fix IN
     psStep' = [psStep EXCEPT !.pc = "told",
                              !.seen = [place |-> fix.place, fused |-> fix.fused, age |-> psClock - fix.at, after |-> fix.after]]
  /\ UNCHANGED psTrip /\ StepOnly

\* The age counts the whole duration of the command on top of what the phone said.
Age == psStep.seen.age + (psClock - psStep.began)

\* phoneFixMatches; within one unit of the clock the order of fix and point decides.
Shows(fix) ==
  /\ fix.fused /\ fix.place = psLast.place /\ Age <= PhoneFresh
  /\ \/ psClock - Age > psLast.sent
     \/ psClock - Age = psLast.sent /\ fix.after >= Own.last

Late == psClock >= Own.gps.started + PhoneDeadline

\* A reading that does not match, or none at all, is stored, and tried again
\* three seconds later until the time is over.
AnswersReadback ==
  /\ StepAt("told")
  /\ \/ ~Unchanged /\ Refuses
     \/ /\ Unchanged /\ ~Late /\ Shows(psStep.seen)
        /\ SavesReadback(TRUE, psClock - Age, Confirmed)
     \/ /\ Unchanged /\ ~Late
        /\ SavesReadback(FALSE, 0, "idle")
     \/ /\ Unchanged /\ Late
        /\ psTrip' = [PausedTrip EXCEPT !.gps = [Own.gps EXCEPT !.match = FALSE]] /\ psStep' = NoPhoneStep
  /\ StepOnly

-----------------------------------------------------------------------------
\* ensureTripMaps: the launch is stored before it is sent.
OpensMaps ==
  /\ StepAt("maps")
  /\ \/ Own.maps = "LAUNCH_ACCEPTED" /\ StepGoes("send") /\ UNCHANGED psTrip
     \/ Own.maps \notin {"LAUNCH_ACCEPTED", "PENDING"} /\ Refuses
     \/ Own.maps = "PENDING" /\ Saves([Own EXCEPT !.maps = "OPENING"], "launch")
  /\ StepOnly

\* The command leaves, or does not; what is not confirmed has failed.
LaunchesMaps ==
  /\ StepAt("launch")
  /\ \/ /\ Unchanged /\ psCounts' = [psCounts EXCEPT !.launches = @ + 1] /\ StepGoes("launched") /\ UNCHANGED psTrip
     \/ /\ UNCHANGED psCounts
        /\ psTrip' = [PausedTrip EXCEPT !.maps = IF Unchanged THEN "FAILED" ELSE @] /\ psStep' = NoPhoneStep
  /\ UNCHANGED <<psPoints, psLast, psPhone, psClock, psSeen>>

MapsAnswers ==
  /\ StepAt("launched")
  /\ \/ Saves([Own EXCEPT !.maps = "LAUNCH_ACCEPTED"], "send")
     \/ psTrip' = [PausedTrip EXCEPT !.maps = IF Unchanged THEN "FAILED" ELSE @] /\ psStep' = NoPhoneStep
  /\ StepOnly

-----------------------------------------------------------------------------
NextPlace == {psLast.place, psLast.place + 1}

\* The next point leaves, or a retry of the last one; the phone may take it at once.
SendsPoint ==
  /\ StepAt("send") /\ Len(psPoints) < MaxPoints
  /\ LET retry == MayRetry(Own)
         id    == Len(psPoints) + 1
     IN \/ ~Unchanged /\ Refuses /\ UNCHANGED <<psPoints, psLast, psPhone, psSeen, psCounts>>
        \/ /\ Unchanged
           /\ psPoints' = Append(psPoints, [status |-> "SENT", after |-> IF retry THEN 0 ELSE Own.last])
           /\ \E place \in IF retry THEN {psLast.place} ELSE NextPlace, taken \in BOOLEAN :
                /\ psLast' = [place |-> place, sent |-> psClock]
                /\ psPhone' = [psPhone EXCEPT !.place = IF taken THEN place ELSE @]
           /\ psTrip' = [psTrip EXCEPT !.last = id, !.pending = TRUE, !.retried = retry \/ @]
           /\ psStep' = [psStep EXCEPT !.pc = "sent", !.trip = psTrip']
           /\ psCounts' = IF retry \/ ~Own.accepted \/ psSeen THEN psCounts ELSE [psCounts EXCEPT !.unseen = TRUE]
           /\ psSeen' = FALSE
  /\ UNCHANGED psClock

\* The answer is stored with the request, and then with the trip, if it has not changed.
PointAnswered ==
  /\ StepAt("sent")
  /\ \E status \in {"ACCEPTED", "REJECTED", "BUSY", "UNCONFIRMED"} :
       /\ psPoints' = [psPoints EXCEPT ![Own.last].status = status]
       /\ psPhone' \in {psPhone, IF status = "ACCEPTED" THEN [psPhone EXCEPT !.place = psLast.place] ELSE psPhone}
       /\ psTrip' \in
            IF ~Unchanged THEN {psTrip}
            ELSE IF status = "ACCEPTED" THEN {[psTrip EXCEPT !.accepted = TRUE, !.pending = FALSE, !.retried = FALSE, !.status = next] : next \in {"RUNNING", "ARRIVING"}}
            ELSE IF status = "BUSY" /\ ~Own.retried THEN {psTrip}
            ELSE IF status \in {"BUSY", "REJECTED"} THEN {[psTrip EXCEPT !.status = "PAUSED", !.pending = FALSE]}
            ELSE {[psTrip EXCEPT !.status = "PAUSED"]}
  /\ psStep' = NoPhoneStep
  /\ UNCHANGED <<psLast, psClock, psSeen, psCounts>>

\* finishArrival, of a phone that was seen where it should be.
Finishes ==
  /\ StepAt("finish")
  /\ psTrip' = IF Unchanged THEN [psTrip EXCEPT !.status = "ARRIVED"] ELSE psTrip
  /\ psStep' = NoPhoneStep
  /\ psCounts' = IF ~Unchanged \/ psSeen THEN psCounts ELSE [psCounts EXCEPT !.unseen = TRUE]
  /\ UNCHANGED <<psPoints, psLast, psPhone, psClock, psSeen>>

-----------------------------------------------------------------------------
\* resumeTrip allows a launch that was not confirmed once more, and forgets the readback.
Goes ==
  /\ psCounts.starts < MaxResumes /\ psCounts' = [psCounts EXCEPT !.starts = @ + 1]
  /\ \/ psTrip.status = "PREVIEW"
     \/ psTrip.status = "PAUSED" /\ (psTrip.pending => MayRetry(psTrip))
  /\ psTrip' = [psTrip EXCEPT !.status = "RUNNING", !.rev = NextRevision, !.gps = NoReadback,
                              !.maps = IF @ = "LAUNCH_ACCEPTED" THEN @ ELSE "PENDING"]

Stops ==
  /\ Driven /\ UNCHANGED psCounts
  /\ psTrip' = [psTrip EXCEPT !.status = "PAUSED", !.rev = NextRevision]

\* While a step runs only another process, after its lease has lapsed, gets this far.
UserActs ==
  /\ StepAt("idle") /\ (Goes \/ Stops)
  /\ UNCHANGED <<psPoints, psLast, psStep, psPhone, psClock, psSeen>>

Intrudes ==
  /\ ~StepAt("idle") /\ psCounts.intrusions < MaxIntrusions
  /\ psCounts' = [psCounts EXCEPT !.intrusions = @ + 1]
  /\ psTrip' = IF Driven THEN [psTrip EXCEPT !.status = "PAUSED", !.rev = NextRevision] ELSE psTrip
  /\ psStep' \in {psStep, NoPhoneStep}    \* another process stops the trip; this one dies, and recoverTrips does
  /\ UNCHANGED <<psPoints, psLast, psPhone, psClock, psSeen>>

\* Android has a new fix, of one provider or the other; a fix that is told is the
\* last fused one if there is any, which is as if no other had come after it.
PhoneFixes ==
  /\ psPoints # <<>> /\ Driven
  /\ \E fused \in BOOLEAN :
       /\ psPhone' = [psPhone EXCEPT !.fix = [place |-> psPhone.place, fused |-> fused, at |-> psClock, after |-> Len(psPoints)]]
       /\ psSeen' = (psSeen \/ (fused /\ psPhone.place = psLast.place))
  /\ UNCHANGED <<psTrip, psPoints, psLast, psStep, psClock, psCounts>>

TimePassesOnPhone ==
  /\ psClock < MaxPhoneClock /\ Driven /\ psClock' = psClock + 1
  /\ UNCHANGED <<psTrip, psPoints, psLast, psStep, psPhone, psSeen, psCounts>>

PhoneSyncNext ==
  \/ PhoneSteps \/ LooksAtPhone \/ PhoneTells \/ AnswersReadback
  \/ OpensMaps \/ LaunchesMaps \/ MapsAnswers
  \/ SendsPoint \/ PointAnswered \/ Finishes
  \/ UserActs \/ Intrudes \/ PhoneFixes \/ TimePassesOnPhone

PhoneSyncSpec == PhoneSyncInit /\ [][PhoneSyncNext]_phoneSyncVars

-----------------------------------------------------------------------------
Readbacks   == [req : 0..MaxPoints, match : BOOLEAN, started : 0..MaxPhoneClock, fixed : Int]
LinkedTrips == [status : {"PREVIEW", "RUNNING", "ARRIVING", "PAUSED", "ARRIVED"}, rev : 0..MaxIntrusions,
                maps : {"PENDING", "OPENING", "LAUNCH_ACCEPTED", "FAILED"}, gps : Readbacks,
                last : 0..MaxPoints, accepted : BOOLEAN, pending : BOOLEAN, retried : BOOLEAN]

PhoneSyncTypeOK ==
  /\ psTrip \in LinkedTrips
  /\ psPoints \in Seq([status : {"SENT", "ACCEPTED", "REJECTED", "BUSY", "UNCONFIRMED"}, after : 0..MaxPoints]) /\ Len(psPoints) <= MaxPoints
  /\ psLast \in [place : 0..MaxPoints, sent : 0..MaxPhoneClock]
  /\ psStep \in [pc : {"idle", "readback", "asked", "told", "maps", "launch", "launched", "send", "sent", "finish"},
                 trip : LinkedTrips, began : 0..MaxPhoneClock,
                 seen : [place : 0..MaxPoints, fused : BOOLEAN, age : 0..MaxPhoneClock, after : 0..MaxPoints]]
  /\ psPhone \in [place : 0..MaxPoints, fix : [place : 0..MaxPoints, fused : BOOLEAN, at : 0..MaxPhoneClock, after : 0..MaxPoints]]
  /\ psClock \in 0..MaxPhoneClock /\ psSeen \in BOOLEAN
  /\ psCounts \in [launches : 0..MaxResumes, starts : 0..MaxResumes, intrusions : 0..MaxIntrusions, unseen : BOOLEAN]

\* A point leaves only when the phone was really at the one before it, after
\* that one had left, however old, late or foreign the readings were; a point
\* that was refused for good has no successor once any point was accepted, also
\* after a resumption; and Maps is launched no more often than the user started
\* or resumed the trip.
PhoneIsAwaited ==
  /\ ~psCounts.unseen
  /\ \A i \in DOMAIN psPoints :
       LET before == psPoints[i].after IN
       before # 0 /\ (\E j \in 1..before : psPoints[j].status = "ACCEPTED") => psPoints[before].status = "ACCEPTED"
  /\ psCounts.launches <= psCounts.starts
=============================================================================
