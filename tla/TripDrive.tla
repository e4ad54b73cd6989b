------------------------------ MODULE TripDrive ------------------------------
(***************************************************************************)
(* One driving trip of one phone over REST checkpoints: the scheduler's    *)
(* step (trips/runner.ts), the GPS call it makes and the evidence row of   *)
(* that call (orchestrator/locationDispatch.ts, ops/locationTelemetry.ts,  *)
(* trips/retryCheckpoint.ts), the user's start, pause, resume and cancel   *)
(* (trips/service.ts), and the recovery after a restart; and whatever else *)
(* lets the phone drift about its anchor while no trip owns it.            *)
(*                                                                         *)
(* The trip is not linked to the phone's Maps app (openMaps false), so     *)
(* phoneSync.ts is passed through, and it drives a REST phone, not a       *)
(* player.  device.active lets a phone of a trip be driven, and any other   *)
(* phone drift; the drift's own calls and places are not modelled, so      *)
(* device.at is the last point of this trip.  Time is not modelled: what   *)
(* depends on it (a tick that is not due, cooldowns, the bounds on         *)
(* readiness and on queueing) may happen whenever the code allows it to.   *)
(***************************************************************************)
EXTENDS Naturals

CONSTANTS
  LastPoint,   \* the checkpoint at the end of the timeline
  MaxRev,      \* bound: how often the trip's revision changes
  NoPoint      \* no pending checkpoint

ASSUME PointsAndBounds ==
  /\ LastPoint \in Nat /\ MaxRev \in Nat
  /\ NoPoint \notin Nat

VARIABLES
  trip,        \* SQL: the DrivingTrip row
  device,      \* SQL: the Device row, and the power status recorded in it
  last,        \* SQL: the LocationRequest of trip.lastRequestId, and what became of its message
  lease,       \* Redis: who owns the physical phone
  mover,       \* process: the step holds the movement reservation
  window,      \* process: who holds the device's environment window
  clock,       \* process: the revision whose last checkpoint clocks remembers, 0 if none
  readiness,   \* process: the trip's ReadinessWait
  step,        \* process: the running step
  op,          \* process: the user's request being handled
  up,          \* the process is running, recovery included
  wifiSends,   \* auxiliary: arrival Wi-Fi updates that left the process
  adrift       \* auxiliary: a newer GPS call replaced one that might still move the phone

db      == <<trip, device, last>>
process == <<mover, window, clock, readiness>>
aux     == <<wifiSends, adrift>>
vars    == <<db, lease, process, step, op, up, aux>>

-----------------------------------------------------------------------------
Points  == 0..LastPoint
Driving == {"RUNNING", "ARRIVING"}
Power   == {"on", "busy", "other"}
Kinds   == {"start", "pause", "resume", "cancel", "adopt"}

Statuses == Driving \cup {"PREVIEW", "PAUSED", "ARRIVED", "CANCELLED"}
Revs     == 0..MaxRev
WifiMarks == {"off", "selected", "unsent", "dispatched", "accepted"}

Trips == [status  : Statuses,
          rev     : Revs,
          elapsed : Points,
          pending : Points \cup {NoPoint},
          retries : 0..1,
          wifi    : WifiMarks]

\* The row's status, the point it carries, and the message of the call:
\* not yet sent, on its way, carried out, or certain never to be.
Requests == [status : {"none", "DISPATCHED", "API_ACCEPTED", "BUSY", "REJECTED", "UNCONFIRMED"},
             point  : Points,
             wire   : {"none", "flying", "applied", "refused"}]

Places == {"idle", "loaded", "reserved", "queued", "vetted", "marked", "sent", "answered",
           "completed", "pausing", "landing", "finish", "arrival", "wifiMarked", "wifiSent", "land"}

\* snap is the row as the step read it; gated: the readiness gate saw the
\* phone ON at an earlier poll; started: this call was marked dispatched;
\* caught: an error in finishArrival ends in pauseUnsafe.
Steps == [pc      : Places,
          snap    : Trips,
          retry   : BOOLEAN,
          gated   : BOOLEAN,
          point   : Points,
          started : BOOLEAN,
          answer  : {"none", "API_ACCEPTED", "BUSY", "REJECTED"},
          caught  : BOOLEAN,
          wifi    : WifiMarks]

Preview(w) == [status |-> "PREVIEW", rev |-> 0, elapsed |-> 0, pending |-> NoPoint,
               retries |-> 0, wifi |-> w]

\* A resting step keeps nothing; the fields only need a value.
Rest == [pc |-> "idle", snap |-> Preview("off"), retry |-> FALSE, gated |-> FALSE, point |-> 0,
         started |-> FALSE, answer |-> "none", caught |-> FALSE, wifi |-> "off"]
NoOp == [pc |-> "idle", kind |-> "start", snap |-> Preview("off")]

\* ReadinessWait: the revision it belongs to (0: there is none), and whether
\* an ON observation is remembered (firstOnAt).
NoWait == [rev |-> 0, seenOn |-> FALSE]

Init ==
  /\ \E w \in {"off", "selected"} : trip = Preview(w)
  /\ \E drifts \in BOOLEAN :
       device = [trip |-> FALSE, active |-> drifts, at |-> 0, power |-> "on"]
  /\ last = [status |-> "none", point |-> 0, wire |-> "none"]
  /\ lease = "free" /\ mover = FALSE /\ window = "none"
  /\ clock = 0 /\ readiness = NoWait
  /\ step = Rest /\ op = NoOp /\ up = TRUE
  /\ wifiSends = 0 /\ adrift = FALSE

-----------------------------------------------------------------------------
\* What the step consults.

\* requireOwnership
Owns(status) ==
  /\ lease = "step"
  /\ trip.rev = step.snap.rev /\ trip.status = status
  /\ device.trip /\ device.active

\* gpsEligibility for this trip, and its variant for a busy phone
Eligible     == device.trip /\ device.active /\ device.power = "on"
EligibleBusy == device.trip /\ device.active /\ device.power = "busy"

\* Mutant: any pending point counts as refused.
RetryableUnproved(t) == t.retries = 0 /\ t.pending # NoPoint

\* readRetryableCheckpoint
Retryable(t) == t.retries = 0 /\ t.pending # NoPoint /\ last.status = "BUSY"

\* the trip's ReadinessWait, which a new revision discards
Waiting == readiness.rev = step.snap.rev

At(pc)   == step.pc = pc
Goto(pc) == step' = [step EXCEPT !.pc = pc]

\* The step ends: its reservation, its window and its lease are given back.
Leave ==
  /\ step' = Rest
  /\ mover' = FALSE
  /\ window' = IF window = "step" THEN "none" ELSE window
  /\ lease' = IF lease = "step" THEN "free" ELSE lease

-----------------------------------------------------------------------------
\* The step up to its GPS call.

\* The scheduler starts a step, which reads the trip once it has the lease.
StepTakes ==
  /\ up /\ At("idle") /\ trip.status \in Driving /\ lease = "free"
  /\ lease' = "step"
  /\ step' = [Rest EXCEPT !.pc = IF trip.status = "RUNNING" THEN "loaded" ELSE "landing",
                          !.snap = trip]
  /\ UNCHANGED <<db, process, op, up, aux>>

\* Not due yet, cooling down, or no reservation to be had.
Defer ==
  /\ At("loaded")
  /\ Leave
  /\ UNCHANGED <<db, clock, readiness, op, up, aux>>

Unreconciled == step.snap.pending # NoPoint /\ ~Retryable(step.snap)

\* A dispatched point nobody accounted for, or a phone not confirmed ON.
LoadedUnsafe ==
  /\ At("loaded")
  /\ Unreconciled \/ ~(Eligible \/ EligibleBusy)
  /\ Goto("pausing")
  /\ UNCHANGED <<db, lease, process, op, up, aux>>

Reserve ==
  /\ At("loaded")
  /\ ~Unreconciled
  /\ Eligible \/ EligibleBusy
  /\ window = "none"
  /\ mover' = TRUE
  /\ readiness' = IF EligibleBusy THEN [rev |-> step.snap.rev, seenOn |-> FALSE]
                  ELSE IF Waiting THEN readiness ELSE NoWait
  /\ step' = [step EXCEPT !.pc = "reserved", !.retry = Retryable(step.snap)]
  /\ UNCHANGED <<db, lease, window, clock, op, up, aux>>

\* The next readiness poll is not due.
HoldOff ==
  /\ At("reserved") /\ Waiting
  /\ Leave
  /\ UNCHANGED <<db, clock, readiness, op, up, aux>>

\* More than schedulerStallMs since the step before.
ScheduleStalled ==
  /\ At("reserved") /\ clock = step.snap.rev
  /\ Goto("pausing")
  /\ UNCHANGED <<db, lease, process, op, up, aux>>

\* Mutant: every poll starts the 30 seconds anew.
ReadinessStartsAnew == FALSE

\* More than readinessTimeoutMs since the wait began.
ReadinessTimesOut ==
  /\ At("reserved") /\ Waiting
  /\ Goto("pausing")
  /\ UNCHANGED <<db, lease, process, op, up, aux>>

\* checkDevicePower records what the provider reports.  The phone is not ON,
\* the check or the ownership fails, or the campaign or the 30 seconds are over.
PowerUnusable ==
  /\ At("reserved")
  /\ \E p \in Power : device' = [device EXCEPT !.power = p]
  /\ Goto("pausing")
  /\ UNCHANGED <<trip, last, lease, process, op, up, aux>>

PowerBusy ==
  /\ At("reserved") /\ Owns("RUNNING")
  /\ device' = [device EXCEPT !.power = "busy"]
  /\ readiness' = [rev |-> step.snap.rev, seenOn |-> FALSE]
  /\ Leave
  /\ UNCHANGED <<trip, last, clock, op, up, aux>>

PowerFirstOn ==
  /\ At("reserved") /\ Owns("RUNNING")
  /\ Waiting /\ ~readiness.seenOn
  /\ device' = [device EXCEPT !.power = "on"]
  /\ readiness' = [readiness EXCEPT !.seenOn = TRUE]
  /\ Leave
  /\ UNCHANGED <<trip, last, clock, op, up, aux>>

\* The point of the next call: the refused one again, or one interval on;
\* without a clock of this revision the accepted point is held.
NextPoint ==
  IF step.retry THEN step.snap.pending
  ELSE IF clock = step.snap.rev /\ step.snap.elapsed < LastPoint
       THEN step.snap.elapsed + 1 ELSE step.snap.elapsed

\* dispatchGps then records the request and waits for an API key's turn.
PowerReady ==
  /\ At("reserved") /\ Owns("RUNNING")
  /\ Waiting => readiness.seenOn
  /\ device' = [device EXCEPT !.power = "on"]
  /\ step' = [step EXCEPT !.pc = "queued", !.gated = Waiting, !.point = NextPoint]
  /\ UNCHANGED <<trip, last, lease, process, op, up, aux>>

-----------------------------------------------------------------------------
\* The GPS call.

\* beforeSend up to its transaction
Vet ==
  /\ At("queued") /\ ~step.started
  /\ Owns("RUNNING") /\ Eligible
  /\ Goto("vetted")
  /\ UNCHANGED <<db, lease, process, op, up, aux>>

\* No row, no key, too late, cooling down, not eligible, not owned, a failed
\* transaction: nothing was sent.
Unsent ==
  /\ At("queued") \/ At("vetted")
  /\ ~step.started
  /\ Goto("pausing")
  /\ UNCHANGED <<db, lease, process, op, up, aux>>

\* The transaction that marks the request dispatched and the point pending.
Dispatch ==
  /\ At("vetted") /\ Eligible
  /\ trip.rev = step.snap.rev /\ trip.status = "RUNNING"
  /\ trip.pending = (IF step.retry THEN step.snap.pending ELSE NoPoint)
  /\ trip.retries = (IF step.retry THEN 0 ELSE step.snap.retries)
  /\ trip' = [trip EXCEPT !.pending = step.point, !.retries = IF step.retry THEN 1 ELSE @]
  /\ last' = [status |-> "DISPATCHED", point |-> step.point, wire |-> "none"]
  /\ adrift' = \/ adrift
               \/ last.wire = "flying"
               \/ last.wire = "applied" /\ last.status # "API_ACCEPTED"
  /\ step' = [step EXCEPT !.pc = "marked", !.started = TRUE]
  /\ UNCHANGED <<device, lease, process, op, up, wifiSends>>

Post ==
  /\ At("marked")
  /\ last' = [last EXCEPT !.wire = "flying"]
  /\ Goto("sent")
  /\ UNCHANGED <<trip, device, lease, process, op, up, aux>>

\* The provider carries the update out, or never will.
Provider ==
  /\ last.wire = "flying"
  /\ \E w \in {"applied", "refused"} : last' = [last EXCEPT !.wire = w]
  /\ UNCHANGED <<trip, device, lease, process, step, op, up, aux>>

\* A classified answer names the phone as accepted or as rejected.
Answers == CASE last.wire = "applied" -> {"API_ACCEPTED"}
             [] last.wire = "refused" -> {"BUSY", "REJECTED"}
             [] OTHER -> {}

Answered ==
  /\ At("sent")
  /\ \E a \in Answers : step' = [step EXCEPT !.pc = "answered", !.answer = a]
  /\ UNCHANGED <<db, lease, process, op, up, aux>>

\* The key answered 429 or was revoked: the next key's turn calls beforeSend.
KeyFails ==
  /\ At("sent") /\ last.wire = "refused"
  /\ Goto("queued")
  /\ UNCHANGED <<db, lease, process, op, up, aux>>

\* Mutant: a call without an answer is stored as rejected.
UnresolvedIsRejected == {"REJECTED", "DISPATCHED"}

\* What a request's row may say when its call ended without an answer that was
\* stored: the handler notes the doubt, unless that write fails too.
Unresolved == {"UNCONFIRMED", "DISPATCHED"}

\* Timeout, broken connection, an answer that names the phone in no list or in
\* both, or a second key's turn after the request was marked dispatched.
Doubt ==
  /\ At("sent") \/ (At("queued") /\ step.started)
  /\ \E s \in Unresolved : last' = [last EXCEPT !.status = s]
  /\ Goto("pausing")
  /\ UNCHANGED <<trip, device, lease, process, op, up, aux>>

\* Mutant: the model advances whatever the phone answered.
CompleteAdvances ==
  /\ At("answered")
  /\ last' = [last EXCEPT !.status = step.answer]
  /\ device' = IF device.trip /\ device.active THEN [device EXCEPT !.at = step.point] ELSE device
  /\ Goto("completed")
  /\ UNCHANGED <<trip, lease, process, op, up, aux>>

\* complete(): the row gets its status and the model advances with the phone.
Complete ==
  /\ At("answered")
  /\ last' = [last EXCEPT !.status = step.answer]
  /\ device' = IF step.answer = "API_ACCEPTED" /\ device.trip /\ device.active
               THEN [device EXCEPT !.at = step.point] ELSE device
  /\ Goto("completed")
  /\ UNCHANGED <<trip, lease, process, op, up, aux>>

\* That transaction fails.
CompleteFails ==
  /\ At("answered")
  /\ \E s \in Unresolved : last' = [last EXCEPT !.status = s]
  /\ Goto("pausing")
  /\ UNCHANGED <<trip, device, lease, process, op, up, aux>>

-----------------------------------------------------------------------------
\* What the step makes of a stored answer.

\* The phone took the point: the trip advances, and perhaps arrives.  The
\* arrival is finished at once unless a radio session still holds the phone.
Accept ==
  /\ At("completed") /\ step.answer = "API_ACCEPTED"
  /\ lease = "step"
  /\ trip.rev = step.snap.rev /\ trip.status = "RUNNING" /\ device.trip
  /\ trip' = [trip EXCEPT !.elapsed = step.point, !.pending = NoPoint, !.retries = 0,
                          !.status = IF step.point = LastPoint THEN "ARRIVING" ELSE @]
  /\ clock' = step.snap.rev
  /\ readiness' = NoWait
  /\ \/ Leave
     \/ /\ step.point = LastPoint
        /\ step' = [Rest EXCEPT !.pc = "finish", !.snap = trip', !.wifi = trip.wifi]
        /\ mover' = FALSE
        /\ UNCHANGED <<lease, window>>
  /\ UNCHANGED <<device, last, op, up, aux>>

\* The answer is worth one retry of the same point.
OneRetry ==
  /\ step.answer = "BUSY" /\ ~step.retry /\ step.snap.retries = 0
  /\ trip.rev = step.snap.rev /\ trip.status = "RUNNING"
  /\ Retryable(trip)

HoldForRetry ==
  /\ At("completed") /\ OneRetry /\ Owns("RUNNING")
  /\ readiness' = [rev |-> step.snap.rev, seenOn |-> FALSE]
  /\ Leave
  /\ UNCHANGED <<db, clock, op, up, aux>>

\* The point was refused for good and is no longer pending.
ClearRejected ==
  /\ At("completed") /\ step.answer \in {"BUSY", "REJECTED"} /\ ~OneRetry
  /\ trip' = IF trip.rev = step.snap.rev /\ trip.status = "RUNNING"
             THEN [trip EXCEPT !.pending = NoPoint] ELSE trip
  /\ Goto("pausing")
  /\ UNCHANGED <<device, last, lease, process, op, up, aux>>

\* The lease was lost, the row changed, or a write failed.
CompletedUnsafe ==
  /\ At("completed")
  /\ Goto("pausing")
  /\ UNCHANGED <<db, lease, process, op, up, aux>>

\* pauseUnsafe, and the end of the step
PauseUnsafe ==
  /\ At("pausing")
  /\ IF trip.rev = step.snap.rev /\ trip.status \in Driving
     THEN /\ trip' = [trip EXCEPT !.status = "PAUSED"]
          /\ device' = [device EXCEPT !.active = @ /\ ~device.trip]
     ELSE UNCHANGED <<trip, device>>
  /\ clock' = 0
  /\ readiness' = NoWait
  /\ Leave
  /\ UNCHANGED <<last, op, up, aux>>

\* The transaction fails and the trip keeps driving as it was left.
PauseFails ==
  /\ At("pausing")
  /\ Leave
  /\ UNCHANGED <<db, clock, readiness, op, up, aux>>

-----------------------------------------------------------------------------
\* The arrival (finishArrival), at the end of the step that arrived or in a
\* step of its own.

\* A step of its own waits for the phone in a window it then gives back.
LandingReady ==
  /\ At("landing") /\ window = "none"
  /\ step' = [step EXCEPT !.pc = "finish", !.caught = TRUE, !.wifi = trip.wifi]
  /\ UNCHANGED <<db, lease, process, op, up, aux>>

FinishOpens ==
  /\ At("finish") /\ window = "none" /\ Owns("ARRIVING")
  /\ window' = "step"
  /\ Goto("arrival")
  /\ UNCHANGED <<db, lease, mover, clock, readiness, op, up, aux>>

\* No window, no ownership, a failed write: pauseUnsafe in a step of its own;
\* otherwise the trip stays ARRIVING for the next step.
FinishFails ==
  /\ At("landing") \/ At("finish") \/ At("land")
  /\ IF step.caught \/ At("landing")
     THEN /\ Goto("pausing")
          /\ window' = IF window = "step" THEN "none" ELSE window
          /\ UNCHANGED <<lease, mover>>
     ELSE Leave
  /\ UNCHANGED <<db, clock, readiness, op, up, aux>>

\* the arrival Wi-Fi of the row this step read carries a dispatchedAt
WifiWasDispatched == step.snap.wifi \in {"dispatched", "accepted"}

\* Dispatched by an earlier step: never replayed.
ArrivalReplay ==
  /\ At("arrival") /\ WifiWasDispatched
  /\ Goto("pausing")
  /\ UNCHANGED <<db, lease, process, op, up, aux>>

ArrivalPlain ==
  /\ At("arrival") /\ step.snap.wifi = "off"
  /\ Goto("land")
  /\ UNCHANGED <<db, lease, process, op, up, aux>>

\* Mutant: the second key's turn trusts the row this step read at its start.
WifiMarkOnSnapshot ==
  /\ At("arrival") /\ step.snap.wifi = "selected"
  /\ Owns("ARRIVING")
  /\ trip' = [trip EXCEPT !.wifi = "dispatched"]
  /\ step' = [step EXCEPT !.pc = "wifiMarked", !.wifi = "dispatched"]
  /\ UNCHANGED <<device, last, lease, process, op, up, aux>>

\* beforeUpdate: dispatchedAt is stored before the update is sent.
WifiMark ==
  /\ At("arrival") /\ step.wifi = "selected"
  /\ Owns("ARRIVING")
  /\ trip' = [trip EXCEPT !.wifi = "dispatched"]
  /\ step' = [step EXCEPT !.pc = "wifiMarked", !.wifi = "dispatched"]
  /\ UNCHANGED <<device, last, lease, process, op, up, aux>>

WifiPost ==
  /\ At("wifiMarked")
  /\ wifiSends' = wifiSends + 1
  /\ Goto("wifiSent")
  /\ UNCHANGED <<db, lease, process, op, up, adrift>>

\* 429 or a revoked key: the next key's turn runs the same checks again.
WifiKeyFails ==
  /\ At("wifiSent")
  /\ Goto("arrival")
  /\ UNCHANGED <<db, lease, process, op, up, aux>>

WifiAccepted ==
  /\ At("wifiSent") /\ lease = "step"
  /\ trip.rev = step.snap.rev /\ trip.status = "ARRIVING"
  /\ trip' = [trip EXCEPT !.wifi = "accepted"]
  /\ step' = [step EXCEPT !.pc = "land", !.wifi = "accepted"]
  /\ UNCHANGED <<device, last, lease, process, op, up, aux>>

\* Any failure is noted and the trip arrives all the same.
WifiFails ==
  /\ At("arrival") \/ At("wifiMarked") \/ At("wifiSent")
  /\ step.snap.wifi = "selected"
  /\ step' = [step EXCEPT !.pc = "land",
                          !.wifi = IF @ = "selected" THEN "unsent" ELSE @]
  /\ UNCHANGED <<db, lease, process, op, up, aux>>

\* The trip is ARRIVED and the device is its own again.
Land ==
  /\ At("land") /\ lease = "step"
  /\ trip.rev = step.snap.rev /\ trip.status = "ARRIVING"
  /\ trip' = [trip EXCEPT !.status = "ARRIVED", !.wifi = step.wifi]
  /\ device' = IF device.trip THEN [device EXCEPT !.trip = FALSE, !.active = FALSE] ELSE device
  /\ clock' = 0
  /\ readiness' = NoWait
  /\ Leave
  /\ UNCHANGED <<last, op, up, aux>>

-----------------------------------------------------------------------------
\* The user's requests (mutate): the window first, then the lease.

\* The user names a revision; which request it is shows once it has the lease.
OpBegins ==
  /\ up /\ op.pc = "idle" /\ window = "none" /\ trip.rev < MaxRev
  /\ window' = "op"
  /\ op' = [NoOp EXCEPT !.pc = "draining", !.snap.rev = trip.rev]
  /\ UNCHANGED <<db, lease, mover, clock, readiness, step, up, aux>>

\* Mutant: the window opens while the step still has its reservation.
OpDoesNotDrain ==
  /\ op.pc = "draining"
  /\ op' = [op EXCEPT !.pc = "leasing"]
  /\ UNCHANGED <<db, lease, process, step, up, aux>>

OpDrained ==
  /\ op.pc = "draining" /\ ~mover
  /\ op' = [op EXCEPT !.pc = "leasing"]
  /\ UNCHANGED <<db, lease, process, step, up, aux>>

\* requireStatus and the other refusals of each handler
OpAllowed(k) ==
  \/ k = "start"  /\ trip.status = "PREVIEW" /\ ~device.trip
  \/ k = "pause"  /\ trip.status \in Driving \cup {"PAUSED"} /\ device.trip
  \/ k = "resume" /\ trip.status = "PAUSED" /\ device.trip
                  /\ (trip.pending = NoPoint \/ Retryable(trip))
  \/ k = "cancel" /\ trip.status \in Driving \cup {"PREVIEW", "PAUSED"}
  \/ k = "adopt"  /\ trip.status = "ARRIVED"

OpLeases ==
  /\ op.pc = "leasing" /\ lease = "free"
  /\ trip.rev = op.snap.rev
  /\ lease' = "op"
  /\ \E k \in Kinds : OpAllowed(k) /\ op' = [pc |-> "checking", kind |-> k, snap |-> trip]
  /\ UNCHANGED <<db, process, step, up, aux>>

\* freshBaseline for start, resume and an adoption that lets the phone drift,
\* then assertOwned
OpChecks ==
  /\ op.pc = "checking" /\ lease = "op"
  /\ device' = IF op.kind \in {"start", "resume", "adopt"} THEN [device EXCEPT !.power = "on"] ELSE device
  /\ op' = [op EXCEPT !.pc = "commit"]
  /\ UNCHANGED <<trip, last, lease, process, step, up, aux>>

OpEnds ==
  /\ op' = NoOp
  /\ window' = "none"
  /\ lease' = IF lease = "op" THEN "free" ELSE lease

\* The transaction of each handler, on the row the user saw
OpCommits(k, status) ==
  /\ op.pc = "commit" /\ op.kind = k
  /\ trip.rev = op.snap.rev /\ trip.status = op.snap.status
  /\ trip' = [trip EXCEPT !.rev = @ + 1, !.status = status]
  /\ OpEnds
  /\ UNCHANGED <<last, mover, clock, readiness, step, up, aux>>

StartTrip ==
  /\ OpCommits("start", "RUNNING")
  /\ ~device.trip /\ device.power = "on"
  /\ device' = [device EXCEPT !.trip = TRUE, !.active = TRUE]

PauseTrip ==
  /\ OpCommits("pause", "PAUSED")
  /\ device' = [device EXCEPT !.active = @ /\ ~device.trip]

ResumeTrip ==
  /\ OpCommits("resume", "RUNNING")
  /\ device.trip /\ device.power = "on"
  /\ device' = [device EXCEPT !.active = TRUE]

CancelTrip ==
  /\ OpCommits("cancel", "CANCELLED")
  /\ device' = IF device.trip THEN [device EXCEPT !.trip = FALSE, !.active = FALSE] ELSE device

\* adoptTripAnchor: the phone's anchor becomes the place it arrived at, and
\* the phone drifts about it or stays.
AdoptAnchor ==
  /\ OpCommits("adopt", "ARRIVED")
  /\ \E drifts \in BOOLEAN : device' = [device EXCEPT !.active = drifts, !.trip = FALSE]

\* The drain or the wait for the lease ends without it, the row is not what
\* the user saw, the phone is not ON, a check or a write fails.
OpGivesUp ==
  /\ op.pc # "idle"
  /\ OpEnds
  /\ UNCHANGED <<db, mover, clock, readiness, step, up, aux>>

-----------------------------------------------------------------------------
\* Around them.

\* Mutant: the switch forgets that a trip owns the phone.
DriftSwitchedInTrip ==
  /\ up
  /\ \E drifts \in BOOLEAN : device' = [device EXCEPT !.active = drifts]
  /\ UNCHANGED <<trip, last, lease, process, step, op, up, aux>>

\* While no trip owns the phone its user switches the drift on and off,
\* registers the phone again or gives it to a client, and a drift whose call
\* went unanswered is held.
DriftSwitched ==
  /\ up /\ ~device.trip
  /\ \E drifts \in BOOLEAN : device' = [device EXCEPT !.active = drifts]
  /\ UNCHANGED <<trip, last, lease, process, step, op, up, aux>>

\* The fleet synchronisation records the power it sees, and takes a phone
\* whose subscription ended out of service.
FleetSync ==
  /\ up
  /\ \E p \in Power : device' = [device EXCEPT !.power = p]
  /\ UNCHANGED <<trip, last, lease, process, step, op, up, aux>>

\* An expired phone is switched off, whether a trip owns it or not.
SubscriptionEnds ==
  /\ up /\ device.power = "other"
  /\ device' = [device EXCEPT !.active = FALSE]
  /\ UNCHANGED <<trip, last, lease, process, step, op, up, aux>>

\* Another subsystem, or another workspace, works with the phone for a while.
OtherTakes ==
  /\ lease = "free"
  /\ lease' = "other"
  /\ UNCHANGED <<db, process, step, op, up, aux>>

\* It gives the lease back; the lease of a dead process reaches its TTL.
OtherLeaves ==
  /\ lease = "other"
  /\ lease' = "free"
  /\ UNCHANGED <<db, process, step, op, up, aux>>

\* A holder whose renewals fail loses the lease and does not know it yet.
Lapse ==
  /\ lease \in {"step", "op"}
  /\ lease' = "free"
  /\ UNCHANGED <<db, process, step, op, up, aux>>

Crash ==
  /\ up /\ trip.rev < MaxRev
  /\ up' = FALSE
  /\ step' = Rest /\ op' = NoOp
  /\ mover' = FALSE /\ window' = "none" /\ clock' = 0 /\ readiness' = NoWait
  /\ lease' = IF lease \in {"step", "op"} THEN "other" ELSE lease
  /\ UNCHANGED <<db, aux>>

\* recoverTrips runs before the scheduler and the HTTP server start.
Recover ==
  /\ ~up
  /\ up' = TRUE
  /\ IF trip.status \in Driving
     THEN /\ lease = "free"
          /\ trip' = [trip EXCEPT !.rev = @ + 1, !.status = "PAUSED"]
          /\ device' = [device EXCEPT !.active = @ /\ ~device.trip]
     ELSE UNCHANGED <<trip, device>>
  /\ UNCHANGED <<last, lease, process, step, op, aux>>

-----------------------------------------------------------------------------
GpsCall ==
  \/ Vet \/ Unsent \/ Dispatch \/ Post \/ Answered \/ KeyFails \/ Doubt
  \/ Complete \/ CompleteFails \/ Accept \/ HoldForRetry \/ ClearRejected \/ CompletedUnsafe

Arrival ==
  \/ LandingReady \/ FinishOpens \/ FinishFails \/ ArrivalReplay \/ ArrivalPlain
  \/ WifiMark \/ WifiPost \/ WifiKeyFails \/ WifiAccepted \/ WifiFails \/ Land

StepRuns ==
  \/ StepTakes \/ Defer \/ LoadedUnsafe \/ Reserve \/ HoldOff
  \/ ScheduleStalled \/ ReadinessTimesOut
  \/ PowerUnusable \/ PowerBusy \/ PowerFirstOn \/ PowerReady
  \/ GpsCall \/ PauseUnsafe \/ PauseFails \/ Arrival

OpProceeds ==
  \/ OpDrained \/ OpLeases \/ OpChecks
  \/ StartTrip \/ PauseTrip \/ ResumeTrip \/ CancelTrip \/ AdoptAnchor \/ OpGivesUp

Next ==
  \/ StepRuns \/ Provider
  \/ OpBegins \/ OpProceeds
  \/ DriftSwitched \/ FleetSync \/ SubscriptionEnds \/ OtherTakes \/ OtherLeaves \/ Lapse
  \/ Crash \/ Recover

Spec == Init /\ [][Next]_vars

(* A step that began runs to its end: every await of it is bounded.  The   *)
(* scheduler tries again every 400 ms, so a step that the lease, the       *)
(* window or the clock keeps turning away is not turned away for ever;     *)
(* time passes, so a readiness wait reaches its limit; and the database    *)
(* does not fail every time.  Users, crashes and lost leases are not fair. *)
Fairness ==
  /\ WF_vars(StepRuns)
  /\ SF_vars(StepTakes)
  /\ SF_vars(Reserve \/ LoadedUnsafe)
  /\ SF_vars(ReadinessTimesOut)
  /\ SF_vars(PauseUnsafe)
  /\ WF_vars(OpProceeds)
  /\ WF_vars(OtherLeaves)
  /\ SF_vars(Recover)

FairSpec == Spec /\ Fairness

-----------------------------------------------------------------------------
TypeOK ==
  /\ trip \in Trips
  /\ device \in [trip : BOOLEAN, active : BOOLEAN, at : Points, power : Power]
  /\ last \in Requests
  /\ lease \in {"free", "step", "op", "other"}
  /\ mover \in BOOLEAN
  /\ window \in {"none", "step", "op"}
  /\ clock \in Revs
  /\ readiness \in [rev : Revs, seenOn : BOOLEAN]
  /\ step \in Steps
  /\ op \in [pc : {"idle", "draining", "leasing", "checking", "commit"}, kind : Kinds, snap : Trips]
  /\ up \in BOOLEAN
  /\ wifiSends \in Nat
  /\ adrift \in BOOLEAN

(* A new GPS call leaves only when no earlier one of the trip can still    *)
(* move the phone unaccounted for: after a lost answer, a crash, a lost    *)
(* lease or a failed write the trip never sends over the doubt, whoever    *)
(* resumes it (runner.ts:144-147, service.ts:334-336).                     *)
NothingAdrift == ~adrift

(* The evidence row never claims what the provider did not do: accepted    *)
(* means the phone moved, and busy or rejected, which permit another call, *)
(* mean that it did not and will not (locationDispatch.ts:43-53, 185-203). *)
EvidenceIsTrue ==
  /\ last.status = "API_ACCEPTED" => last.wire = "applied"
  /\ last.status \in {"BUSY", "REJECTED"} => last.wire = "refused"

(* The Trip and Device rows agree across crashes and lost leases: the      *)
(* phone belongs to the trip from its start until it ends and not a moment *)
(* longer, and while it does it may move only if the trip drives: nothing, *)
(* its own drift switched on before the start or during the trip included, *)
(* moves the phone of a paused trip (runner.ts:31-37, 109-115, service.ts, *)
(* http/server.ts:655-666).                                                *)
DeviceFollowsTrip ==
  /\ device.trip <=> trip.status \in Driving \cup {"PAUSED"}
  /\ device.trip /\ device.active => trip.status \in Driving

(* The arrival Wi-Fi is sent at most once, over failover between keys,     *)
(* crashes, resumptions and repeated arrivals (runner.ts:63-84).           *)
WifiOnce == wifiSends <= 1

(* A trip's accepted progress and the device's modelled position change    *)
(* only to the point of a call the provider carried out, and progress      *)
(* never goes back (runner.ts:256-263, locationDispatch.ts:78-106).        *)
ProgressIsApplied ==
  [][ /\ trip'.elapsed # trip.elapsed =>
           /\ last.wire = "applied" /\ last.point = trip'.elapsed
           /\ trip'.elapsed > trip.elapsed
      /\ device'.at # device.at => last.wire = "applied" /\ last.point = device'.at ]_vars

(* No GPS call and no Wi-Fi update leaves the process on behalf of a trip  *)
(* that is paused, cancelled or driving under a newer revision by then,    *)
(* although the last check lies several awaits before the send             *)
(* (locationDispatch.ts:155-184, runner.ts:75-84).                         *)
SilentWhenStopped ==
  [][ (last'.wire = "flying" /\ last.wire # "flying") \/ wifiSends' # wifiSends =>
        trip.status \in Driving /\ trip.rev = step.snap.rev ]_vars

(* A drive that its user leaves alone does not drive for ever: it arrives  *)
(* or is paused, whatever the provider answers and however often the       *)
(* process dies (runner.ts:295-332).                                       *)
DrivesEnd == []<>(trip.status \notin Driving \/ op.pc # "idle")

(* runner.ts:168-169 says that a retry of a refused checkpoint passes the  *)
(* readiness gate, two ON observations one poll apart.  A pause, a resume  *)
(* or a restart in between forgets the wait but keeps the retry.           *)
RetryIsGated == [][trip'.retries > trip.retries => step.gated]_vars
=============================================================================
