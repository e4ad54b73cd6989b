---------------------------- MODULE GpsRequests ----------------------------
(***************************************************************************)
(* The location requests of one phone outside trips, sites and warm-ups:   *)
(* the sidecar's jitter, the telemetry worker's jobs and a saved anchor    *)
(* propose a point from the device row (sidecar.ts, telemetryWorker.ts,    *)
(* registry.ts), dispatchGps sends it once under the pacing of the phone,  *)
(* and the answer advances the row only if it is still the one proposed    *)
(* from (locationDispatch.ts).  An Android observation may be attached to  *)
(* a request afterwards (locationTelemetry.ts).                            *)
(*                                                                         *)
(* One producer at a time has the phone (DeviceOperations).  The command   *)
(* line, another process, and a registration change the row without it.    *)
(***************************************************************************)
EXTENDS Integers

CONSTANTS
  MaxRequests,   \* bound on the location requests
  GpsInterval,   \* config.jitterMs, in ticks
  MaxGpsClock, MaxEdits, MaxGpsFaults   \* bounds: time, changes of the row, restarts and database failures

ASSUME GpsAssumption ==
  /\ MaxRequests \in Nat /\ GpsInterval \in Nat \ {0}
  /\ MaxGpsClock \in Nat \ {0} /\ MaxEdits \in Nat /\ MaxGpsFaults \in Nat

VARIABLES
  gClock,
  gDev,      \* the device row; rev stands for every field of proposalState, moved is
             \* (history) the rev at which the position was stored
  gps,       \* dispatchGps and its caller
  request,   \* the LocationRequest rows, with the row each was proposed from
  pacing,    \* LocationPacing of the phone: when the next point is due
  capture,   \* an observation that was captured and not yet reported
  gFaults

gpsVars == <<gClock, gDev, gps, request, pacing, capture, gFaults>>

ByOperator == 0     \* where the model's position comes from, if not from a request
NotPaced == -1    \* no pacing is known: the process is new
Sources  == {"JITTER", "QUEUE", "ANCHOR"}
Completions == {"API_ACCEPTED", "API_REJECTED", "UNCONFIRMED", "FAILED", "SKIPPED"}

NoGps     == [pc |-> "idle", source |-> "JITTER", req |-> 0, rev |-> 0, started |-> FALSE]
NoGpsRequest == [status |-> "NONE", at |-> 0, end |-> 0, rev |-> 0, moving |-> FALSE, seen |-> 0]
NoCapture == [at |-> 0, last |-> 0]

GpsRows       == 1..MaxRequests
Dispatched == {r \in GpsRows : request[r].at > 0}
\* Requests are dispatched in the order of their rows: one producer at a time.
LastDispatched == IF Dispatched = {} THEN 0 ELSE CHOOSE r \in Dispatched : \A q \in Dispatched : q <= r

GpsInit ==
  /\ gClock = 1
  /\ gDev = [rev |-> 0, navigating |-> TRUE, active |-> TRUE, on |-> TRUE, position |-> ByOperator, moved |-> 0]
  /\ gps = NoGps
  /\ request = [r \in GpsRows |-> NoGpsRequest]
  /\ pacing = NotPaced
  /\ capture = NoCapture
  /\ gFaults = 0

GpsAt(where)   == gps.pc = where

\* gpsEligibility, and the phase the movers ask for.
GpsEligible(source) == gDev.active /\ gDev.on /\ (source # "ANCHOR" => gDev.navigating)

\* proposalState: the row is still the one proposed from.
StillProposed == gDev.rev = gps.rev

-----------------------------------------------------------------------------
(* LocationPacing.                                                         *)

IsDue == pacing <= gClock

\* gpsIsDue after a restart: due an interval after the last request ended, or
\* after it was dispatched if its end was not stored.
Restored ==
  LET last == request[LastDispatched] IN
  IF LastDispatched = 0 THEN gClock ELSE (IF last.end > 0 THEN last.end ELSE last.at) + GpsInterval

-----------------------------------------------------------------------------
(* The producers.                                                          *)

Edit(row) ==
  /\ gDev.rev < MaxEdits
  /\ gDev' = [row EXCEPT !.rev = gDev.rev + 1]

\* The row after the operator placed the phone.
AtAnchor(row) == [row EXCEPT !.navigating = FALSE, !.position = ByOperator, !.moved = gDev.rev + 1]

\* setAnchor stores the anchor first, and sends it only if the phone was eligible.
SaveAnchor ==
  /\ GpsAt("idle")
  /\ Edit(AtAnchor(gDev))
  /\ pacing' = IF GpsEligible("ANCHOR") /\ pacing = NotPaced THEN Restored ELSE pacing
  /\ gps' = IF GpsEligible("ANCHOR") /\ pacing' <= gClock
            THEN [NoGps EXCEPT !.pc = "create", !.source = "ANCHOR", !.rev = gDev'.rev] ELSE gps
  /\ UNCHANGED <<gClock, request, capture, gFaults>>

\* The movement is reserved, the row read again, and the pacing consulted.
ProposeGps(source) ==
  /\ GpsAt("idle")
  /\ GpsEligible(source)
  /\ pacing' = IF pacing = NotPaced THEN Restored ELSE pacing
  /\ pacing' <= gClock
  /\ gps' = [NoGps EXCEPT !.pc = "create", !.source = source, !.rev = gDev.rev]
  /\ UNCHANGED <<gClock, gDev, request, capture, gFaults>>

\* A worker that finds the campaign over expires the phone instead.
ExpirePhone ==
  /\ GpsAt("idle") /\ gDev.active
  /\ Edit([gDev EXCEPT !.navigating = FALSE, !.active = FALSE])
  /\ UNCHANGED <<gClock, gps, request, pacing, capture, gFaults>>

\* createLocationRequest.
CreateRequest ==
  /\ GpsAt("create")
  /\ \E r \in GpsRows :
       /\ request[r].status = "NONE" /\ \A q \in 1..(r - 1) : request[q].status # "NONE"
       /\ request' = [request EXCEPT ![r] = [NoGpsRequest EXCEPT !.status = "REQUESTED",
                        !.rev = gps.rev, !.moving = gps.source # "ANCHOR"]]
       /\ gps' = [gps EXCEPT !.pc = "send", !.req = r]
  /\ UNCHANGED <<gClock, gDev, pacing, capture, gFaults>>

-----------------------------------------------------------------------------
(* dispatchGps.                                                            *)

\* The callback of one key's turn: eligible, due, the same row, and the stamp.
DispatchPoint ==
  /\ GpsAt("send") /\ ~gps.started
  /\ gDev.active /\ gDev.on /\ IsDue /\ StillProposed
  /\ request' = [request EXCEPT ![gps.req].status = "DISPATCHED", ![gps.req].at = gClock]
  /\ pacing' = gClock + GpsInterval
  /\ gps' = [gps EXCEPT !.pc = "answer", !.started = TRUE]
  /\ UNCHANGED <<gClock, gDev, capture, gFaults>>

\* What each ending stores when the request may, or may not, have left.
CaughtAs == IF gps.started THEN {"UNCONFIRMED"} ELSE {"SKIPPED", "FAILED"}

\* latestDispatch and proposalState in the transaction of the completion.
Advances(r) == request[r].at = 0 \/ LastDispatched = r

\* Accepted: the row moves, if it is the one proposed from (its own commit makes
\* it another).  Unconfirmed: a moving phone is held for review.
Completed(status) ==
  /\ request' = [request EXCEPT ![gps.req].status = status, ![gps.req].end = gClock]
  /\ IF StillProposed /\ Advances(gps.req) /\ status = "API_ACCEPTED"
     THEN \E arrived \in BOOLEAN :
            gDev' = [gDev EXCEPT !.position = gps.req, !.moved = gDev.rev, !.navigating = @ /\ ~arrived]
     ELSE IF StillProposed /\ Advances(gps.req) /\ status = "UNCONFIRMED" /\ request[gps.req].moving
     THEN gDev' = [gDev EXCEPT !.active = FALSE]
     ELSE UNCHANGED gDev

\* `finally`: the pacing starts again, and the phone is released.
Finished == pacing' = gClock + GpsInterval /\ gps' = NoGps

\* The provider's answer about this phone, or one that says nothing usable.
AnswerPoint ==
  /\ GpsAt("answer")
  /\ \E status \in {"API_ACCEPTED", "API_REJECTED", "UNCONFIRMED"} : Completed(status)
  /\ Finished
  /\ UNCHANGED <<gClock, capture, gFaults>>

\* No key, a refused guard, a lost answer, a second key's turn, a failed write:
\* the handler completes what is not complete, unless that write fails as well.
CatchPoint ==
  /\ gps.pc \in {"send", "answer"}
  /\ \/ \E status \in CaughtAs : Completed(status) /\ UNCHANGED gFaults
     \/ gFaults < MaxGpsFaults /\ gFaults' = gFaults + 1 /\ UNCHANGED <<gDev, request>>
  /\ Finished
  /\ UNCHANGED <<gClock, capture>>

-----------------------------------------------------------------------------
(* Around the producers.                                                   *)

RowOnly == UNCHANGED <<gClock, gps, request, pacing, capture, gFaults>>

\* startNavigation, parkStationary and registerDevice: from the command line, or
\* a registration, at any time.
EditRow ==
  /\ \/ \E navigating \in BOOLEAN : Edit([gDev EXCEPT !.navigating = navigating])
     \/ Edit([AtAnchor(gDev) EXCEPT !.active = TRUE])
  /\ RowOnly

\* The switch of the console takes the window.
ToggleActive ==
  /\ GpsAt("idle")
  /\ Edit([gDev EXCEPT !.active = ~@])
  /\ RowOnly

PowerObserved == gDev' = [gDev EXCEPT !.on = ~@] /\ RowOnly

GpsClockTicks ==
  /\ gClock < MaxGpsClock /\ gClock' = gClock + 1
  /\ UNCHANGED <<gDev, gps, request, pacing, capture, gFaults>>

\* Nothing recovers the rows: a request left DISPATCHED stays so.
GpsRestarts ==
  /\ gFaults < MaxGpsFaults /\ gFaults' = gFaults + 1
  /\ gps' = NoGps /\ pacing' = NotPaced
  /\ UNCHANGED <<gClock, gDev, request, capture>>

\* Somebody reads the phone's location, and reports it for some request.
CaptureFix ==
  /\ capture = NoCapture /\ LastDispatched > 0
  /\ capture' = [at |-> gClock, last |-> LastDispatched]
  /\ UNCHANGED <<gClock, gDev, gps, request, pacing, gFaults>>

\* recordAndroidObservation: refused unless the request is accepted, not newer
\* than the fix, without an observation, and still the last one dispatched.
recordAndroidObservation(r) ==
  /\ capture # NoCapture
  /\ request' = IF /\ request[r].status = "API_ACCEPTED" /\ capture.at >= request[r].at
                   /\ request[r].seen = 0 /\ LastDispatched = r
                THEN [request EXCEPT ![r].seen = capture.last] ELSE request
  /\ capture' = NoCapture
  /\ UNCHANGED <<gClock, gDev, gps, pacing, gFaults>>

GpsNext ==
  \/ SaveAnchor \/ ExpirePhone \/ CreateRequest \/ DispatchPoint \/ AnswerPoint \/ CatchPoint
  \/ EditRow \/ ToggleActive \/ PowerObserved \/ GpsClockTicks \/ GpsRestarts \/ CaptureFix
  \/ \E source \in {"JITTER", "QUEUE"} : ProposeGps(source)
  \/ \E r \in GpsRows : recordAndroidObservation(r)

GpsSpec == GpsInit /\ [][GpsNext]_gpsVars

-----------------------------------------------------------------------------

GpsTypeOK ==
  /\ gClock \in 1..MaxGpsClock
  /\ gDev \in [rev : 0..MaxEdits, navigating : BOOLEAN, active : BOOLEAN, on : BOOLEAN, position : 0..MaxRequests, moved : 0..MaxEdits]
  /\ gps \in [pc : {"idle", "create", "send", "answer"}, source : Sources, req : 0..MaxRequests, rev : 0..MaxEdits, started : BOOLEAN]
  /\ request \in [GpsRows -> [status : Completions \cup {"NONE", "REQUESTED", "DISPATCHED"}, at : 0..MaxGpsClock, end : 0..MaxGpsClock,
                              rev : 0..MaxEdits, moving : BOOLEAN, seen : 0..MaxRequests]]
  /\ pacing \in -1..(MaxGpsClock + GpsInterval)
  /\ capture \in [at : 0..MaxGpsClock, last : 0..MaxRequests]
  /\ gFaults \in 0..MaxGpsFaults

PointsAreSpaced ==
  \A r, q \in Dispatched : r < q => request[q].at - request[r].at >= GpsInterval

StatusOfPoints ==
  \A r \in GpsRows :
    /\ request[r].status \in {"REQUESTED", "SKIPPED", "FAILED"} => request[r].at = 0
    /\ request[r].status \in {"DISPATCHED", "API_ACCEPTED", "API_REJECTED", "UNCONFIRMED"} => request[r].at > 0

ModelFollowsPoints ==
  LET r == gDev.position IN
  r # ByOperator => request[r].status = "API_ACCEPTED" /\ request[r].rev = gDev.moved

LostPointHolds ==
  LET r == LastDispatched IN
  r > 0 /\ request[r].status = "UNCONFIRMED" /\ request[r].moving /\ gDev.rev = request[r].rev
    => ~gDev.active

\* A location request says what is known of its point: sent or not, and never
\* closer to another than the interval, over restarts and failovers; the model
\* stands on an accepted point, and no edit between its proposal and its answer
\* is overwritten; a moving phone whose last point is unconfirmed stays held
\* until somebody changes its row; and an observation belongs to a request that
\* no dispatch had replaced when the fix was taken.
PointsAreTrue ==
  /\ PointsAreSpaced /\ StatusOfPoints /\ ModelFollowsPoints /\ LostPointHolds
  /\ \A r \in GpsRows : request[r].seen <= r
=============================================================================
