-------------------------- MODULE PhonePointsProofs --------------------------
(***************************************************************************)
(* The points of a phone, for every value of the bounds: the requests      *)
(* outside trips (GpsRequests), a trip that waits for Maps (PhoneSync),    *)
(* and the two together (PhonePoints).                                     *)
(***************************************************************************)
EXTENDS PhonePoints, SequenceTheorems, NaturalsInduction, WellFoundedInduction, TLAPS

-----------------------------------------------------------------------------
(* The requests outside trips (GpsRequests).                               *)

Rows == [status : Completions \cup {"NONE", "REQUESTED", "DISPATCHED"}, at : 0..MaxGpsClock, end : 0..MaxGpsClock,
         rev : 0..MaxEdits, moving : BOOLEAN, seen : 0..MaxRequests]

\* Rows are made one after the other, of a device row that is not newer than the present one.
RowsFit ==
  \A r \in GpsRows :
    /\ request[r].status = "NONE" => request[r].at = 0 /\ \A q \in GpsRows : q > r => request[q].status = "NONE"
    /\ request[r].at <= gClock /\ request[r].end <= gClock
    /\ request[r].end = 0 \/ request[r].at <= request[r].end
    /\ request[r].status \in {"REQUESTED", "DISPATCHED"} => request[r].end = 0
    /\ request[r].rev <= gDev.rev

\* The request under way is the last row, and its status is where the call is.
CallFits ==
  /\ gps.rev <= gDev.rev /\ (gps.started <=> gps.pc = "answer")
  /\ gps.pc \in {"send", "answer"} =>
       /\ gps.req \in GpsRows
       /\ \A q \in GpsRows : q > gps.req => request[q].status = "NONE"
       /\ request[gps.req].rev = gps.rev
       /\ request[gps.req].status = IF gps.pc = "send" THEN "REQUESTED" ELSE "DISPATCHED"

\* What the pacing knows is not sooner than an interval after any point.
PacingFits ==
  /\ gps.pc # "idle" => pacing # NotPaced
  /\ pacing # NotPaced => \A r \in Dispatched : request[r].at + GpsInterval <= pacing

CaptureFits == capture.last # 0 => capture.last \in Dispatched

GpsInv == GpsTypeOK /\ RowsFit /\ CallFits /\ PacingFits /\ CaptureFits /\ PointsAreTrue

LEMMA GpsBounds ==
  /\ MaxRequests \in Nat /\ GpsInterval \in Nat /\ GpsInterval > 0 /\ MaxGpsClock \in Nat /\ MaxGpsClock > 0
  /\ MaxEdits \in Nat /\ MaxGpsFaults \in Nat
  /\ GpsRows \subseteq Nat /\ 0 \notin GpsRows /\ GpsRows \subseteq 0..MaxRequests
  /\ 0 \in 0..MaxRequests /\ 0 \in 0..MaxGpsClock /\ 0 \in 0..MaxEdits /\ 0 \in 0..MaxGpsFaults
BY GpsAssumption DEF GpsRows

\* A set of naturals has a least one.
LEMMA Least ==
  ASSUME NEW D \in SUBSET Nat, D # {}
  PROVE  \E d \in D : \A e \in D : d <= e
<1>1. \E d \in D : \A e \in D : ~(<<e, d>> \in OpToRel(<, Nat))
  BY NatLessThanWellFounded, WFMin
<1>2. \A d \in D, e \in D : ~(<<e, d>> \in OpToRel(<, Nat)) => d <= e
  BY DEF OpToRel
<1> QED
  BY <1>1, <1>2

\* Of the points sent there is a last one.
LEMMA LastOfPoints ==
  ASSUME Dispatched # {}
  PROVE  LastDispatched \in Dispatched /\ \A q \in Dispatched : q <= LastDispatched
<1> DEFINE D == {MaxRequests - r : r \in Dispatched}
<1>1. D \in SUBSET Nat /\ D # {}
  BY GpsBounds DEF Dispatched, GpsRows
<1>2. \E d \in D : \A e \in D : d <= e
  <2> HIDE DEF D
  <2> QED
    BY <1>1, Least
<1>3. PICK r \in Dispatched : \A e \in D : MaxRequests - r <= e
  BY <1>2
<1>4. Dispatched \subseteq Nat
  BY GpsBounds DEF Dispatched
<1>5. \A q \in Dispatched : q <= r
  BY <1>3, <1>4, GpsBounds
<1>6. \E s \in Dispatched : \A q \in Dispatched : q <= s
  BY <1>5
<1> QED
  BY <1>6 DEF LastDispatched

LEMMA LastIsLast ==
  /\ LastDispatched \in Dispatched \cup {0}
  /\ \A q \in Dispatched : q <= LastDispatched
  /\ \A r \in Dispatched : (\A q \in Dispatched : q <= r) => LastDispatched = r
<1>1. CASE Dispatched = {}
  BY <1>1 DEF LastDispatched
<1>2. CASE Dispatched # {}
  <2>1. Dispatched \subseteq Nat
    BY GpsBounds DEF Dispatched
  <2>2. LastDispatched \in Dispatched /\ \A q \in Dispatched : q <= LastDispatched
    BY <1>2, LastOfPoints
  <2>3. ASSUME NEW r \in Dispatched, \A q \in Dispatched : q <= r
        PROVE  LastDispatched = r
    <3>1. r <= LastDispatched /\ LastDispatched <= r /\ r \in Nat /\ LastDispatched \in Nat
      BY <2>1, <2>2, <2>3
    <3> QED
      BY <3>1
  <2> QED
    BY <2>2, <2>3
<1> QED
  BY <1>1, <1>2

LEMMA GpsReads ==
  ASSUME GpsInv
  PROVE  /\ gClock \in 1..MaxGpsClock /\ request \in [GpsRows -> Rows]
         /\ gDev.rev \in 0..MaxEdits /\ gDev.moved \in 0..MaxEdits /\ gDev.position \in 0..MaxRequests
         /\ gDev.navigating \in BOOLEAN /\ gDev.active \in BOOLEAN /\ gDev.on \in BOOLEAN
         /\ gps.pc \in {"idle", "create", "send", "answer"} /\ gps.source \in Sources
         /\ gps.req \in 0..MaxRequests /\ gps.rev \in 0..MaxEdits /\ gps.started \in BOOLEAN
         /\ pacing \in -1..(MaxGpsClock + GpsInterval)
         /\ gFaults \in 0..MaxGpsFaults
         /\ Dispatched \subseteq GpsRows
         /\ \A r \in GpsRows : request[r] \in Rows /\ request[r].at \in 0..MaxGpsClock /\ request[r].end \in 0..MaxGpsClock
                               /\ request[r].rev \in 0..MaxEdits
BY DEF GpsInv, GpsTypeOK, Rows, Dispatched

LEMMA InitGpsInv == GpsInit => GpsInv
<1> SUFFICES ASSUME GpsInit PROVE GpsInv
  OBVIOUS
<1>1. NoGpsRequest \in Rows
  BY GpsBounds DEF NoGpsRequest, Rows
<1>2. GpsTypeOK
  BY <1>1, GpsBounds DEF GpsInit, GpsTypeOK, Rows, NoGps, NoCapture, NotPaced, Sources, ByOperator
<1>3. Dispatched = {} /\ LastDispatched = 0
  BY DEF GpsInit, Dispatched, LastDispatched, NoGpsRequest
<1>4. RowsFit /\ CallFits /\ PacingFits /\ CaptureFits
  BY <1>3 DEF GpsInit, RowsFit, CallFits, PacingFits, CaptureFits, NoGps, NoCapture, NoGpsRequest
<1>5. PointsAreTrue
  BY <1>3, GpsBounds DEF GpsInit, PointsAreTrue, PointsAreSpaced, StatusOfPoints, ModelFollowsPoints, LostPointHolds, NoGpsRequest
<1> QED
  BY <1>2, <1>4, <1>5 DEF GpsInv

-----------------------------------------------------------------------------
\* A step that stores nothing of the requests.
LEMMA RowsStay ==
  ASSUME request' = request
  PROVE  Dispatched' = Dispatched /\ LastDispatched' = LastDispatched
BY DEF Dispatched, LastDispatched

\* After a restart the pacing is not sooner either.
LEMMA RestoredIsLate ==
  ASSUME GpsInv
  PROVE  /\ Restored \in 0..(MaxGpsClock + GpsInterval)
         /\ \A r \in Dispatched : request[r].at + GpsInterval <= Restored
<1>1. CASE LastDispatched = 0
  <2>1. Dispatched = {}
    BY <1>1, LastIsLast, GpsReads, GpsBounds
  <2> QED
    BY <1>1, <2>1, GpsReads, GpsBounds DEF Restored
<1>2. CASE LastDispatched # 0
  <2> DEFINE last == request[LastDispatched]
  <2>1. /\ LastDispatched \in Dispatched /\ LastDispatched \in GpsRows
        /\ last.at \in 0..MaxGpsClock /\ last.end \in 0..MaxGpsClock /\ (last.end = 0 \/ last.at <= last.end)
    BY <1>2, LastIsLast, GpsReads DEF GpsInv, RowsFit
  <2>2. \A r \in Dispatched : request[r].at \in 0..MaxGpsClock /\ request[r].at <= last.at
    <3> SUFFICES ASSUME NEW r \in Dispatched PROVE request[r].at \in 0..MaxGpsClock /\ request[r].at <= last.at
      OBVIOUS
    <3>1. r \in GpsRows /\ r <= LastDispatched /\ request[r].at \in 0..MaxGpsClock
      BY LastIsLast, GpsReads
    <3>2. r = LastDispatched \/ r < LastDispatched
      BY <2>1, <3>1, GpsBounds
    <3>3. r < LastDispatched => last.at - request[r].at >= GpsInterval
      BY <2>1 DEF GpsInv, PointsAreTrue, PointsAreSpaced
    <3> QED
      BY <2>1, <3>1, <3>2, <3>3, GpsBounds
  <2>3. Restored = (IF last.end > 0 THEN last.end ELSE last.at) + GpsInterval
    BY <1>2 DEF Restored
  <2> HIDE DEF last
  <2>4. Restored \in 0..(MaxGpsClock + GpsInterval) /\ last.at + GpsInterval <= Restored
    BY <2>1, <2>3, GpsBounds
  <2>5. last.at \in Nat /\ Restored \in Nat /\ GpsInterval \in Nat
    BY <2>1, <2>4, GpsBounds
  <2>6. \A r \in Dispatched : request[r].at + GpsInterval <= Restored
    <3> SUFFICES ASSUME NEW r \in Dispatched PROVE request[r].at + GpsInterval <= Restored
      OBVIOUS
    <3>1. PICK at \in Nat : at = request[r].at /\ at <= last.at
      BY <2>2, GpsBounds
    <3>2. at + GpsInterval <= Restored
      BY <2>4, <2>5, <3>1
    <3> QED
      BY <3>1, <3>2
  <2> QED
    BY <2>4, <2>6
<1> QED
  BY <1>1, <1>2

\* The device row after an edit, or an observation of the power.
Devices == [rev : 0..MaxEdits, navigating : BOOLEAN, active : BOOLEAN, on : BOOLEAN, position : 0..MaxRequests, moved : 0..MaxEdits]
Callers == [pc : {"idle", "create"}, source : Sources, req : 0..MaxRequests, rev : 0..MaxEdits, started : {FALSE}]

EditedRow == /\ gDev' \in Devices /\ gDev.rev <= gDev'.rev
             /\ gDev'.rev = gDev.rev => gDev'.active = gDev.active
             /\ gDev'.position = ByOperator \/ (gDev'.position = gDev.position /\ gDev'.moved = gDev.moved)

\* A row is edited, or a producer has the phone: it may have consulted the
\* pacing, and has a row to propose from.
LEMMA ProducerKeeps ==
  ASSUME GpsInv, gClock' = gClock, EditedRow, request' = request, capture' = capture, gFaults' = gFaults,
         pacing' \in {pacing, Restored}, pacing = NotPaced \/ pacing' = pacing,
         gps' = gps \/ (gps' \in Callers /\ gps'.rev <= gDev'.rev /\ (gps'.pc = "create" => pacing' # NotPaced))
  PROVE  GpsInv'
<1>1. Dispatched' = Dispatched /\ LastDispatched' = LastDispatched
  BY RowsStay
<1>2. GpsTypeOK'
  <2>1. gps' \in [pc : {"idle", "create", "send", "answer"}, source : Sources, req : 0..MaxRequests, rev : 0..MaxEdits, started : BOOLEAN]
    <3>1. CASE gps' = gps
      BY <3>1 DEF GpsInv, GpsTypeOK
    <3>2. CASE gps' \in Callers
      BY <3>2 DEF Callers
    <3> QED
      BY <3>1, <3>2
  <2>2. pacing' \in -1..(MaxGpsClock + GpsInterval)
    BY RestoredIsLate, GpsReads, GpsBounds
  <2> QED
    BY <2>1, <2>2 DEF GpsInv, GpsTypeOK, EditedRow, Devices
<1>3. /\ gDev.rev \in Nat /\ gDev'.rev \in Nat /\ gps.rev \in Nat /\ \A r \in GpsRows : request[r].rev \in Nat
      /\ gps.rev <= gDev.rev /\ gDev.rev <= gDev'.rev
      /\ \A r \in GpsRows : request[r].rev <= gDev.rev
  BY GpsReads, GpsBounds DEF GpsInv, RowsFit, CallFits, EditedRow, Devices
<1>4. RowsFit' /\ CaptureFits'
  BY <1>1, <1>3 DEF GpsInv, RowsFit, CaptureFits
<1>5. CallFits'
  <2>1. CASE gps' = gps
    <3>1. gps.rev <= gDev'.rev
      BY <1>3
    <3> QED
      BY <2>1, <3>1 DEF GpsInv, CallFits
  <2>2. CASE gps' \in Callers /\ gps'.rev <= gDev'.rev
    <3>1. gps'.pc \in {"idle", "create"} /\ ~gps'.started
      BY <2>2 DEF Callers
    <3> QED
      BY <2>2, <3>1 DEF CallFits
  <2> QED
    BY <2>1, <2>2
<1>6. PacingFits'
  BY <1>1, RestoredIsLate DEF GpsInv, PacingFits, Callers
<1>7. ModelFollowsPoints'
  BY DEF EditedRow, GpsInv, PointsAreTrue, ModelFollowsPoints
<1>8. LostPointHolds'
  <2> SUFFICES ASSUME LastDispatched > 0, request[LastDispatched].status = "UNCONFIRMED", request[LastDispatched].moving,
                      gDev'.rev = request[LastDispatched].rev
               PROVE  ~gDev'.active
    BY <1>1 DEF LostPointHolds
  <2>1. LastDispatched \in GpsRows
    BY LastIsLast, GpsReads
  <2>2. gDev'.rev = gDev.rev
    BY <1>3, <2>1
  <2> QED
    BY <2>2 DEF EditedRow, GpsInv, PointsAreTrue, LostPointHolds
<1>9. PointsAreTrue'
  BY <1>1, <1>7, <1>8 DEF GpsInv, PointsAreTrue, PointsAreSpaced, StatusOfPoints
<1> QED
  BY <1>2, <1>4, <1>5, <1>6, <1>9 DEF GpsInv

LEMMA AnchorFits ==
  ASSUME GpsInv, gDev.rev < MaxEdits
  PROVE  /\ [AtAnchor(gDev) EXCEPT !.rev = gDev.rev + 1] \in Devices
         /\ [AtAnchor(gDev) EXCEPT !.rev = gDev.rev + 1].rev = gDev.rev + 1
         /\ [AtAnchor(gDev) EXCEPT !.rev = gDev.rev + 1].position = ByOperator
<1>1. gDev \in Devices /\ gDev.rev + 1 \in 0..MaxEdits
  BY GpsReads, GpsBounds DEF GpsInv, GpsTypeOK, Devices
<1> QED
  BY <1>1, GpsBounds DEF AtAnchor, Devices, ByOperator

LEMMA SaveAnchorKeeps == GpsInv /\ SaveAnchor => GpsInv'
<1> SUFFICES ASSUME GpsInv, SaveAnchor PROVE GpsInv'
  OBVIOUS
<1>1. /\ gDev.rev < MaxEdits /\ gDev' = [AtAnchor(gDev) EXCEPT !.rev = gDev.rev + 1] /\ gps.pc = "idle"
      /\ gClock' = gClock /\ request' = request /\ capture' = capture /\ gFaults' = gFaults
      /\ pacing' \in {pacing, Restored} /\ (pacing = NotPaced \/ pacing' = pacing)
  BY DEF SaveAnchor, Edit, GpsAt
<1>2. gDev' \in Devices /\ gDev'.rev = gDev.rev + 1 /\ gDev'.position = ByOperator /\ gDev.rev \in 0..MaxEdits /\ gDev'.rev \in 0..MaxEdits
  BY <1>1, AnchorFits, GpsReads DEF Devices
<1>3. EditedRow
  BY <1>2, GpsBounds DEF EditedRow
<1>4. Restored # NotPaced
  BY RestoredIsLate, GpsBounds DEF NotPaced
<1>5. gps' = gps \/ (gps' \in Callers /\ gps'.rev <= gDev'.rev /\ (gps'.pc = "create" => pacing' # NotPaced))
  <2>1. CASE gps' = gps
    BY <2>1
  <2>2. CASE gps' = [NoGps EXCEPT !.pc = "create", !.source = "ANCHOR", !.rev = gDev'.rev] /\ pacing' # NotPaced
    <3>1. gps' = [pc |-> "create", source |-> "ANCHOR", req |-> 0, rev |-> gDev'.rev, started |-> FALSE]
      BY <2>2 DEF NoGps
    <3>2. PICK rev \in 0..MaxEdits : rev = gDev'.rev
      BY <1>2
    <3>3. gps' \in Callers /\ gps'.rev = rev
      BY <3>1, <3>2, GpsBounds DEF Callers, Sources
    <3>4. rev <= gDev'.rev
      BY <3>2, GpsBounds
    <3> QED
      BY <2>2, <3>3, <3>4
  <2>3. GpsEligible("ANCHOR") => pacing' # NotPaced
    BY <1>4 DEF SaveAnchor
  <2> QED
    BY <2>1, <2>2, <2>3 DEF SaveAnchor
<1> QED
  BY <1>1, <1>3, <1>5, ProducerKeeps

LEMMA ProposeGpsKeeps == \A source \in {"JITTER", "QUEUE"} : GpsInv /\ ProposeGps(source) => GpsInv'
<1> SUFFICES ASSUME NEW source \in {"JITTER", "QUEUE"}, GpsInv, ProposeGps(source) PROVE GpsInv'
  OBVIOUS
<1>1. /\ gClock' = gClock /\ gDev' = gDev /\ request' = request /\ capture' = capture /\ gFaults' = gFaults
      /\ pacing' \in {pacing, Restored} /\ (pacing = NotPaced \/ pacing' = pacing)
  BY DEF ProposeGps
<1>2. EditedRow
  BY <1>1, GpsReads, GpsBounds DEF GpsInv, GpsTypeOK, EditedRow, Devices
<1>3. Restored # NotPaced
  BY RestoredIsLate, GpsBounds DEF NotPaced
<1>4. gps' \in Callers /\ gps'.rev <= gDev'.rev /\ (gps'.pc = "create" => pacing' # NotPaced)
  <2>1. gps' = [pc |-> "create", source |-> source, req |-> 0, rev |-> gDev.rev, started |-> FALSE] /\ pacing' # NotPaced
    BY <1>3 DEF ProposeGps, NoGps
  <2> QED
    BY <1>1, <2>1, GpsReads, GpsBounds DEF Callers, Sources
<1> QED
  BY <1>1, <1>2, <1>4, ProducerKeeps

\* The row changes under whatever call there is.
LEMMA EditKeeps ==
  ASSUME GpsInv, EditedRow, UNCHANGED <<gClock, gps, request, pacing, capture, gFaults>>
  PROVE  GpsInv'
BY ProducerKeeps

LEMMA RowStepsKeep == GpsInv /\ (ExpirePhone \/ EditRow \/ ToggleActive \/ PowerObserved) => GpsInv'
<1> SUFFICES ASSUME GpsInv, ExpirePhone \/ EditRow \/ ToggleActive \/ PowerObserved PROVE GpsInv'
  OBVIOUS
<1>1. gDev \in Devices /\ gDev.rev \in 0..MaxEdits /\ MaxEdits \in Nat
  BY GpsReads, GpsBounds DEF GpsInv, GpsTypeOK, Devices
<1>2. ASSUME NEW row \in Devices, Edit(row), row.position = ByOperator \/ (row.position = gDev.position /\ row.moved = gDev.moved)
      PROVE  EditedRow
  <2>1. gDev' = [row EXCEPT !.rev = gDev.rev + 1] /\ gDev.rev + 1 \in 0..MaxEdits /\ gDev.rev \in Nat
    BY <1>1, <1>2 DEF Edit
  <2>2. gDev' \in Devices /\ gDev'.rev = gDev.rev + 1 /\ gDev'.position = row.position /\ gDev'.moved = row.moved
    BY <2>1 DEF Devices
  <2>3. gDev.rev <= gDev'.rev /\ gDev'.rev # gDev.rev
    BY <2>1, <2>2
  <2> QED
    BY <1>2, <2>2, <2>3 DEF EditedRow
<1>3. CASE ExpirePhone
  <2>1. PICK row : row = [gDev EXCEPT !.navigating = FALSE, !.active = FALSE] /\ Edit(row)
    BY <1>3 DEF ExpirePhone
  <2>2. row \in Devices /\ row.position = gDev.position /\ row.moved = gDev.moved
    BY <1>1, <2>1 DEF Devices
  <2> QED
    BY <1>2, <1>3, <2>1, <2>2, EditKeeps DEF ExpirePhone
<1>4. CASE EditRow
  <2>1. CASE \E navigating \in BOOLEAN : Edit([gDev EXCEPT !.navigating = navigating])
    <3>1. PICK navigating \in BOOLEAN : Edit([gDev EXCEPT !.navigating = navigating])
      BY <2>1
    <3>2. PICK row : row = [gDev EXCEPT !.navigating = navigating] /\ Edit(row)
      BY <3>1
    <3>3. row \in Devices /\ row.position = gDev.position /\ row.moved = gDev.moved
      BY <1>1, <3>2 DEF Devices
    <3> QED
      BY <1>2, <1>4, <3>2, <3>3, EditKeeps DEF EditRow, RowOnly
  <2>2. CASE Edit([AtAnchor(gDev) EXCEPT !.active = TRUE])
    <3>1. PICK row : row = [AtAnchor(gDev) EXCEPT !.active = TRUE] /\ Edit(row)
      BY <2>2
    <3>2. gDev.rev + 1 \in 0..MaxEdits
      BY <1>1, <3>1 DEF Edit
    <3>3. row \in Devices /\ row.position = ByOperator
      BY <1>1, <3>1, <3>2, GpsBounds DEF AtAnchor, Devices, ByOperator
    <3> QED
      BY <1>2, <1>4, <3>1, <3>3, EditKeeps DEF EditRow, RowOnly
  <2> QED
    BY <1>4, <2>1, <2>2 DEF EditRow
<1>5. CASE ToggleActive
  <2>1. PICK row : row = [gDev EXCEPT !.active = ~gDev.active] /\ Edit(row)
    BY <1>5 DEF ToggleActive
  <2>2. row \in Devices /\ row.position = gDev.position /\ row.moved = gDev.moved
    BY <1>1, <2>1 DEF Devices
  <2> QED
    BY <1>2, <1>5, <2>1, <2>2, EditKeeps DEF ToggleActive, RowOnly
<1>6. CASE PowerObserved
  <2>1. gDev' = [gDev EXCEPT !.on = ~gDev.on]
    BY <1>6 DEF PowerObserved
  <2>2. /\ gDev' \in Devices /\ gDev'.rev = gDev.rev /\ gDev'.active = gDev.active
        /\ gDev'.position = gDev.position /\ gDev'.moved = gDev.moved
    BY <1>1, <2>1 DEF Devices
  <2>3. EditedRow
    BY <1>1, <2>2 DEF EditedRow
  <2> QED
    BY <1>6, <2>3, EditKeeps DEF PowerObserved, RowOnly
<1> QED
  BY <1>3, <1>4, <1>5, <1>6

LEMMA CreateRequestKeeps == GpsInv /\ CreateRequest => GpsInv'
<1> SUFFICES ASSUME GpsInv, CreateRequest PROVE GpsInv'
  OBVIOUS
<1>1. PICK r \in GpsRows :
        /\ request[r].status = "NONE" /\ \A q \in 1..(r - 1) : request[q].status # "NONE"
        /\ request' = [request EXCEPT ![r] = [NoGpsRequest EXCEPT !.status = "REQUESTED", !.rev = gps.rev, !.moving = gps.source # "ANCHOR"]]
        /\ gps' = [gps EXCEPT !.pc = "send", !.req = r]
  BY DEF CreateRequest
<1> DEFINE row == [NoGpsRequest EXCEPT !.status = "REQUESTED", !.rev = gps.rev, !.moving = gps.source # "ANCHOR"]
<1>2. request' = [request EXCEPT ![r] = row]
  BY <1>1
<1>3. UNCHANGED <<gClock, gDev, pacing, capture, gFaults>> /\ gps.pc = "create"
  BY DEF CreateRequest, GpsAt
<1>4. row \in Rows
  BY GpsReads, GpsBounds DEF Rows, NoGpsRequest
<1>5. row.status = "REQUESTED" /\ row.at = 0 /\ row.end = 0 /\ row.rev = gps.rev /\ row.seen = 0
  BY DEF NoGpsRequest
<1> HIDE DEF row
<1>6. /\ request' \in [GpsRows -> Rows] /\ request'[r] = row /\ \A q \in GpsRows : q # r => request'[q] = request[q]
  BY <1>2, <1>4, GpsReads
<1>7. gps'.pc = "send" /\ gps'.req = r /\ gps'.rev = gps.rev /\ gps'.source = gps.source /\ gps'.started = gps.started
  BY <1>1, GpsReads DEF GpsInv, GpsTypeOK
<1>8. request[r].at = 0 /\ r \notin Dispatched
  BY <1>1 DEF GpsInv, RowsFit, Dispatched
<1>9. Dispatched' = Dispatched
  BY <1>5, <1>6, <1>8 DEF Dispatched
<1>10. LastDispatched' = LastDispatched
  BY <1>9 DEF LastDispatched
<1>11. gps.rev \in 0..MaxEdits /\ gDev.rev \in 0..MaxEdits /\ gps.rev <= gDev.rev /\ gClock \in Nat
  BY GpsReads, GpsBounds DEF GpsInv, CallFits
<1>12. GpsTypeOK'
  <2>1. gps' \in [pc : {"idle", "create", "send", "answer"}, source : Sources, req : 0..MaxRequests, rev : 0..MaxEdits, started : BOOLEAN]
    BY <1>1, GpsBounds DEF GpsInv, GpsTypeOK
  <2>2. gDev' = gDev /\ gClock' = gClock /\ pacing' = pacing /\ capture' = capture /\ gFaults' = gFaults
    BY <1>3
  <2> QED
    BY <1>6, <2>1, <2>2 DEF GpsInv, GpsTypeOK, Rows
<1>13. \A q \in GpsRows : q > r => request'[q].status = "NONE"
  BY <1>1, <1>6, GpsBounds DEF GpsInv, RowsFit
<1>14. RowsFit'
  <2> SUFFICES ASSUME NEW q \in GpsRows
               PROVE  /\ request'[q].status = "NONE" => request'[q].at = 0 /\ \A p \in GpsRows : p > q => request'[p].status = "NONE"
                      /\ request'[q].at <= gClock /\ request'[q].end <= gClock
                      /\ request'[q].end = 0 \/ request'[q].at <= request'[q].end
                      /\ request'[q].status \in {"REQUESTED", "DISPATCHED"} => request'[q].end = 0
                      /\ request'[q].rev <= gDev.rev
    BY <1>3 DEF RowsFit
  <2>1. CASE q = r
    BY <1>5, <1>6, <1>11, <2>1
  <2>2. CASE q # r
    <3>1. ASSUME request[q].status = "NONE" PROVE q > r
      <4>1. ~(q < r)
        BY <1>1, <3>1 DEF GpsRows
      <4> QED
        BY <2>2, <4>1, GpsBounds
    <3>2. \A p \in GpsRows : p > q /\ q > r => p > r
      BY GpsBounds
    <3> QED
      BY <1>6, <1>13, <2>2, <3>1, <3>2 DEF GpsInv, RowsFit
  <2> QED
    BY <2>1, <2>2
<1>15. CallFits'
  BY <1>3, <1>5, <1>6, <1>7, <1>11, <1>13 DEF GpsInv, CallFits
<1>16. PacingFits' /\ CaptureFits'
  BY <1>3, <1>6, <1>8, <1>9 DEF GpsInv, PacingFits, CaptureFits, Dispatched
<1>17. PointsAreTrue'
  <2>1. PointsAreSpaced'
    BY <1>6, <1>8, <1>9 DEF GpsInv, PointsAreTrue, PointsAreSpaced, Dispatched
  <2>2. StatusOfPoints'
    BY <1>5, <1>6 DEF GpsInv, PointsAreTrue, StatusOfPoints
  <2>3. ModelFollowsPoints'
    <3>1. gDev.position # r
      BY <1>1, GpsBounds DEF GpsInv, PointsAreTrue, ModelFollowsPoints, ByOperator
    <3>2. gDev.position # ByOperator => gDev.position \in GpsRows
      BY GpsReads, GpsBounds DEF ByOperator, GpsRows
    <3> QED
      BY <1>3, <1>6, <3>1, <3>2 DEF GpsInv, PointsAreTrue, ModelFollowsPoints
  <2>4. LostPointHolds'
    <3>1. LastDispatched > 0 => LastDispatched \in GpsRows /\ LastDispatched # r
      BY <1>8, LastIsLast, GpsReads
    <3> QED
      BY <1>3, <1>6, <1>10, <3>1 DEF GpsInv, PointsAreTrue, LostPointHolds
  <2>5. \A q \in GpsRows : request'[q].seen <= q
    BY <1>5, <1>6, GpsBounds DEF GpsInv, PointsAreTrue
  <2> QED
    BY <2>1, <2>2, <2>3, <2>4, <2>5 DEF PointsAreTrue
<1> QED
  BY <1>12, <1>14, <1>15, <1>16, <1>17 DEF GpsInv

\* The call under way has the last row, which was not sent yet, or is the last point.
LEMMA CallReads ==
  ASSUME GpsInv, gps.pc \in {"send", "answer"}
  PROVE  /\ gps.req \in GpsRows /\ request[gps.req] \in Rows /\ request[gps.req].rev = gps.rev /\ gps.rev <= gDev.rev
         /\ gps.pc = "send" => request[gps.req].status = "REQUESTED" /\ request[gps.req].at = 0 /\ gps.req \notin Dispatched
         /\ gps.pc = "answer" => request[gps.req].status = "DISPATCHED" /\ request[gps.req].at > 0 /\ LastDispatched = gps.req
         /\ \A q \in Dispatched : q <= gps.req
<1>1. /\ gps.req \in GpsRows /\ request[gps.req].rev = gps.rev /\ gps.rev <= gDev.rev
      /\ \A q \in GpsRows : q > gps.req => request[q].status = "NONE"
      /\ request[gps.req].status = IF gps.pc = "send" THEN "REQUESTED" ELSE "DISPATCHED"
  BY DEF GpsInv, CallFits
<1>2. \A q \in Dispatched : q <= gps.req
  <2> SUFFICES ASSUME NEW q \in Dispatched PROVE q <= gps.req
    OBVIOUS
  <2>1. q \in GpsRows /\ request[q].status # "NONE"
    BY DEF Dispatched, GpsInv, RowsFit
  <2>2. q \in Nat /\ gps.req \in Nat
    BY <1>1, <2>1, GpsBounds
  <2>3. ~(q > gps.req)
    BY <1>1, <2>1
  <2> QED
    BY <2>2, <2>3
<1>3. gps.pc = "send" => request[gps.req].at = 0 /\ gps.req \notin Dispatched
  BY <1>1 DEF GpsInv, PointsAreTrue, StatusOfPoints, Dispatched
<1>4. gps.pc = "answer" => request[gps.req].at > 0 /\ gps.req \in Dispatched
  BY <1>1 DEF GpsInv, PointsAreTrue, StatusOfPoints, Dispatched
<1> QED
  BY <1>1, <1>2, <1>3, <1>4, GpsReads, LastIsLast

\* A point leaves when an interval has passed since any other.
LEMMA DispatchPointKeeps == GpsInv /\ DispatchPoint => GpsInv'
<1> SUFFICES ASSUME GpsInv, DispatchPoint PROVE GpsInv'
  OBVIOUS
<1>0. PICK r \in GpsRows : r = gps.req
  BY CallReads DEF DispatchPoint, GpsAt
<1>1. /\ gps.pc = "send" /\ pacing <= gClock
      /\ request' = [request EXCEPT ![r].status = "DISPATCHED", ![r].at = gClock]
      /\ pacing' = gClock + GpsInterval
      /\ gps' = [gps EXCEPT !.pc = "answer", !.started = TRUE]
      /\ gDev' = gDev /\ gClock' = gClock /\ capture' = capture /\ gFaults' = gFaults
  BY <1>0 DEF DispatchPoint, GpsAt, IsDue
<1>2. gClock \in 1..MaxGpsClock /\ gClock \in 0..MaxGpsClock /\ gClock \in Nat /\ gClock > 0
  BY GpsReads, GpsBounds
<1>3. request[r] \in Rows /\ request[r].rev = gps.rev /\ request[r].at = 0 /\ r \notin Dispatched
  BY <1>0, <1>1, CallReads
<1>4. PICK row \in Rows : /\ request' = [request EXCEPT ![r] = row]
                          /\ row.status = "DISPATCHED" /\ row.at = gClock
                          /\ row.end = request[r].end /\ row.rev = request[r].rev /\ row.moving = request[r].moving /\ row.seen = request[r].seen
  <2> DEFINE sent == [request[r] EXCEPT !.status = "DISPATCHED", !.at = gClock]
  <2>1. sent \in Rows /\ sent.status = "DISPATCHED" /\ sent.at = gClock
        /\ sent.end = request[r].end /\ sent.rev = request[r].rev /\ sent.moving = request[r].moving /\ sent.seen = request[r].seen
    BY <1>2, <1>3 DEF Rows
  <2>2. request' = [request EXCEPT ![r] = sent]
    BY <1>1, GpsReads
  <2> HIDE DEF sent
  <2> QED
    BY <2>1, <2>2
<1>5. /\ request' \in [GpsRows -> Rows] /\ request'[r] = row /\ \A q \in GpsRows : q # r => request'[q] = request[q]
  BY <1>4, GpsReads
<1>6. gps'.pc = "answer" /\ gps'.req = r /\ gps'.rev = gps.rev /\ gps'.started = TRUE
  BY <1>0, <1>1 DEF GpsInv, GpsTypeOK
<1>7. Dispatched' = Dispatched \cup {r}
  BY <1>2, <1>4, <1>5 DEF Dispatched
<1>8. \A q \in Dispatched : q <= r /\ q # r /\ q \in GpsRows
  BY <1>0, <1>1, <1>3, CallReads, GpsReads
<1>9. LastDispatched' = r
  <2>1. \A q \in Dispatched' : q <= r
    BY <1>7, <1>8, GpsBounds
  <2>2. \A s \in Dispatched' : (\A q \in Dispatched' : q <= s) => s = r
    <3> SUFFICES ASSUME NEW s \in Dispatched', \A q \in Dispatched' : q <= s PROVE s = r
      OBVIOUS
    <3>1. s <= r /\ r <= s /\ s \in Nat /\ r \in Nat
      BY <1>7, <1>8, <2>1, GpsBounds
    <3> QED
      BY <3>1
  <2> QED
    BY <1>7, <2>1, <2>2 DEF LastDispatched
<1>10. request[r].end = 0 /\ request[r].status = "REQUESTED"
  <2>1. request[r].status = "REQUESTED"
    BY <1>0, <1>1, CallReads
  <2> QED
    BY <2>1 DEF GpsInv, RowsFit
<1>11. GpsTypeOK'
  <2>1. gps' \in [pc : {"idle", "create", "send", "answer"}, source : Sources, req : 0..MaxRequests, rev : 0..MaxEdits, started : BOOLEAN]
    BY <1>1 DEF GpsInv, GpsTypeOK
  <2>2. pacing' \in -1..(MaxGpsClock + GpsInterval)
    BY <1>1, <1>2, GpsBounds
  <2> QED
    BY <1>1, <1>5, <2>1, <2>2 DEF GpsInv, GpsTypeOK, Rows
<1>12. RowsFit'
  <2> SUFFICES ASSUME NEW q \in GpsRows
               PROVE  /\ request'[q].status = "NONE" => request'[q].at = 0 /\ \A p \in GpsRows : p > q => request'[p].status = "NONE"
                      /\ request'[q].at <= gClock /\ request'[q].end <= gClock
                      /\ request'[q].end = 0 \/ request'[q].at <= request'[q].end
                      /\ request'[q].status \in {"REQUESTED", "DISPATCHED"} => request'[q].end = 0
                      /\ request'[q].rev <= gDev.rev
    BY <1>1 DEF RowsFit
  <2>1. CASE q = r
    <3>1. gps.rev <= gDev.rev /\ gClock <= gClock /\ 0 <= gClock
      BY <1>2 DEF GpsInv, CallFits
    <3> QED
      BY <1>3, <1>4, <1>5, <1>10, <2>1, <3>1
  <2>2. CASE q # r
    BY <1>5, <1>10, <2>2 DEF GpsInv, RowsFit
  <2> QED
    BY <2>1, <2>2
<1>13. CallFits'
  BY <1>0, <1>1, <1>3, <1>4, <1>5, <1>6, GpsBounds DEF GpsInv, CallFits
<1>14. PacingFits' /\ CaptureFits'
  <2>1. pacing' # NotPaced
    BY <1>1, <1>2, GpsBounds DEF NotPaced
  <2>2. \A q \in Dispatched' : request'[q].at + GpsInterval <= pacing'
    <3> SUFFICES ASSUME NEW q \in Dispatched' PROVE request'[q].at + GpsInterval <= pacing'
      OBVIOUS
    <3>1. CASE q = r
      BY <1>1, <1>2, <1>4, <1>5, <3>1, GpsBounds
    <3>2. CASE q # r
      <4>1. q \in GpsRows /\ request'[q] = request[q] /\ request[q].at \in 0..MaxGpsClock /\ request[q].at <= gClock
        BY <1>5, <1>7, <1>8, <3>2, GpsReads DEF GpsInv, RowsFit
      <4> QED
        BY <1>1, <1>2, <4>1, GpsBounds
    <3> QED
      BY <3>1, <3>2
  <2> QED
    BY <1>1, <1>7, <2>1, <2>2 DEF GpsInv, PacingFits, CaptureFits
<1>15. PointsAreTrue'
  <2>1. \A q \in Dispatched : /\ request'[q].at = request[q].at /\ request[q].at \in 0..MaxGpsClock
                              /\ request'[r].at - request[q].at >= GpsInterval
    <3> SUFFICES ASSUME NEW q \in Dispatched
                 PROVE  /\ request'[q].at = request[q].at /\ request[q].at \in 0..MaxGpsClock
                        /\ request'[r].at - request[q].at >= GpsInterval
      OBVIOUS
    <3>1. request[q].at + GpsInterval <= pacing /\ request'[q] = request[q] /\ request[q].at \in 0..MaxGpsClock
      BY <1>1, <1>5, <1>8, GpsReads DEF GpsInv, PacingFits
    <3>2. request'[r].at = gClock /\ pacing <= gClock /\ pacing \in Int
      BY <1>1, <1>4, <1>5, GpsReads, GpsBounds
    <3> QED
      BY <1>2, <3>1, <3>2, GpsBounds
  <2>2. PointsAreSpaced'
    <3> SUFFICES ASSUME NEW a \in Dispatched', NEW b \in Dispatched', a < b PROVE request'[b].at - request'[a].at >= GpsInterval
      BY DEF PointsAreSpaced
    <3>1. a \in Dispatched
      <4>0. a \in Nat /\ b \in Nat /\ r \in Nat
        BY <1>7, <1>8, GpsBounds
      <4>1. b <= r
        BY <1>7, <1>8, <4>0
      <4>2. a # r
        BY <4>0, <4>1
      <4> QED
        BY <1>7, <4>2
    <3>2. CASE b = r
      BY <2>1, <3>1, <3>2
    <3>3. CASE b # r
      BY <1>7, <2>1, <3>1, <3>3 DEF GpsInv, PointsAreTrue, PointsAreSpaced
    <3> QED
      BY <3>2, <3>3
  <2>3. StatusOfPoints'
    BY <1>2, <1>4, <1>5 DEF GpsInv, PointsAreTrue, StatusOfPoints
  <2>4. ModelFollowsPoints'
    <3>1. request[r].status # "API_ACCEPTED"
      BY <1>0, <1>1, CallReads
    <3>2. gDev.position # r
      BY <3>1, GpsBounds DEF GpsInv, PointsAreTrue, ModelFollowsPoints, ByOperator
    <3>3. gDev.position # ByOperator => gDev.position \in GpsRows
      BY GpsReads, GpsBounds DEF ByOperator, GpsRows
    <3> QED
      BY <1>1, <1>5, <3>2, <3>3 DEF GpsInv, PointsAreTrue, ModelFollowsPoints
  <2>5. LostPointHolds'
    BY <1>4, <1>5, <1>9 DEF LostPointHolds
  <2>6. \A q \in GpsRows : request'[q].seen <= q
    BY <1>4, <1>5 DEF GpsInv, PointsAreTrue
  <2> QED
    BY <2>2, <2>3, <2>4, <2>5, <2>6 DEF PointsAreTrue
<1> QED
  BY <1>11, <1>12, <1>13, <1>14, <1>15 DEF GpsInv

\* The pacing starts again with the end of the call.
LEMMA FinishedFits ==
  ASSUME GpsInv, Finished, Dispatched' = Dispatched, \A q \in Dispatched : request'[q].at = request[q].at
  PROVE  /\ PacingFits' /\ pacing' \in -1..(MaxGpsClock + GpsInterval)
         /\ gps' = NoGps /\ gps'.pc = "idle" /\ gps'.rev = 0 /\ gps'.started = FALSE
         /\ gps' \in [pc : {"idle", "create", "send", "answer"}, source : Sources, req : 0..MaxRequests, rev : 0..MaxEdits, started : BOOLEAN]
<1>1. pacing' = gClock + GpsInterval /\ gClock \in 1..MaxGpsClock
  BY GpsReads DEF Finished
<1>2. pacing' \in -1..(MaxGpsClock + GpsInterval)
  BY <1>1, GpsBounds
<1>3. /\ gps' = NoGps /\ gps'.pc = "idle" /\ gps'.rev = 0 /\ gps'.started = FALSE
      /\ gps' \in [pc : {"idle", "create", "send", "answer"}, source : Sources, req : 0..MaxRequests, rev : 0..MaxEdits, started : BOOLEAN]
  BY GpsBounds DEF Finished, NoGps, Sources
<1>4. \A q \in Dispatched : request[q].at + GpsInterval <= pacing'
  <2> SUFFICES ASSUME NEW q \in Dispatched PROVE request[q].at + GpsInterval <= pacing'
    OBVIOUS
  <2>1. request[q].at \in 0..MaxGpsClock /\ request[q].at <= gClock
    BY GpsReads DEF GpsInv, RowsFit
  <2> QED
    BY <1>1, <2>1, GpsBounds
<1>5. PacingFits'
  BY <1>3, <1>4 DEF PacingFits
<1> QED
  BY <1>2, <1>3, <1>5

\* A call ends without a word in the rows.
LEMMA FailureKeeps ==
  ASSUME GpsInv, Finished, gClock' = gClock, gDev' = gDev, request' = request, capture' = capture, gFaults' \in 0..MaxGpsFaults
  PROVE  GpsInv'
<1>1. Dispatched' = Dispatched /\ LastDispatched' = LastDispatched
  BY RowsStay
<1>0. \A q \in Dispatched : request'[q].at = request[q].at
  OBVIOUS
<1>a. /\ PacingFits' /\ pacing' \in -1..(MaxGpsClock + GpsInterval)
      /\ gps' \in [pc : {"idle", "create", "send", "answer"}, source : Sources, req : 0..MaxRequests, rev : 0..MaxEdits, started : BOOLEAN]
      /\ gps'.pc = "idle" /\ gps'.rev = 0 /\ gps'.started = FALSE
  BY <1>0, <1>1, FinishedFits
<1>2. GpsTypeOK'
  BY <1>a DEF GpsInv, GpsTypeOK
<1>3. CallFits'
  BY <1>a, GpsReads, GpsBounds DEF CallFits
<1>4. RowsFit' /\ CaptureFits' /\ PointsAreTrue'
  BY <1>1 DEF GpsInv, RowsFit, CaptureFits, PointsAreTrue, PointsAreSpaced, StatusOfPoints, ModelFollowsPoints, LostPointHolds
<1> QED
  BY <1>a, <1>2, <1>3, <1>4 DEF GpsInv

\* An answer moves the model only if the row is the one proposed from, and an
\* unconfirmed point holds a moving phone then.
LEMMA CompletionKeeps ==
  ASSUME GpsInv, gps.pc \in {"send", "answer"}, NEW status \in Completions,
         gps.pc = "send" => status \in {"SKIPPED", "FAILED"},
         gps.pc = "answer" => status \in {"API_ACCEPTED", "API_REJECTED", "UNCONFIRMED"},
         Completed(status), Finished, gClock' = gClock, capture' = capture, gFaults' = gFaults
  PROVE  GpsInv'
<1>0. PICK r \in GpsRows : r = gps.req
  BY CallReads
<1>1. request' = [request EXCEPT ![r].status = status, ![r].end = gClock]
  BY <1>0 DEF Completed
<1>2. gClock \in 0..MaxGpsClock /\ gClock \in Nat /\ gClock > 0
  BY GpsReads, GpsBounds
<1>3. /\ request[r] \in Rows /\ request[r].rev = gps.rev /\ gps.rev <= gDev.rev
      /\ request[r].status \notin {"NONE", "API_ACCEPTED", "UNCONFIRMED"}
      /\ gps.pc = "send" => request[r].at = 0 /\ r \notin Dispatched
      /\ gps.pc = "answer" => request[r].at > 0 /\ LastDispatched = r
  BY <1>0, CallReads
<1>4. PICK row \in Rows : /\ request' = [request EXCEPT ![r] = row]
                          /\ row.status = status /\ row.end = gClock
                          /\ row.at = request[r].at /\ row.rev = request[r].rev /\ row.moving = request[r].moving /\ row.seen = request[r].seen
  <2> DEFINE done == [request[r] EXCEPT !.status = status, !.end = gClock]
  <2>1. done \in Rows /\ done.status = status /\ done.end = gClock
        /\ done.at = request[r].at /\ done.rev = request[r].rev /\ done.moving = request[r].moving /\ done.seen = request[r].seen
    BY <1>2, <1>3 DEF Rows
  <2>2. request' = [request EXCEPT ![r] = done]
    BY <1>1, GpsReads
  <2> HIDE DEF done
  <2> QED
    BY <2>1, <2>2
<1>5. /\ request' \in [GpsRows -> Rows] /\ request'[r] = row /\ \A q \in GpsRows : q # r => request'[q] = request[q]
  BY <1>4, GpsReads
<1>6. \A q \in GpsRows : /\ request'[q].at = request[q].at /\ request'[q].rev = request[q].rev
                         /\ request'[q].moving = request[q].moving /\ request'[q].seen = request[q].seen
  BY <1>4, <1>5
<1>7. Dispatched' = Dispatched /\ LastDispatched' = LastDispatched
  <2>1. Dispatched' = {q \in GpsRows : request'[q].at > 0}
    BY DEF Dispatched
  <2>2. Dispatched' = Dispatched
    BY <1>6, <2>1 DEF Dispatched
  <2> QED
    BY <2>2 DEF LastDispatched
<1>8. /\ PacingFits' /\ pacing' \in -1..(MaxGpsClock + GpsInterval)
      /\ gps' = NoGps /\ gps'.pc = "idle" /\ gps'.rev = 0 /\ gps'.started = FALSE
      /\ gps' \in [pc : {"idle", "create", "send", "answer"}, source : Sources, req : 0..MaxRequests, rev : 0..MaxEdits, started : BOOLEAN]
  BY <1>6, <1>7, FinishedFits, GpsReads
<1>9. \/ /\ status = "API_ACCEPTED" /\ gDev.rev = gps.rev
         /\ \E arrived \in BOOLEAN : gDev' = [gDev EXCEPT !.position = r, !.moved = gDev.rev, !.navigating = @ /\ ~arrived]
      \/ /\ status # "API_ACCEPTED" /\ gDev' = [gDev EXCEPT !.active = FALSE]
      \/ /\ gDev' = gDev
         /\ status = "UNCONFIRMED" /\ request[r].moving /\ LastDispatched = r => gDev.rev # gps.rev
  BY <1>0 DEF Completed, StillProposed, Advances
<1>10. gDev \in Devices
  BY DEF GpsInv, GpsTypeOK, Devices
<1>11. /\ gDev' \in Devices /\ gDev'.rev = gDev.rev
       /\ gDev'.active => gDev' = gDev \/ status = "API_ACCEPTED"
       /\ gDev'.active => gDev.active
       /\ \/ gDev'.position = gDev.position /\ gDev'.moved = gDev.moved
          \/ status = "API_ACCEPTED" /\ gDev'.position = r /\ gDev'.moved = request[r].rev
  <2>1. CASE /\ status = "API_ACCEPTED" /\ gDev.rev = gps.rev
             /\ \E arrived \in BOOLEAN : gDev' = [gDev EXCEPT !.position = r, !.moved = gDev.rev, !.navigating = @ /\ ~arrived]
    <3>1. PICK navigating \in BOOLEAN : gDev' = [gDev EXCEPT !.position = r, !.moved = gDev.rev, !.navigating = navigating]
      BY <2>1
    <3>2. r \in 0..MaxRequests
      BY GpsBounds
    <3>3. gDev' \in Devices /\ gDev'.rev = gDev.rev /\ gDev'.active = gDev.active /\ gDev'.position = r /\ gDev'.moved = gDev.rev
      BY <1>10, <3>1, <3>2 DEF Devices
    <3> QED
      BY <1>3, <2>1, <3>3
  <2>2. CASE gDev' = [gDev EXCEPT !.active = FALSE]
    <3>1. gDev' \in Devices /\ gDev'.rev = gDev.rev /\ ~gDev'.active /\ gDev'.position = gDev.position /\ gDev'.moved = gDev.moved
      BY <1>10, <2>2 DEF Devices
    <3> QED
      BY <3>1
  <2>3. CASE gDev' = gDev
    BY <1>10, <2>3
  <2> QED
    BY <1>9, <2>1, <2>2, <2>3
<1>12. GpsTypeOK'
  BY <1>5, <1>8, <1>11 DEF GpsInv, GpsTypeOK, Rows, Devices
<1>13. RowsFit'
  <2> SUFFICES ASSUME NEW q \in GpsRows
               PROVE  /\ request'[q].status = "NONE" => request'[q].at = 0 /\ \A p \in GpsRows : p > q => request'[p].status = "NONE"
                      /\ request'[q].at <= gClock /\ request'[q].end <= gClock
                      /\ request'[q].end = 0 \/ request'[q].at <= request'[q].end
                      /\ request'[q].status \in {"REQUESTED", "DISPATCHED"} => request'[q].end = 0
                      /\ request'[q].rev <= gDev.rev
    BY <1>11 DEF RowsFit
  <2>1. CASE q = r
    <3>1. gClock <= gClock /\ request[r].at <= gClock
      BY <1>2 DEF GpsInv, RowsFit
    <3> QED
      BY <1>3, <1>4, <1>5, <2>1, <3>1 DEF Completions
  <2>2. CASE q # r
    BY <1>3, <1>5, <2>2 DEF GpsInv, RowsFit
  <2> QED
    BY <2>1, <2>2
<1>14. CallFits' /\ CaptureFits'
  <2>1. 0 <= gDev'.rev
    BY <1>11, GpsReads, GpsBounds
  <2> QED
    BY <1>7, <1>8, <2>1 DEF CallFits, CaptureFits, GpsInv
<1>15. PointsAreTrue'
  <2>1. PointsAreSpaced'
    BY <1>6, <1>7, GpsReads DEF GpsInv, PointsAreTrue, PointsAreSpaced
  <2>2. StatusOfPoints'
    <3>1. request'[r].at = request[r].at /\ request'[r].status = status
      BY <1>4, <1>5
    <3> QED
      BY <1>3, <1>5, <3>1 DEF GpsInv, PointsAreTrue, StatusOfPoints
  <2>3. ModelFollowsPoints'
    <3>1. gDev.position # r
      BY <1>3, GpsBounds DEF GpsInv, PointsAreTrue, ModelFollowsPoints, ByOperator
    <3>2. gDev.position # ByOperator => gDev.position \in GpsRows
      BY GpsReads, GpsBounds DEF ByOperator, GpsRows
    <3> QED
      BY <1>4, <1>5, <1>11, <3>1, <3>2 DEF GpsInv, PointsAreTrue, ModelFollowsPoints
  <2>4. LostPointHolds'
    <3> SUFFICES ASSUME LastDispatched > 0, request'[LastDispatched].status = "UNCONFIRMED", request'[LastDispatched].moving,
                        gDev.rev = request'[LastDispatched].rev, gDev'.active
                 PROVE  FALSE
      BY <1>7, <1>11 DEF LostPointHolds
    <3>1. LastDispatched \in Dispatched /\ LastDispatched \in GpsRows
      BY LastIsLast, GpsReads
    <3>2. CASE gps.pc = "send"
      BY <1>3, <1>5, <1>11, <3>1, <3>2 DEF GpsInv, PointsAreTrue, LostPointHolds
    <3>3. CASE gps.pc = "answer"
      <4>1. status = "UNCONFIRMED" /\ request[r].moving /\ gDev.rev = gps.rev /\ LastDispatched = r
        BY <1>3, <1>4, <1>5, <3>3
      <4>2. gDev' = [gDev EXCEPT !.active = FALSE]
        BY <1>9, <4>1
      <4> QED
        BY <1>10, <4>2 DEF Devices
    <3> QED
      BY <3>2, <3>3
  <2>5. \A q \in GpsRows : request'[q].seen <= q
    BY <1>6 DEF GpsInv, PointsAreTrue
  <2> QED
    BY <2>1, <2>2, <2>3, <2>4, <2>5 DEF PointsAreTrue
<1> QED
  BY <1>8, <1>12, <1>13, <1>14, <1>15 DEF GpsInv

LEMMA AnswerPointKeeps == GpsInv /\ AnswerPoint => GpsInv'
<1> SUFFICES ASSUME GpsInv, AnswerPoint PROVE GpsInv'
  OBVIOUS
<1>1. PICK status \in {"API_ACCEPTED", "API_REJECTED", "UNCONFIRMED"} : Completed(status)
  BY DEF AnswerPoint
<1> QED
  BY <1>1, CompletionKeeps DEF AnswerPoint, GpsAt, Completions

LEMMA CatchPointKeeps == GpsInv /\ CatchPoint => GpsInv'
<1> SUFFICES ASSUME GpsInv, CatchPoint PROVE GpsInv'
  OBVIOUS
<1>1. CASE \E status \in CaughtAs : Completed(status) /\ UNCHANGED gFaults
  <2>1. PICK status \in CaughtAs : Completed(status) /\ gFaults' = gFaults
    BY <1>1
  <2>2. gps.started <=> gps.pc = "answer"
    BY DEF GpsInv, CallFits
  <2>3. status \in Completions /\ (gps.pc = "send" => status \in {"SKIPPED", "FAILED"}) /\ (gps.pc = "answer" => status = "UNCONFIRMED")
    BY <2>1, <2>2 DEF CaughtAs, Completions
  <2> QED
    BY <2>1, <2>3, CompletionKeeps DEF CatchPoint
<1>2. CASE gFaults < MaxGpsFaults /\ gFaults' = gFaults + 1 /\ UNCHANGED <<gDev, request>>
  <2>1. gFaults' \in 0..MaxGpsFaults
    BY <1>2, GpsReads, GpsBounds
  <2> QED
    BY <1>2, <2>1, FailureKeeps DEF CatchPoint
<1> QED
  BY <1>1, <1>2 DEF CatchPoint

-----------------------------------------------------------------------------
LEMMA GpsClockTicksKeeps == GpsInv /\ GpsClockTicks => GpsInv'
<1> SUFFICES ASSUME GpsInv, GpsClockTicks PROVE GpsInv'
  OBVIOUS
<1>1. /\ gClock < MaxGpsClock /\ gClock' = gClock + 1 /\ gDev' = gDev /\ gps' = gps /\ request' = request
      /\ pacing' = pacing /\ capture' = capture /\ gFaults' = gFaults
  BY DEF GpsClockTicks
<1>2. Dispatched' = Dispatched /\ LastDispatched' = LastDispatched
  BY <1>1, RowsStay
<1>3. gClock' \in 1..MaxGpsClock
  BY <1>1, GpsReads, GpsBounds
<1>4. \A r \in GpsRows : request[r].at <= gClock' /\ request[r].end <= gClock'
  <2> SUFFICES ASSUME NEW r \in GpsRows PROVE request[r].at <= gClock' /\ request[r].end <= gClock'
    OBVIOUS
  <2>1. request[r].at \in Nat /\ request[r].end \in Nat /\ request[r].at <= gClock /\ request[r].end <= gClock
    BY GpsReads, GpsBounds DEF GpsInv, RowsFit
  <2> QED
    BY <1>1, <2>1, GpsReads, GpsBounds
<1>5. GpsTypeOK'
  BY <1>1, <1>3 DEF GpsInv, GpsTypeOK
<1>6. RowsFit'
  BY <1>1, <1>4 DEF GpsInv, RowsFit
<1>7. CallFits' /\ PacingFits' /\ CaptureFits' /\ PointsAreTrue'
  BY <1>1, <1>2 DEF GpsInv, CallFits, PacingFits, CaptureFits, PointsAreTrue, PointsAreSpaced, StatusOfPoints, ModelFollowsPoints, LostPointHolds
<1> QED
  BY <1>5, <1>6, <1>7 DEF GpsInv

LEMMA GpsRestartsKeeps == GpsInv /\ GpsRestarts => GpsInv'
<1> SUFFICES ASSUME GpsInv, GpsRestarts PROVE GpsInv'
  OBVIOUS
<1>1. /\ gFaults' \in 0..MaxGpsFaults /\ gps' = NoGps /\ pacing' = NotPaced
      /\ gClock' = gClock /\ gDev' = gDev /\ request' = request /\ capture' = capture
  BY GpsReads, GpsBounds DEF GpsRestarts
<1>2. Dispatched' = Dispatched /\ LastDispatched' = LastDispatched
  BY <1>1, RowsStay
<1>3. /\ gps'.pc = "idle" /\ gps'.rev = 0 /\ gps'.started = FALSE
      /\ gps' \in [pc : {"idle", "create", "send", "answer"}, source : Sources, req : 0..MaxRequests, rev : 0..MaxEdits, started : BOOLEAN]
      /\ pacing' \in -1..(MaxGpsClock + GpsInterval)
  BY <1>1, GpsBounds DEF NoGps, Sources, NotPaced
<1>4. GpsTypeOK'
  BY <1>1, <1>3 DEF GpsInv, GpsTypeOK
<1>5. CallFits' /\ PacingFits'
  BY <1>1, <1>3, GpsReads, GpsBounds DEF CallFits, PacingFits
<1>6. RowsFit' /\ CaptureFits' /\ PointsAreTrue'
  BY <1>1, <1>2 DEF GpsInv, RowsFit, CaptureFits, PointsAreTrue, PointsAreSpaced, StatusOfPoints, ModelFollowsPoints, LostPointHolds
<1> QED
  BY <1>4, <1>5, <1>6 DEF GpsInv

LEMMA CaptureFixKeeps == GpsInv /\ CaptureFix => GpsInv'
<1> SUFFICES ASSUME GpsInv, CaptureFix PROVE GpsInv'
  OBVIOUS
<1>1. /\ LastDispatched > 0 /\ capture' = [at |-> gClock, last |-> LastDispatched]
      /\ gClock' = gClock /\ gDev' = gDev /\ gps' = gps /\ request' = request /\ pacing' = pacing /\ gFaults' = gFaults
  BY DEF CaptureFix
<1>2. Dispatched' = Dispatched /\ LastDispatched' = LastDispatched
  BY <1>1, RowsStay
<1>3. LastDispatched \in Dispatched /\ LastDispatched \in 0..MaxRequests
  <2>1. LastDispatched # 0
    BY <1>1
  <2>2. LastDispatched \in Dispatched
    BY <2>1, LastIsLast
  <2> QED
    BY <2>2, GpsReads, GpsBounds
<1>4. capture' \in [at : 0..MaxGpsClock, last : 0..MaxRequests] /\ capture'.last = LastDispatched
  BY <1>1, <1>3, GpsReads, GpsBounds
<1>5. GpsTypeOK'
  BY <1>1, <1>4 DEF GpsInv, GpsTypeOK
<1>6. CaptureFits'
  BY <1>2, <1>3, <1>4 DEF CaptureFits
<1>7. RowsFit' /\ CallFits' /\ PacingFits' /\ PointsAreTrue'
  BY <1>1, <1>2 DEF GpsInv, RowsFit, CallFits, PacingFits, PointsAreTrue, PointsAreSpaced, StatusOfPoints, ModelFollowsPoints, LostPointHolds
<1> QED
  BY <1>5, <1>6, <1>7 DEF GpsInv

\* The last point when the fix was taken is not later than the last one now.
LEMMA ObservationKeeps == \A r \in GpsRows : GpsInv /\ recordAndroidObservation(r) => GpsInv'
<1> SUFFICES ASSUME NEW r \in GpsRows, GpsInv, recordAndroidObservation(r) PROVE GpsInv'
  OBVIOUS
<1>1. /\ gClock' = gClock /\ gDev' = gDev /\ gps' = gps /\ pacing' = pacing /\ gFaults' = gFaults
      /\ capture' = NoCapture
      /\ request' = request \/ (request' = [request EXCEPT ![r].seen = capture.last] /\ LastDispatched = r)
  BY DEF recordAndroidObservation
<1>2. capture.last \in 0..MaxRequests
  BY DEF GpsInv, GpsTypeOK
<1>3. LastDispatched = r => capture.last <= r
  <2>1. CASE capture.last = 0
    BY <2>1, GpsBounds
  <2>2. CASE capture.last \in Dispatched
    BY <2>2, LastIsLast
  <2> QED
    BY <2>1, <2>2 DEF GpsInv, CaptureFits
<1>4. /\ request' \in [GpsRows -> Rows]
      /\ \A q \in GpsRows : /\ request'[q].status = request[q].status /\ request'[q].at = request[q].at /\ request'[q].end = request[q].end
                            /\ request'[q].rev = request[q].rev /\ request'[q].moving = request[q].moving
                            /\ request'[q].seen <= q
  <2>1. CASE request' = request
    BY <2>1, GpsReads DEF GpsInv, PointsAreTrue
  <2>2. CASE request' = [request EXCEPT ![r].seen = capture.last] /\ LastDispatched = r
    <3>1. PICK row \in Rows : /\ request' = [request EXCEPT ![r] = row] /\ row.seen = capture.last
                              /\ row.status = request[r].status /\ row.at = request[r].at /\ row.end = request[r].end
                              /\ row.rev = request[r].rev /\ row.moving = request[r].moving
      <4> DEFINE noted == [request[r] EXCEPT !.seen = capture.last]
      <4>1. /\ noted \in Rows /\ noted.seen = capture.last
            /\ noted.status = request[r].status /\ noted.at = request[r].at /\ noted.end = request[r].end
            /\ noted.rev = request[r].rev /\ noted.moving = request[r].moving
        BY <1>2, GpsReads DEF Rows
      <4>2. request' = [request EXCEPT ![r] = noted]
        BY <2>2, GpsReads
      <4> HIDE DEF noted
      <4> QED
        BY <4>1, <4>2
    <3>2. request' \in [GpsRows -> Rows] /\ request'[r] = row /\ \A q \in GpsRows : q # r => request'[q] = request[q]
      BY <3>1, GpsReads
    <3> QED
      BY <1>3, <2>2, <3>1, <3>2 DEF GpsInv, PointsAreTrue
  <2> QED
    BY <1>1, <2>1, <2>2
<1>5. Dispatched' = Dispatched /\ LastDispatched' = LastDispatched
  <2>1. Dispatched' = {q \in GpsRows : request'[q].at > 0}
    BY DEF Dispatched
  <2>2. Dispatched' = Dispatched
    BY <1>4, <2>1 DEF Dispatched
  <2> QED
    BY <2>2 DEF LastDispatched
<1>6. GpsTypeOK'
  <2>1. capture' \in [at : 0..MaxGpsClock, last : 0..MaxRequests]
    BY <1>1, GpsBounds DEF NoCapture
  <2> QED
    BY <1>1, <1>4, <2>1 DEF GpsInv, GpsTypeOK, Rows
<1>7. RowsFit'
  BY <1>1, <1>4 DEF GpsInv, RowsFit
<1>8. CallFits'
  BY <1>1, <1>4 DEF GpsInv, CallFits
<1>9. PacingFits' /\ CaptureFits'
  BY <1>1, <1>4, <1>5, GpsReads DEF GpsInv, PacingFits, CaptureFits, NoCapture
<1>10. PointsAreTrue'
  <2>1. PointsAreSpaced' /\ StatusOfPoints'
    BY <1>4, <1>5, GpsReads DEF GpsInv, PointsAreTrue, PointsAreSpaced, StatusOfPoints
  <2>2. ModelFollowsPoints'
    <3>1. gDev.position # ByOperator => gDev.position \in GpsRows
      BY GpsReads, GpsBounds DEF ByOperator, GpsRows
    <3> QED
      BY <1>1, <1>4, <3>1 DEF GpsInv, PointsAreTrue, ModelFollowsPoints
  <2>3. LostPointHolds'
    <3>1. LastDispatched > 0 => LastDispatched \in GpsRows
      BY LastIsLast, GpsReads
    <3> QED
      BY <1>1, <1>4, <1>5, <3>1 DEF GpsInv, PointsAreTrue, LostPointHolds
  <2> QED
    BY <1>4, <2>1, <2>2, <2>3 DEF PointsAreTrue
<1> QED
  BY <1>6, <1>7, <1>8, <1>9, <1>10 DEF GpsInv

LEMMA GpsStutterKeeps == GpsInv /\ UNCHANGED gpsVars => GpsInv'
BY DEF gpsVars, GpsInv, GpsTypeOK, RowsFit, CallFits, PacingFits, CaptureFits, PointsAreTrue, PointsAreSpaced, StatusOfPoints,
       ModelFollowsPoints, LostPointHolds, Dispatched, LastDispatched

LEMMA GpsStepKeeps == GpsInv /\ [GpsNext]_gpsVars => GpsInv'
<1> SUFFICES ASSUME GpsInv, [GpsNext]_gpsVars PROVE GpsInv'
  OBVIOUS
<1>1. CASE UNCHANGED gpsVars
  BY <1>1, GpsStutterKeeps
<1>2. CASE SaveAnchor
  BY <1>2, SaveAnchorKeeps
<1>3. CASE ExpirePhone \/ EditRow \/ ToggleActive \/ PowerObserved
  BY <1>3, RowStepsKeep
<1>4. CASE CreateRequest
  BY <1>4, CreateRequestKeeps
<1>5. CASE DispatchPoint
  BY <1>5, DispatchPointKeeps
<1>6. CASE AnswerPoint
  BY <1>6, AnswerPointKeeps
<1>7. CASE CatchPoint
  BY <1>7, CatchPointKeeps
<1>8. CASE GpsClockTicks
  BY <1>8, GpsClockTicksKeeps
<1>9. CASE GpsRestarts
  BY <1>9, GpsRestartsKeeps
<1>10. CASE CaptureFix
  BY <1>10, CaptureFixKeeps
<1>11. CASE \E source \in {"JITTER", "QUEUE"} : ProposeGps(source)
  BY <1>11, ProposeGpsKeeps
<1>12. CASE \E r \in GpsRows : recordAndroidObservation(r)
  BY <1>12, ObservationKeeps
<1> QED
  BY <1>1, <1>2, <1>3, <1>4, <1>5, <1>6, <1>7, <1>8, <1>9, <1>10, <1>11, <1>12 DEF GpsNext

\* Whatever the order of proposals, edits, answers, restarts and failed writes,
\* the requests outside trips say what is known of their points, are spaced by
\* the interval, and hold the phone whose last point is unconfirmed.
THEOREM PointsTrue == GpsSpec => [](GpsTypeOK /\ PointsAreTrue)
<1>1. GpsInv => GpsTypeOK /\ PointsAreTrue
  BY DEF GpsInv
<1> QED
  BY <1>1, InitGpsInv, GpsStepKeeps, PTL DEF GpsSpec

-----------------------------------------------------------------------------
(* A trip that waits for Maps on its phone (PhoneSync).                    *)

\* What a step holds is the trip, but for what another process changed: then the trip is paused.
StepHolds ==
  psStep.pc # "idle" =>
    /\ Own.status \in {"RUNNING", "ARRIVING"} /\ psStep.began <= psClock
    /\ psTrip = Own \/ psTrip = [Own EXCEPT !.status = "PAUSED", !.rev = psTrip.rev]

\* The stored readback is of the last point, or of one before it.
TripFits ==
  /\ psTrip.last = Len(psPoints)
  /\ psTrip.accepted \/ psTrip.pending => psTrip.last # 0
  /\ psTrip.gps.req <= psTrip.last
  /\ psTrip.gps.req = psTrip.last /\ psTrip.gps.match => psSeen
  /\ psTrip.gps.req = psTrip.last /\ psTrip.last # 0 => Status(psTrip.last) = "ACCEPTED"
  /\ (\E i \in DOMAIN psPoints : Status(i) = "ACCEPTED") =>
       psTrip.accepted \/ (psTrip.pending /\ Status(psTrip.last) = "ACCEPTED")

\* A point follows one that left before it.
PointsFollow ==
  \A i \in DOMAIN psPoints :
    /\ psPoints[i].after < i
    /\ psPoints[i].after # 0 /\ (\E j \in 1..psPoints[i].after : Status(j) = "ACCEPTED") => Status(psPoints[i].after) = "ACCEPTED"

\* A fused fix of the last point that Android has taken after it shows that the phone was there.
FixFits ==
  /\ psLast.place <= Len(psPoints) /\ psLast.sent <= psClock
  /\ psPhone.fix.at <= psClock /\ psPhone.fix.after <= Len(psPoints)
  /\ /\ psPoints # <<>> /\ psPhone.fix.fused /\ psPhone.fix.place = psLast.place
     /\ psPhone.fix.at > psLast.sent \/ psPhone.fix.after >= Len(psPoints)
     => psSeen

\* And so does a reading of it, when its age is counted from the start of the command.
ReadingFits ==
  /\ psStep.pc = "told" /\ psStep.seen.fused /\ psStep.seen.place = psLast.place
  /\ \/ psStep.began - psStep.seen.age > psLast.sent
     \/ psStep.began - psStep.seen.age = psLast.sent /\ psStep.seen.after >= Own.last
  => psSeen

\* Where a step is says what it has found.
WaitFits ==
  /\ psStep.pc \in {"readback", "asked", "told", "finish"} => ~psTrip.pending /\ psTrip.accepted
  /\ psStep.pc \in {"asked", "told"} => psTrip.gps.req = psTrip.last
  /\ psStep.pc = "finish" => psSeen
  /\ psStep.pc \in {"maps", "launch", "launched", "send"} =>
       \/ MayRetry(psTrip)
       \/ ~psTrip.pending /\ (psTrip.accepted => psSeen /\ Status(psTrip.last) = "ACCEPTED")
  /\ psStep.pc = "sent" => psTrip.pending /\ Status(psTrip.last) = "SENT"

CountsFit ==
  /\ ~psCounts.unseen /\ psCounts.launches <= psCounts.starts
  /\ psTrip.status # "PREVIEW" /\ psTrip.maps = "PENDING" => psCounts.launches < psCounts.starts
  /\ psStep.pc = "launch" => psTrip.maps = "OPENING" /\ psCounts.launches < psCounts.starts

PhoneInv ==
  /\ PhoneSyncTypeOK
  /\ StepHolds /\ TripFits /\ PointsFollow /\ FixFits /\ ReadingFits /\ WaitFits /\ CountsFit

-----------------------------------------------------------------------------
StepPlaces   == {"idle", "readback", "asked", "told", "maps", "launch", "launched", "send", "sent", "finish"}
Readings     == [place : 0..MaxPoints, fused : BOOLEAN, age : 0..MaxPhoneClock, after : 0..MaxPoints]
LinkedSteps  == [pc : StepPlaces, trip : LinkedTrips, began : 0..MaxPhoneClock, seen : Readings]
LinkedPoints == [status : {"SENT", "ACCEPTED", "REJECTED", "BUSY", "UNCONFIRMED"}, after : 0..MaxPoints]
LinkedCounts == [launches : 0..MaxResumes, starts : 0..MaxResumes, intrusions : 0..MaxIntrusions, unseen : BOOLEAN]

LEMMA PhoneBounds ==
  /\ PhoneFresh \in Nat /\ PhoneDeadline \in Nat /\ MaxPoints \in Nat /\ MaxPhoneClock \in Nat
  /\ MaxResumes \in Nat /\ MaxIntrusions \in Nat
  /\ 0 \in 0..MaxPoints /\ 0 \in 0..MaxPhoneClock /\ 0 \in 0..MaxResumes /\ 0 \in 0..MaxIntrusions
BY PhoneSyncAssumption

LEMMA StartsTyped ==
  /\ NoReadback \in Readbacks /\ LinkedPreview \in LinkedTrips /\ NoReading \in Readings /\ NoPhoneStep \in LinkedSteps
  /\ NoPhoneStep.pc = "idle"
<1>1. NoReadback \in Readbacks /\ NoReading \in Readings
  BY PhoneBounds DEF NoReadback, Readbacks, NoReading, Readings
<1>2. LinkedPreview \in LinkedTrips
  BY <1>1, PhoneBounds DEF LinkedPreview, LinkedTrips
<1> QED
  BY <1>1, <1>2, PhoneBounds DEF NoPhoneStep, LinkedSteps, StepPlaces

LEMMA PhoneReads ==
  ASSUME PhoneInv
  PROVE  /\ psTrip \in LinkedTrips /\ psTrip.gps \in Readbacks /\ psTrip.last \in 0..MaxPoints /\ psTrip.rev \in 0..MaxIntrusions
         /\ psTrip.accepted \in BOOLEAN /\ psTrip.pending \in BOOLEAN /\ psTrip.retried \in BOOLEAN
         /\ psTrip.gps.req \in 0..MaxPoints /\ psTrip.gps.match \in BOOLEAN /\ psTrip.gps.started \in 0..MaxPhoneClock
         /\ psPoints \in Seq(LinkedPoints) /\ Len(psPoints) \in 0..MaxPoints /\ DOMAIN psPoints = 1..Len(psPoints)
         /\ psLast.place \in 0..MaxPoints /\ psLast.sent \in 0..MaxPhoneClock
         /\ psStep \in LinkedSteps /\ Own \in LinkedTrips /\ psStep.pc \in StepPlaces
         /\ psStep.began \in 0..MaxPhoneClock /\ psStep.seen \in Readings
         /\ psPhone.place \in 0..MaxPoints /\ psPhone.fix.place \in 0..MaxPoints /\ psPhone.fix.fused \in BOOLEAN
         /\ psPhone.fix.at \in 0..MaxPhoneClock /\ psPhone.fix.after \in 0..MaxPoints
         /\ psClock \in 0..MaxPhoneClock /\ psSeen \in BOOLEAN
         /\ psCounts \in LinkedCounts /\ psCounts.launches \in Nat /\ psCounts.starts \in Nat /\ psCounts.starts <= MaxResumes
<1>1. psTrip \in LinkedTrips /\ psStep \in LinkedSteps /\ psCounts \in LinkedCounts
  BY DEF PhoneInv, PhoneSyncTypeOK, LinkedSteps, StepPlaces, Readings, LinkedCounts
<1>2. psPoints \in Seq(LinkedPoints) /\ Len(psPoints) \in 0..MaxPoints /\ DOMAIN psPoints = 1..Len(psPoints)
  <2>1. psPoints \in Seq(LinkedPoints) /\ Len(psPoints) <= MaxPoints
    BY DEF PhoneInv, PhoneSyncTypeOK, LinkedPoints
  <2> QED
    BY <2>1, PhoneBounds
<1>3. /\ psTrip.gps \in Readbacks /\ psTrip.last \in 0..MaxPoints /\ psTrip.rev \in 0..MaxIntrusions
      /\ psTrip.accepted \in BOOLEAN /\ psTrip.pending \in BOOLEAN /\ psTrip.retried \in BOOLEAN
  BY <1>1 DEF LinkedTrips
<1>4. psTrip.gps.req \in 0..MaxPoints /\ psTrip.gps.match \in BOOLEAN /\ psTrip.gps.started \in 0..MaxPhoneClock
  BY <1>3 DEF Readbacks
<1>5. Own \in LinkedTrips /\ psStep.pc \in StepPlaces /\ psStep.began \in 0..MaxPhoneClock /\ psStep.seen \in Readings
  BY <1>1 DEF LinkedSteps, Own
<1>6. psCounts.launches \in Nat /\ psCounts.starts \in Nat /\ psCounts.starts <= MaxResumes
  BY <1>1, PhoneBounds DEF LinkedCounts
<1>7. /\ psLast.place \in 0..MaxPoints /\ psLast.sent \in 0..MaxPhoneClock
      /\ psPhone.place \in 0..MaxPoints /\ psPhone.fix \in [place : 0..MaxPoints, fused : BOOLEAN, at : 0..MaxPhoneClock, after : 0..MaxPoints]
      /\ psClock \in 0..MaxPhoneClock /\ psSeen \in BOOLEAN
  BY DEF PhoneInv, PhoneSyncTypeOK
<1> QED
  BY <1>1, <1>2, <1>3, <1>4, <1>5, <1>6, <1>7

LEMMA PhoneNumbers ==
  ASSUME PhoneInv
  PROVE  /\ Len(psPoints) \in Nat /\ Len(psPoints) <= MaxPoints /\ MaxPoints \in Nat
         /\ psClock \in Nat /\ psClock <= MaxPhoneClock /\ psStep.began \in Nat /\ psLast.sent \in Nat /\ psPhone.fix.at \in Nat
         /\ MaxPhoneClock \in Nat /\ MaxResumes \in Nat /\ MaxIntrusions \in Nat
         /\ psCounts.starts \in Nat /\ psCounts.intrusions \in Nat
<1>1. /\ Len(psPoints) \in 0..MaxPoints /\ psClock \in 0..MaxPhoneClock /\ psStep.began \in 0..MaxPhoneClock
      /\ psLast.sent \in 0..MaxPhoneClock /\ psPhone.fix.at \in 0..MaxPhoneClock
      /\ psCounts.starts \in Nat /\ psCounts.intrusions \in 0..MaxIntrusions
  BY PhoneReads DEF LinkedCounts
<1> QED
  BY <1>1, PhoneBounds

\* A step that still has its trip has the whole of it.
LEMMA OwnReads ==
  ASSUME PhoneInv, psStep.pc # "idle"
  PROVE  /\ Own.maps = psTrip.maps /\ Own.gps = psTrip.gps /\ Own.last = psTrip.last
         /\ Own.accepted = psTrip.accepted /\ Own.pending = psTrip.pending /\ Own.retried = psTrip.retried
         /\ Own.status \in {"RUNNING", "ARRIVING"} /\ psTrip.status # "PREVIEW"
         /\ Unchanged => psTrip = Own
         /\ MayRetry(Own) <=> MayRetry(psTrip)
         /\ Own.last = Len(psPoints)
<1>1. /\ Own.status \in {"RUNNING", "ARRIVING"}
      /\ psTrip = Own \/ psTrip = [Own EXCEPT !.status = "PAUSED", !.rev = psTrip.rev]
  BY DEF PhoneInv, StepHolds
<1>2. Own \in LinkedTrips
  BY PhoneReads
<1>3. /\ Own.maps = psTrip.maps /\ Own.gps = psTrip.gps /\ Own.last = psTrip.last
      /\ Own.accepted = psTrip.accepted /\ Own.pending = psTrip.pending /\ Own.retried = psTrip.retried
      /\ psTrip = Own \/ psTrip.status = "PAUSED"
  BY <1>1, <1>2 DEF LinkedTrips
<1>4. Unchanged => psTrip = Own
  BY <1>1, <1>3 DEF Unchanged
<1>5. MayRetry(Own) <=> MayRetry(psTrip)
  BY <1>3 DEF MayRetry
<1>6. Own.last = Len(psPoints)
  BY <1>3 DEF PhoneInv, TripFits
<1> QED
  BY <1>1, <1>3, <1>4, <1>5, <1>6

\* A step that sends nothing, and sees the phone where it was seen.
Quiet == UNCHANGED <<psPoints, psLast, psPhone, psClock, psSeen>>

\* The trip after it: it may have another readback, another status, and its Maps launched.
TripAfter ==
  /\ psTrip' \in LinkedTrips
  /\ psTrip'.last = psTrip.last /\ psTrip'.accepted = psTrip.accepted /\ psTrip'.pending = psTrip.pending /\ psTrip'.retried = psTrip.retried
  /\ psTrip'.gps.req <= psTrip.last
  /\ psTrip'.gps.req = psTrip.last /\ psTrip'.gps.match => psSeen
  /\ psTrip'.gps.req = psTrip.last /\ psTrip.last # 0 => Status(psTrip.last) = "ACCEPTED"

LEMMA QuietKeeps ==
  ASSUME PhoneInv, Quiet, TripAfter, psStep' \in LinkedSteps, psCounts' \in LinkedCounts,
         StepHolds', ReadingFits', WaitFits', CountsFit'
  PROVE  PhoneInv'
<1>1. psPoints' = psPoints /\ psLast' = psLast /\ psPhone' = psPhone /\ psClock' = psClock /\ psSeen' = psSeen
  BY DEF Quiet
<1>2. PhoneSyncTypeOK'
  BY <1>1 DEF PhoneInv, PhoneSyncTypeOK, TripAfter, LinkedSteps, StepPlaces, Readings, LinkedCounts
<1>3. TripFits'
  BY <1>1 DEF PhoneInv, TripFits, TripAfter, Status
<1>4. PointsFollow' /\ FixFits'
  BY <1>1 DEF PhoneInv, PointsFollow, FixFits, Status
<1> QED
  BY <1>2, <1>3, <1>4 DEF PhoneInv

\* The same readback is as good as it was.
LEMMA SameReadback ==
  ASSUME PhoneInv, psTrip' \in LinkedTrips, psTrip'.last = psTrip.last, psTrip'.accepted = psTrip.accepted,
         psTrip'.pending = psTrip.pending, psTrip'.retried = psTrip.retried, psTrip'.gps = psTrip.gps
  PROVE  TripAfter
BY DEF PhoneInv, TripFits, TripAfter

\* A step ends, or there is none; a trip that may launch Maps could before.
LEMMA EndKeeps ==
  ASSUME PhoneInv, Quiet, TripAfter, psStep'.pc = "idle", psStep' \in LinkedSteps, psCounts' = psCounts,
         psTrip.status = "PREVIEW" => psTrip'.status = "PREVIEW",
         psTrip'.maps = "PENDING" => psTrip.maps = "PENDING"
  PROVE  PhoneInv'
<1>1. StepHolds' /\ ReadingFits' /\ WaitFits'
  BY DEF StepHolds, ReadingFits, WaitFits
<1>2. CountsFit'
  BY DEF PhoneInv, CountsFit
<1> QED
  BY <1>1, <1>2, QuietKeeps, PhoneReads

LEMMA PausedReads ==
  ASSUME PhoneInv
  PROVE  /\ PausedTrip \in LinkedTrips /\ PausedTrip.last = psTrip.last /\ PausedTrip.accepted = psTrip.accepted
         /\ PausedTrip.pending = psTrip.pending /\ PausedTrip.retried = psTrip.retried
         /\ PausedTrip.gps = psTrip.gps /\ PausedTrip.maps = psTrip.maps
         /\ psTrip.status = "PREVIEW" => PausedTrip.status = "PREVIEW"
BY PhoneReads DEF PausedTrip, Driven, LinkedTrips

LEMMA RefusesKeeps ==
  ASSUME PhoneInv, Refuses, Quiet, psCounts' = psCounts
  PROVE  PhoneInv'
<1>1. psTrip' = PausedTrip /\ psStep' = NoPhoneStep
  BY DEF Refuses
<1>2. TripAfter
  BY <1>1, PausedReads, SameReadback
<1> QED
  BY <1>1, <1>2, PausedReads, StartsTyped, EndKeeps

\* What a save stores is the trip of the step, with another readback or Maps further on.
LEMMA SavesKeeps ==
  ASSUME PhoneInv, psStep.pc # "idle", NEW trip \in LinkedTrips, NEW place \in StepPlaces,
         Saves(trip, place), Quiet, psCounts' = psCounts,
         trip = [Own EXCEPT !.maps = trip.maps, !.gps = trip.gps],
         trip.gps.req <= Own.last,
         trip.gps.req = Own.last /\ trip.gps.match => psSeen,
         trip.gps.req = Own.last /\ Own.last # 0 => Status(Own.last) = "ACCEPTED",
         trip.maps = "PENDING" => Own.maps = "PENDING",
         place \in {"idle", "asked", "finish", "maps", "launch", "send"},
         place \in {"asked", "finish"} => ~Own.pending /\ Own.accepted,
         place = "asked" => trip.gps.req = Own.last,
         place = "finish" => psSeen,
         place \in {"maps", "launch", "send"} =>
           MayRetry(Own) \/ (~Own.pending /\ (Own.accepted => psSeen /\ Status(Own.last) = "ACCEPTED")),
         place = "launch" => trip.maps = "OPENING" /\ psCounts.launches < psCounts.starts
  PROVE  PhoneInv'
<1>1. CASE ~Unchanged
  BY <1>1, RefusesKeeps DEF Saves
<1>2. CASE Unchanged
  <2>1. /\ psTrip = Own /\ Own \in LinkedTrips /\ psTrip' = [psTrip EXCEPT !.maps = trip.maps, !.gps = trip.gps]
        /\ psStep' = IF place = "idle" THEN NoPhoneStep
                     ELSE [NoPhoneStep EXCEPT !.pc = place, !.trip = trip, !.began = IF place = "asked" THEN psClock ELSE 0]
    BY <1>2, OwnReads, PhoneReads DEF Saves
  <2>2. psTrip' = trip
    BY <2>1
  <2>3. /\ trip.last = Own.last /\ trip.accepted = Own.accepted /\ trip.pending = Own.pending /\ trip.retried = Own.retried
        /\ trip.status = Own.status
    BY <2>1 DEF LinkedTrips
  <2>4. TripAfter
    BY <2>1, <2>2, <2>3 DEF TripAfter
  <2>5. CASE place = "idle"
    <3>1. trip.maps = "PENDING" => psTrip.maps = "PENDING"
      BY <2>1
    <3> QED
      BY <2>1, <2>2, <2>3, <2>4, <2>5, <3>1, StartsTyped, EndKeeps
  <2>6. CASE place # "idle"
    <3>1. PICK began \in 0..MaxPhoneClock :
            /\ psStep' = [pc |-> place, trip |-> trip, began |-> began, seen |-> NoReading]
            /\ began = IF place = "asked" THEN psClock ELSE 0
      BY <2>1, <2>6, PhoneReads, PhoneBounds DEF NoPhoneStep
    <3>2. /\ psStep' \in LinkedSteps /\ psStep'.pc = place /\ psStep'.trip = trip /\ psStep'.began = began
      BY <3>1, StartsTyped DEF LinkedSteps
    <3>3. StepHolds'
      <4>1. began <= psClock
        BY <3>1, PhoneReads, PhoneBounds
      <4>2. trip.status \in {"RUNNING", "ARRIVING"}
        BY <2>3, OwnReads
      <4> QED
        BY <2>2, <3>2, <4>1, <4>2 DEF StepHolds, Own, Quiet
    <3>4. ReadingFits'
      BY <3>2 DEF ReadingFits
    <3>5. WaitFits'
      <4>1. psPoints' = psPoints /\ psSeen' = psSeen
        BY DEF Quiet
      <4>2. /\ psTrip'.pending = Own.pending /\ psTrip'.accepted = Own.accepted /\ psTrip'.retried = Own.retried
            /\ psTrip'.last = Own.last /\ psTrip'.gps = trip.gps
        BY <2>2, <2>3
      <4>3. MayRetry(psTrip)' <=> MayRetry(Own)
        BY <4>1, <4>2 DEF MayRetry, Status
      <4>4. Status(psTrip.last)' = Status(Own.last)
        BY <4>1, <4>2 DEF Status
      <4> QED
        BY <3>2, <4>1, <4>2, <4>3, <4>4 DEF WaitFits
    <3>6. CountsFit'
      <4>1. trip.maps = "PENDING" => psCounts.launches < psCounts.starts
        BY <2>1, OwnReads DEF PhoneInv, CountsFit
      <4> QED
        BY <2>2, <3>2, <4>1 DEF PhoneInv, CountsFit
    <3> QED
      BY <2>4, <3>2, <3>3, <3>4, <3>5, <3>6, QuietKeeps, PhoneReads
  <2> QED
    BY <2>5, <2>6
<1> QED
  BY <1>1, <1>2

-----------------------------------------------------------------------------
LEMMA InitPhoneInv == PhoneSyncInit => PhoneInv
<1> SUFFICES ASSUME PhoneSyncInit PROVE PhoneInv
  OBVIOUS
<1>1. psPoints = <<>> /\ Len(psPoints) = 0 /\ DOMAIN psPoints = {} /\ psPoints \in Seq(LinkedPoints)
  BY DEF PhoneSyncInit
<1>2. PhoneSyncTypeOK
  <2>1. psPhone = [place |-> 0, fix |-> [place |-> 0, fused |-> FALSE, at |-> 0, after |-> 0]]
    BY DEF PhoneSyncInit, NoFix
  <2>2. psPhone \in [place : 0..MaxPoints, fix : [place : 0..MaxPoints, fused : BOOLEAN, at : 0..MaxPhoneClock, after : 0..MaxPoints]]
    BY <2>1, PhoneBounds
  <2>3. psCounts \in LinkedCounts
    BY PhoneBounds DEF PhoneSyncInit, LinkedCounts
  <2>4. psLast \in [place : 0..MaxPoints, sent : 0..MaxPhoneClock] /\ Len(psPoints) <= MaxPoints
    BY <1>1, PhoneBounds DEF PhoneSyncInit
  <2> QED
    BY <1>1, <2>2, <2>3, <2>4, StartsTyped, PhoneBounds
       DEF PhoneSyncInit, PhoneSyncTypeOK, LinkedSteps, StepPlaces, Readings, LinkedCounts, LinkedPoints
<1>3. TripFits
  BY <1>1 DEF PhoneSyncInit, TripFits, LinkedPreview, NoReadback
<1>4. PointsFollow /\ FixFits
  BY <1>1 DEF PhoneSyncInit, PointsFollow, FixFits, NoFix
<1>5. StepHolds /\ ReadingFits /\ WaitFits /\ CountsFit
  BY StartsTyped DEF PhoneSyncInit, StepHolds, ReadingFits, WaitFits, CountsFit, LinkedPreview
<1> QED
  BY <1>2, <1>3, <1>4, <1>5 DEF PhoneInv

LEMMA PhoneStepsKeeps == PhoneInv /\ PhoneSteps => PhoneInv'
<1> SUFFICES ASSUME PhoneInv, PhoneSteps PROVE PhoneInv'
  OBVIOUS
<1>1. psStep.pc = "idle" /\ Driven /\ Quiet /\ psCounts' = psCounts
  BY DEF PhoneSteps, StepAt, StepOnly, Quiet
<1>2. CASE psTrip' = [psTrip EXCEPT !.status = "PAUSED"] /\ psStep' = psStep
  <2>1. /\ psTrip' \in LinkedTrips /\ psTrip'.last = psTrip.last /\ psTrip'.accepted = psTrip.accepted /\ psTrip'.pending = psTrip.pending
        /\ psTrip'.retried = psTrip.retried /\ psTrip'.gps = psTrip.gps /\ psTrip'.maps = psTrip.maps
    BY <1>2, PhoneReads DEF LinkedTrips
  <2>2. TripAfter
    BY <2>1, SameReadback
  <2> QED
    BY <1>1, <1>2, <2>1, <2>2, EndKeeps, PhoneReads DEF Driven
<1>3. CASE /\ psTrip.pending => MayRetry(psTrip)
           /\ psStep' = [NoPhoneStep EXCEPT !.trip = psTrip, !.pc = IF Locked(psTrip) /\ ~MayRetry(psTrip) THEN "readback" ELSE "maps"]
           /\ psTrip' = psTrip
  <2>1. PICK place \in {"readback", "maps"} :
          /\ psStep' = [pc |-> place, trip |-> psTrip, began |-> 0, seen |-> NoReading]
          /\ place = "readback" <=> Locked(psTrip) /\ ~MayRetry(psTrip)
    BY <1>3 DEF NoPhoneStep
  <2>2. psStep' \in LinkedSteps /\ psStep'.pc = place /\ psStep'.trip = psTrip /\ psStep'.began = 0
    <3>1. psTrip \in LinkedTrips /\ NoReading \in Readings /\ 0 \in 0..MaxPhoneClock /\ place \in StepPlaces
      BY PhoneReads, StartsTyped, PhoneBounds DEF StepPlaces
    <3> QED
      BY <2>1, <3>1 DEF LinkedSteps
  <2>3. TripAfter
    BY <1>3, SameReadback, PhoneReads
  <2>4. StepHolds' /\ ReadingFits'
    <3>1. psStep'.pc = place /\ psStep'.trip = psTrip' /\ psStep'.began = 0
      BY <1>3, <2>2
    <3>2. psTrip'.status \in {"RUNNING", "ARRIVING"}
      BY <1>1, <1>3 DEF Driven
    <3>3. StepHolds'
      BY <3>1, <3>2, <1>1, <1>3, PhoneReads DEF StepHolds, Own, Quiet
    <3>4. ReadingFits'
      BY <3>1, PhoneBounds DEF ReadingFits
    <3> QED
      BY <3>3, <3>4
  <2>5. WaitFits'
    <3>1. psTrip.accepted => psTrip.last # 0
      BY DEF PhoneInv, TripFits
    <3>2. place = "readback" => ~psTrip.pending /\ psTrip.accepted
      BY <1>3, <2>1 DEF Locked
    <3>3. place = "maps" => MayRetry(psTrip) \/ (~psTrip.pending /\ ~psTrip.accepted)
      BY <1>3, <2>1, <3>1 DEF Locked
    <3>4. MayRetry(psTrip)' <=> MayRetry(psTrip)
      BY <1>1, <1>3 DEF MayRetry, Status, Quiet
    <3> QED
      BY <1>3, <2>2, <3>2, <3>3, <3>4 DEF WaitFits
  <2>6. CountsFit'
    BY <1>1, <1>3, <2>2 DEF PhoneInv, CountsFit
  <2> QED
    BY <1>1, <2>2, <2>3, <2>4, <2>5, <2>6, QuietKeeps, PhoneReads
<1> QED
  BY <1>2, <1>3 DEF PhoneSteps

\* The step goes on with the trip as it is.
LEMMA GoesKeeps ==
  ASSUME PhoneInv, psStep.pc # "idle", NEW place \in StepPlaces, StepGoes(place), psTrip' = psTrip, Quiet, psCounts' \in LinkedCounts,
         CountsFit', ReadingFits', WaitFits'
  PROVE  PhoneInv'
<1>1. /\ psStep' \in LinkedSteps /\ psStep'.pc = place /\ psStep'.trip = psStep.trip /\ psStep'.began = psStep.began
  BY PhoneReads DEF StepGoes, LinkedSteps
<1>2. StepHolds'
  BY <1>1 DEF PhoneInv, StepHolds, Own, Quiet
<1>3. TripAfter
  BY SameReadback, PhoneReads
<1> QED
  BY <1>1, <1>2, <1>3, QuietKeeps

LEMMA LooksAtPhoneKeeps == PhoneInv /\ LooksAtPhone => PhoneInv'
<1> SUFFICES ASSUME PhoneInv, LooksAtPhone PROVE PhoneInv'
  OBVIOUS
<1>1. psStep.pc = "readback" /\ psStep.pc # "idle" /\ Quiet /\ psCounts' = psCounts
  BY DEF LooksAtPhone, StepAt, StepOnly, Quiet
<1>2. ~psTrip.pending /\ psTrip.accepted /\ psTrip.last # 0
  BY <1>1 DEF PhoneInv, WaitFits, TripFits
<1>3. CASE StillShown /\ StepGoes(Confirmed) /\ psTrip' = psTrip
  <2>1. psSeen /\ Status(psTrip.last) = "ACCEPTED"
    BY <1>1, <1>2, <1>3, OwnReads DEF StillShown, PhoneInv, TripFits
  <2>2. PICK place \in {"finish", "maps"} : place = Confirmed
    BY DEF Confirmed
  <2>3. place \in StepPlaces /\ psStep' = [psStep EXCEPT !.pc = place]
    BY <1>3, <2>2 DEF StepGoes, StepPlaces
  <2>4. psStep'.pc = place
    BY <2>3, PhoneReads DEF LinkedSteps
  <2>5. WaitFits'
    BY <1>1, <1>2, <1>3, <2>1, <2>4 DEF WaitFits, Status, Quiet
  <2>6. ReadingFits' /\ CountsFit'
    BY <1>1, <1>3, <2>4 DEF PhoneInv, ReadingFits, CountsFit
  <2> QED
    BY <1>1, <1>3, <2>3, <2>5, <2>6, GoesKeeps, PhoneReads DEF StepGoes
<1>4. CASE Refuses
  BY <1>1, <1>4, RefusesKeeps
<1>5. CASE /\ Status(Own.last) = "ACCEPTED"
           /\ Saves([Own EXCEPT !.gps = [NoReadback EXCEPT !.req = Own.last, !.started = StartOf(Own.gps)]], "asked")
  <2>1. Own \in LinkedTrips /\ Own.last \in 0..MaxPoints /\ Own.gps \in Readbacks
    BY PhoneReads DEF LinkedTrips
  <2>2. PICK started \in 0..MaxPhoneClock : started = StartOf(Own.gps)
    BY <2>1, PhoneReads DEF StartOf, Readbacks
  <2>3. PICK readback : readback = [NoReadback EXCEPT !.req = Own.last, !.started = started]
    OBVIOUS
  <2>4. readback \in Readbacks /\ readback.req = Own.last /\ readback.match = FALSE
    <3>1. readback = [req |-> Own.last, match |-> FALSE, started |-> started, fixed |-> 0]
      BY <2>3 DEF NoReadback
    <3> QED
      BY <2>1, <3>1 DEF Readbacks
  <2>5. PICK trip : trip = [Own EXCEPT !.gps = readback]
    OBVIOUS
  <2>6. trip \in LinkedTrips /\ trip.gps = readback /\ trip.maps = Own.maps
    BY <2>1, <2>4, <2>5 DEF LinkedTrips
  <2>7. trip = [Own EXCEPT !.maps = trip.maps, !.gps = trip.gps]
    BY <2>1, <2>5, <2>6 DEF LinkedTrips
  <2>8. Saves(trip, "asked") /\ "asked" \in StepPlaces
    BY <1>5, <2>2, <2>3, <2>5 DEF StepPlaces
  <2>9. Own.last <= Own.last
    BY <2>1, PhoneBounds
  <2> QED
    BY <1>1, <1>2, <1>5, <2>4, <2>6, <2>7, <2>8, <2>9, SavesKeeps, OwnReads
<1> QED
  BY <1>3, <1>4, <1>5 DEF LooksAtPhone

LEMMA PhoneTellsKeeps == PhoneInv /\ PhoneTells => PhoneInv'
<1> SUFFICES ASSUME PhoneInv, PhoneTells PROVE PhoneInv'
  OBVIOUS
<1>1. psStep.pc = "asked" /\ psStep.pc # "idle" /\ Quiet /\ psCounts' = psCounts /\ psTrip' = psTrip
  BY DEF PhoneTells, StepAt, StepOnly, Quiet
<1>2. ~psTrip.pending /\ psTrip.accepted /\ psTrip.last # 0 /\ psTrip.gps.req = psTrip.last
  BY <1>1 DEF PhoneInv, WaitFits, TripFits
<1>3. PICK seen : /\ seen = [place |-> psPhone.fix.place, fused |-> psPhone.fix.fused, age |-> psClock - psPhone.fix.at, after |-> psPhone.fix.after]
                  /\ psStep' = [psStep EXCEPT !.pc = "told", !.seen = seen]
  BY DEF PhoneTells
<1>4. psPhone.fix.at <= psClock /\ psStep.began <= psClock
  BY <1>1 DEF PhoneInv, FixFits, StepHolds
<1>a. psClock \in 0..MaxPhoneClock /\ psPhone.fix.at \in 0..MaxPhoneClock /\ psStep.began \in 0..MaxPhoneClock
      /\ psLast.sent \in 0..MaxPhoneClock /\ MaxPhoneClock \in Nat
  BY PhoneReads, PhoneBounds
<1>5. psClock - psPhone.fix.at \in 0..MaxPhoneClock
  BY <1>4, <1>a
<1>6. /\ seen \in Readings /\ seen.place = psPhone.fix.place /\ seen.fused = psPhone.fix.fused
      /\ seen.age = psClock - psPhone.fix.at /\ seen.after = psPhone.fix.after
  BY <1>3, <1>5, PhoneReads DEF Readings
<1>7. /\ psStep' \in LinkedSteps /\ psStep'.pc = "told" /\ psStep'.trip = psStep.trip /\ psStep'.began = psStep.began /\ psStep'.seen = seen
  BY <1>3, <1>6, PhoneReads DEF LinkedSteps, StepPlaces
<1>8. StepHolds'
  BY <1>1, <1>7 DEF PhoneInv, StepHolds, Own, Quiet
<1>9. TripAfter
  BY <1>1, SameReadback, PhoneReads
<1>10. WaitFits'
  BY <1>1, <1>2, <1>7 DEF WaitFits
<1>11. CountsFit'
  BY <1>1, <1>7 DEF PhoneInv, CountsFit
<1>12. ReadingFits'
  <2>1. Own.last = Len(psPoints) /\ psPoints # <<>>
    <3>1. Own.last = Len(psPoints) /\ Own.last # 0
      BY <1>1, <1>2, OwnReads
    <3> QED
      BY <3>1
  <2>2. psStep.began - seen.age > psLast.sent => psPhone.fix.at > psLast.sent
    <3>1. PICK age \in 0..MaxPhoneClock : age = seen.age /\ age = psClock - psPhone.fix.at
      BY <1>5, <1>6
    <3>2. psStep.began - age > psLast.sent => psPhone.fix.at > psLast.sent
      BY <1>4, <1>a, <3>1
    <3> QED
      BY <3>1, <3>2
  <2>3. seen.fused /\ seen.place = psLast.place /\ (psStep.began - seen.age > psLast.sent \/ seen.after >= Own.last) => psSeen
    BY <1>6, <2>1, <2>2 DEF PhoneInv, FixFits
  <2> QED
    BY <1>1, <1>7, <2>3 DEF ReadingFits, Quiet, Own
<1> QED
  BY <1>1, <1>7, <1>8, <1>9, <1>10, <1>11, <1>12, QuietKeeps, PhoneReads

\* A reading that shows the point was taken when the phone was there, after it.
LEMMA ShownIsSeen ==
  ASSUME PhoneInv, psStep.pc = "told", Shows(psStep.seen)
  PROVE  psSeen
<1>1. psStep.seen.age \in 0..MaxPhoneClock /\ psStep.seen.fused /\ psStep.seen.place = psLast.place
  BY PhoneReads DEF Shows, Readings
<1>2. psStep.seen.age \in Int /\ psClock \in Int /\ psStep.began \in Int
  <2>1. {psStep.seen.age, psClock, psStep.began} \subseteq 0..MaxPhoneClock
    BY <1>1, PhoneReads
  <2> QED
    BY <2>1
<1>3. psClock - Age = psStep.began - psStep.seen.age
  BY <1>2 DEF Age
<1> QED
  BY <1>1, <1>3 DEF PhoneInv, ReadingFits, Shows

LEMMA SavesReadbackKeeps ==
  ASSUME PhoneInv, psStep.pc = "told", NEW match \in BOOLEAN, NEW fixed \in Int, NEW place \in {"idle", "finish", "maps"},
         SavesReadback(match, fixed, place), Quiet, psCounts' = psCounts,
         match => psSeen, place # "idle" => match
  PROVE  PhoneInv'
<1>1. ~psTrip.pending /\ psTrip.accepted /\ psTrip.last # 0 /\ psTrip.gps.req = psTrip.last
  BY DEF PhoneInv, WaitFits, TripFits
<1>2. Own \in LinkedTrips /\ Own.gps \in Readbacks /\ Own.last \in 0..MaxPoints
  BY PhoneReads DEF LinkedTrips
<1>3. PICK readback : readback = [Own.gps EXCEPT !.match = match, !.fixed = fixed]
  OBVIOUS
<1>4. readback \in Readbacks /\ readback.req = Own.gps.req /\ readback.match = match
  BY <1>2, <1>3 DEF Readbacks
<1>5. PICK trip : trip = [Own EXCEPT !.gps = readback]
  OBVIOUS
<1>6. trip \in LinkedTrips /\ trip.gps = readback /\ trip.maps = Own.maps
  BY <1>2, <1>4, <1>5 DEF LinkedTrips
<1>7. trip = [Own EXCEPT !.maps = trip.maps, !.gps = trip.gps]
  BY <1>2, <1>5, <1>6 DEF LinkedTrips
<1>8. Saves(trip, place) /\ place \in StepPlaces
  <2>1. trip = [Own EXCEPT !.gps = [@ EXCEPT !.match = match, !.fixed = fixed]]
    BY <1>3, <1>5
  <2> QED
    BY <2>1 DEF SavesReadback, StepPlaces
<1>9. Own.last <= Own.last
  BY <1>2, PhoneBounds
<1>10. Status(psTrip.last) = "ACCEPTED"
  BY <1>1 DEF PhoneInv, TripFits
<1>11. Own.last = psTrip.last /\ Own.gps = psTrip.gps /\ Own.accepted /\ ~Own.pending /\ psStep.pc # "idle"
  BY <1>1, OwnReads
<1>12. trip.gps.req = Own.last /\ trip.gps.match = match /\ place \in {"idle", "finish", "maps"}
  BY <1>1, <1>4, <1>6, <1>11
<1>13. trip.gps.req <= Own.last /\ Status(Own.last) = "ACCEPTED"
  BY <1>9, <1>10, <1>11, <1>12
<1> QED
  BY <1>6, <1>7, <1>8, <1>11, <1>12, <1>13, SavesKeeps

LEMMA AnswersReadbackKeeps == PhoneInv /\ AnswersReadback => PhoneInv'
<1> SUFFICES ASSUME PhoneInv, AnswersReadback PROVE PhoneInv'
  OBVIOUS
<1>1. psStep.pc = "told" /\ psStep.pc # "idle" /\ Quiet /\ psCounts' = psCounts
  BY DEF AnswersReadback, StepAt, StepOnly, Quiet
<1>2. CASE Refuses
  BY <1>1, <1>2, RefusesKeeps
<1>3. CASE Shows(psStep.seen) /\ SavesReadback(TRUE, psClock - Age, Confirmed)
  <2>1. psSeen
    BY <1>1, <1>3, ShownIsSeen
  <2>2. psClock - Age \in Int
    <3>1. psStep.seen.age \in Int /\ psClock \in Int /\ psStep.began \in Int
      <4>1. {psStep.seen.age, psClock, psStep.began} \subseteq 0..MaxPhoneClock
        BY PhoneReads DEF Readings
      <4> QED
        BY <4>1
    <3> QED
      BY <3>1 DEF Age
  <2>3. Confirmed \in {"finish", "maps"}
    BY DEF Confirmed
  <2>4. PICK fixed \in Int, place \in {"finish", "maps"} : SavesReadback(TRUE, fixed, place)
    BY <1>3, <2>2, <2>3
  <2> QED
    BY <1>1, <2>1, <2>4, SavesReadbackKeeps
<1>4. CASE SavesReadback(FALSE, 0, "idle")
  <2>0. 0 \in Int /\ "idle" \in {"idle", "finish", "maps"}
    OBVIOUS
  <2>1. PICK fixed \in Int, place \in {"idle", "finish", "maps"} : SavesReadback(FALSE, fixed, place) /\ place = "idle"
    BY <1>4, <2>0, Zenon
  <2> QED
    BY <1>1, <2>1, SavesReadbackKeeps
<1>5. CASE psTrip' = [PausedTrip EXCEPT !.gps = [Own.gps EXCEPT !.match = FALSE]] /\ psStep' = NoPhoneStep
  <2>1. psTrip.gps \in Readbacks /\ Own.gps = psTrip.gps
    BY <1>1, OwnReads, PhoneReads
  <2>2. PICK readback : readback = [psTrip.gps EXCEPT !.match = FALSE] /\ psTrip' = [PausedTrip EXCEPT !.gps = readback]
    BY <1>5, <2>1
  <2>3. readback \in Readbacks /\ readback.req = psTrip.gps.req /\ readback.match = FALSE
    BY <2>1, <2>2 DEF Readbacks
  <2>4. PICK trip \in LinkedTrips : trip = PausedTrip
    BY PausedReads
  <2>5. /\ psTrip' \in LinkedTrips /\ psTrip'.last = trip.last /\ psTrip'.accepted = trip.accepted /\ psTrip'.pending = trip.pending
        /\ psTrip'.retried = trip.retried /\ psTrip'.gps = readback /\ psTrip'.maps = trip.maps /\ psTrip'.status = trip.status
    BY <2>2, <2>3, <2>4 DEF LinkedTrips
  <2>6. /\ psTrip'.last = psTrip.last /\ psTrip'.accepted = psTrip.accepted /\ psTrip'.pending = psTrip.pending
        /\ psTrip'.retried = psTrip.retried /\ psTrip'.maps = psTrip.maps /\ (psTrip.status = "PREVIEW" => psTrip'.status = "PREVIEW")
    BY <2>4, <2>5, PausedReads
  <2>7. TripAfter
    BY <2>3, <2>5, <2>6 DEF TripAfter, PhoneInv, TripFits
  <2> QED
    BY <1>1, <1>5, <2>6, <2>7, EndKeeps, StartsTyped
<1> QED
  BY <1>2, <1>3, <1>4, <1>5 DEF AnswersReadback

-----------------------------------------------------------------------------
\* Maps on another way: its launch is stored, confirmed, or has failed.
LEMMA SavesMapsKeeps ==
  ASSUME PhoneInv, psStep.pc \in {"maps", "launched"}, NEW maps \in {"OPENING", "LAUNCH_ACCEPTED"}, NEW place \in {"launch", "send"},
         Saves([Own EXCEPT !.maps = maps], place), Quiet, psCounts' = psCounts,
         place = "launch" => maps = "OPENING" /\ Own.maps = "PENDING"
  PROVE  PhoneInv'
<1>1. Own \in LinkedTrips /\ Own.last \in 0..MaxPoints
  BY PhoneReads DEF LinkedTrips
<1>2. PICK trip : trip = [Own EXCEPT !.maps = maps]
  OBVIOUS
<1>3. trip \in LinkedTrips /\ trip.gps = Own.gps /\ trip.maps = maps
  BY <1>1, <1>2 DEF LinkedTrips
<1>4. trip = [Own EXCEPT !.maps = trip.maps, !.gps = trip.gps]
  BY <1>1, <1>2, <1>3 DEF LinkedTrips
<1>5. Saves(trip, place) /\ place \in StepPlaces
  BY <1>2 DEF StepPlaces
<1>6. /\ psTrip.gps.req <= psTrip.last
      /\ psTrip.gps.req = psTrip.last /\ psTrip.gps.match => psSeen
      /\ psTrip.gps.req = psTrip.last /\ psTrip.last # 0 => Status(psTrip.last) = "ACCEPTED"
  BY DEF PhoneInv, TripFits
<1>7. MayRetry(psTrip) \/ (~psTrip.pending /\ (psTrip.accepted => psSeen /\ Status(psTrip.last) = "ACCEPTED"))
  BY DEF PhoneInv, WaitFits
<1>8. place = "launch" => psCounts.launches < psCounts.starts
  BY OwnReads DEF PhoneInv, CountsFit
<1> QED
  BY <1>3, <1>4, <1>5, <1>6, <1>7, <1>8, SavesKeeps, OwnReads

\* A launch that is not confirmed pauses the trip.
LEMMA LaunchFails ==
  ASSUME PhoneInv, psTrip' = [PausedTrip EXCEPT !.maps = IF Unchanged THEN "FAILED" ELSE @], psStep' = NoPhoneStep,
         Quiet, psCounts' = psCounts
  PROVE  PhoneInv'
<1>1. PICK trip \in LinkedTrips : trip = PausedTrip
  BY PausedReads
<1>2. PICK maps : maps = (IF Unchanged THEN "FAILED" ELSE trip.maps) /\ psTrip' = [trip EXCEPT !.maps = maps]
  BY <1>1
<1>3. maps \in {"PENDING", "OPENING", "LAUNCH_ACCEPTED", "FAILED"} /\ (maps = "PENDING" => trip.maps = "PENDING")
  BY <1>2 DEF LinkedTrips
<1>4. /\ psTrip' \in LinkedTrips /\ psTrip'.last = trip.last /\ psTrip'.accepted = trip.accepted /\ psTrip'.pending = trip.pending
      /\ psTrip'.retried = trip.retried /\ psTrip'.gps = trip.gps /\ psTrip'.maps = maps /\ psTrip'.status = trip.status
  BY <1>2, <1>3 DEF LinkedTrips
<1>5. TripAfter
  BY <1>1, <1>4, PausedReads, SameReadback
<1> QED
  BY <1>1, <1>3, <1>4, <1>5, PausedReads, EndKeeps, StartsTyped

LEMMA OpensMapsKeeps == PhoneInv /\ OpensMaps => PhoneInv'
<1> SUFFICES ASSUME PhoneInv, OpensMaps PROVE PhoneInv'
  OBVIOUS
<1>1. psStep.pc = "maps" /\ psStep.pc # "idle" /\ Quiet /\ psCounts' = psCounts
  BY DEF OpensMaps, StepAt, StepOnly, Quiet
<1>2. CASE StepGoes("send") /\ psTrip' = psTrip
  <2>1. psStep'.pc = "send"
    BY <1>2, PhoneReads DEF StepGoes, LinkedSteps
  <2>2. ReadingFits' /\ CountsFit'
    BY <1>1, <1>2, <2>1 DEF PhoneInv, ReadingFits, CountsFit
  <2>3. WaitFits'
    BY <1>1, <1>2, <2>1 DEF PhoneInv, WaitFits, MayRetry, Status, Quiet
  <2>4. "send" \in StepPlaces
    BY DEF StepPlaces
  <2> QED
    BY <1>1, <1>2, <2>2, <2>3, <2>4, GoesKeeps, PhoneReads
<1>3. CASE Refuses
  BY <1>1, <1>3, RefusesKeeps
<1>4. CASE Own.maps = "PENDING" /\ Saves([Own EXCEPT !.maps = "OPENING"], "launch")
  BY <1>1, <1>4, SavesMapsKeeps
<1> QED
  BY <1>2, <1>3, <1>4 DEF OpensMaps

LEMMA LaunchesMapsKeeps == PhoneInv /\ LaunchesMaps => PhoneInv'
<1> SUFFICES ASSUME PhoneInv, LaunchesMaps PROVE PhoneInv'
  OBVIOUS
<1>1. psStep.pc = "launch" /\ psStep.pc # "idle" /\ Quiet
  BY DEF LaunchesMaps, StepAt, Quiet
<1>2. CASE psCounts' = [psCounts EXCEPT !.launches = @ + 1] /\ StepGoes("launched") /\ psTrip' = psTrip
  <2>1. psStep'.pc = "launched"
    BY <1>2, PhoneReads DEF StepGoes, LinkedSteps
  <2>2. psCounts.launches < psCounts.starts /\ psTrip.maps = "OPENING" /\ ~psCounts.unseen
    BY <1>1 DEF PhoneInv, CountsFit
  <2>3. psCounts.launches + 1 \in 0..MaxResumes /\ psCounts.launches + 1 <= psCounts.starts
    <3>1. psCounts.launches \in Nat /\ psCounts.starts \in Nat /\ psCounts.starts <= MaxResumes /\ MaxResumes \in Nat
      BY PhoneReads, PhoneBounds
    <3> QED
      BY <2>2, <3>1
  <2>4. /\ psCounts' \in LinkedCounts /\ psCounts'.launches = psCounts.launches + 1 /\ psCounts'.starts = psCounts.starts
        /\ ~psCounts'.unseen
    BY <1>2, <2>2, <2>3, PhoneReads DEF LinkedCounts
  <2>5. ReadingFits' /\ CountsFit'
    BY <1>2, <2>1, <2>2, <2>3, <2>4 DEF ReadingFits, CountsFit
  <2>6. WaitFits'
    BY <1>1, <1>2, <2>1 DEF PhoneInv, WaitFits, MayRetry, Status, Quiet
  <2>7. "launched" \in StepPlaces
    BY DEF StepPlaces
  <2> QED
    BY <1>1, <1>2, <2>4, <2>5, <2>6, <2>7, GoesKeeps
<1>3. CASE /\ psCounts' = psCounts
           /\ psTrip' = [PausedTrip EXCEPT !.maps = IF Unchanged THEN "FAILED" ELSE @] /\ psStep' = NoPhoneStep
  BY <1>1, <1>3, LaunchFails
<1> QED
  BY <1>2, <1>3 DEF LaunchesMaps

LEMMA MapsAnswersKeeps == PhoneInv /\ MapsAnswers => PhoneInv'
<1> SUFFICES ASSUME PhoneInv, MapsAnswers PROVE PhoneInv'
  OBVIOUS
<1>1. psStep.pc = "launched" /\ Quiet /\ psCounts' = psCounts
  BY DEF MapsAnswers, StepAt, StepOnly, Quiet
<1>2. CASE Saves([Own EXCEPT !.maps = "LAUNCH_ACCEPTED"], "send")
  BY <1>1, <1>2, SavesMapsKeeps
<1>3. CASE psTrip' = [PausedTrip EXCEPT !.maps = IF Unchanged THEN "FAILED" ELSE @] /\ psStep' = NoPhoneStep
  BY <1>1, <1>3, LaunchFails
<1> QED
  BY <1>2, <1>3 DEF MapsAnswers

-----------------------------------------------------------------------------
LEMMA SendsPointKeeps == PhoneInv /\ SendsPoint => PhoneInv'
<1> SUFFICES ASSUME PhoneInv, SendsPoint PROVE PhoneInv'
  OBVIOUS
<1>1. psStep.pc = "send" /\ psStep.pc # "idle" /\ Len(psPoints) < MaxPoints /\ psClock' = psClock
  BY DEF SendsPoint, StepAt
<1>2. CASE Refuses /\ UNCHANGED <<psPoints, psLast, psPhone, psSeen, psCounts>>
  BY <1>1, <1>2, RefusesKeeps DEF Quiet
<1>3. CASE ~(Refuses /\ UNCHANGED <<psPoints, psLast, psPhone, psSeen, psCounts>>)
  <2> DEFINE retry == MayRetry(Own)
             new   == [status |-> "SENT", after |-> IF retry THEN 0 ELSE Own.last]
  <2>1. /\ Unchanged
        /\ psPoints' = Append(psPoints, new)
        /\ \E place \in IF retry THEN {psLast.place} ELSE NextPlace, taken \in BOOLEAN :
             /\ psLast' = [place |-> place, sent |-> psClock]
             /\ psPhone' = [psPhone EXCEPT !.place = IF taken THEN place ELSE @]
        /\ psTrip' = [psTrip EXCEPT !.last = Len(psPoints) + 1, !.pending = TRUE, !.retried = retry \/ @]
        /\ psStep' = [psStep EXCEPT !.pc = "sent", !.trip = psTrip']
        /\ psCounts' = IF retry \/ ~Own.accepted \/ psSeen THEN psCounts ELSE [psCounts EXCEPT !.unseen = TRUE]
        /\ psSeen' = FALSE
    BY <1>3 DEF SendsPoint
  <2>2. /\ psTrip = Own /\ Own.last = Len(psPoints) /\ psTrip.last = Len(psPoints)
        /\ psTrip.status \in {"RUNNING", "ARRIVING"}
    BY <1>1, <2>1, OwnReads
  <2>3. PICK n \in 0..MaxPoints : n = Len(psPoints) /\ n + 1 \in 0..MaxPoints /\ n \in Nat
    <3>1. Len(psPoints) \in 0..MaxPoints /\ MaxPoints \in Nat
      BY PhoneReads, PhoneBounds
    <3> QED
      BY <1>1, <3>1
  <2>4. retry \/ (~psTrip.pending /\ (psTrip.accepted => psSeen /\ Status(n) = "ACCEPTED"))
    BY <1>1, <2>2, <2>3 DEF PhoneInv, WaitFits
  <2>5. new \in LinkedPoints /\ new.status = "SENT" /\ new.after \in {0, n} /\ (retry => new.after = 0)
    BY <2>2, <2>3, PhoneBounds DEF LinkedPoints
  <2> HIDE DEF new
  <2>6. /\ psPoints' \in Seq(LinkedPoints) /\ Len(psPoints') = n + 1 /\ DOMAIN psPoints' = 1..(n + 1)
        /\ psPoints'[n + 1] = new /\ \A i \in 1..n : psPoints'[i] = psPoints[i]
    BY <2>1, <2>3, <2>5, PhoneReads, AppendProperties
  <2>7. psCounts' = psCounts
    BY <2>1, <2>2, <2>4
  <2>8. PICK place \in 0..MaxPoints, taken \in BOOLEAN :
           /\ place <= n + 1 /\ psLast' = [place |-> place, sent |-> psClock]
           /\ psPhone' = [psPhone EXCEPT !.place = IF taken THEN place ELSE @]
    <3>1. PICK place \in {psLast.place, psLast.place + 1}, taken \in BOOLEAN :
            /\ psLast' = [place |-> place, sent |-> psClock]
            /\ psPhone' = [psPhone EXCEPT !.place = IF taken THEN place ELSE @]
      BY <2>1 DEF NextPlace
    <3>2. psLast.place <= n /\ psLast.place \in Nat
      BY <2>3, PhoneReads, PhoneBounds DEF PhoneInv, FixFits
    <3>3. place \in 0..MaxPoints /\ place <= n + 1
      BY <2>3, <3>1, <3>2, PhoneBounds
    <3> QED
      BY <3>1, <3>3
  <2>9. PICK last \in 0..MaxPoints, retried \in BOOLEAN :
           last = n + 1 /\ psTrip' = [psTrip EXCEPT !.last = last, !.pending = TRUE, !.retried = retried]
    <3>1. retry \in BOOLEAN /\ psTrip.retried \in BOOLEAN
      BY PhoneReads DEF MayRetry
    <3>2. (retry \/ psTrip.retried) \in BOOLEAN
      BY <3>1
    <3>3. psTrip' = [psTrip EXCEPT !.last = n + 1, !.pending = TRUE, !.retried = retry \/ psTrip.retried]
      BY <2>1, <2>3
    <3> QED
      BY <2>3, <3>2, <3>3
  <2>10. /\ psTrip' \in LinkedTrips /\ psTrip'.last = last /\ psTrip'.pending /\ psTrip'.accepted = psTrip.accepted
         /\ psTrip'.gps = psTrip.gps /\ psTrip'.maps = psTrip.maps /\ psTrip'.status = psTrip.status
    BY <2>9, PhoneReads DEF LinkedTrips
  <2>11. /\ psStep' \in LinkedSteps /\ psStep'.pc = "sent" /\ psStep'.trip = psTrip' /\ psStep'.began = psStep.began
    <3>1. PICK trip \in LinkedTrips : trip = psTrip' /\ psStep' = [psStep EXCEPT !.pc = "sent", !.trip = trip]
      BY <2>1, <2>10
    <3> QED
      BY <3>1, PhoneReads DEF LinkedSteps, StepPlaces
  <2>12. /\ psPhone'.fix = psPhone.fix
         /\ psPhone' \in [place : 0..MaxPoints, fix : [place : 0..MaxPoints, fused : BOOLEAN, at : 0..MaxPhoneClock, after : 0..MaxPoints]]
    BY <2>8 DEF PhoneInv, PhoneSyncTypeOK
  <2>13. /\ psLast' \in [place : 0..MaxPoints, sent : 0..MaxPhoneClock] /\ psLast'.place = place /\ psLast'.sent = psClock
    BY <2>8, PhoneReads
  <2>14. PhoneSyncTypeOK'
    <3>1. n + 1 <= MaxPoints /\ psSeen' \in BOOLEAN /\ psClock' \in 0..MaxPhoneClock
      <4>1. psSeen' = FALSE
        BY <2>1
      <4>2. n + 1 <= MaxPoints
        BY <2>3, PhoneBounds
      <4> QED
        BY <1>1, <4>1, <4>2, PhoneReads
    <3>2. psCounts' \in LinkedCounts
      BY <2>7, PhoneReads
    <3> QED
      BY <2>6, <2>10, <2>11, <2>12, <2>13, <3>1, <3>2 DEF PhoneSyncTypeOK, LinkedSteps, StepPlaces, Readings, LinkedPoints, LinkedCounts
  <2>15. StepHolds'
    BY <1>1, <2>2, <2>10, <2>11 DEF PhoneInv, StepHolds, Own
  <2>16. psTrip.gps.req <= n /\ psTrip.gps.req \in Nat /\ n < n + 1
    <3>1. n \in Nat /\ psTrip.gps.req \in Nat
      BY <2>2, <2>3, PhoneReads, PhoneBounds
    <3>2. psTrip.gps.req <= n
      BY <2>2, <2>3 DEF PhoneInv, TripFits
    <3> QED
      BY <3>1, <3>2
  <2>17. \A i \in 1..n : Status(i) = "ACCEPTED" => psTrip.accepted /\ (~retry => Status(n) = "ACCEPTED")
    <3> SUFFICES ASSUME NEW i \in 1..n, Status(i) = "ACCEPTED" PROVE psTrip.accepted /\ (~retry => Status(n) = "ACCEPTED")
      OBVIOUS
    <3>1. psTrip.accepted \/ (psTrip.pending /\ Status(n) = "ACCEPTED")
      BY <2>2, <2>3, PhoneReads DEF PhoneInv, TripFits
    <3>2. retry => Status(n) = "BUSY"
      BY <2>2, <2>3 DEF MayRetry
    <3> QED
      BY <2>4, <3>1, <3>2
  <2>18. \A i \in 1..n : Status(i)' = Status(i)
    BY <2>6 DEF Status
  <2>19. Status(n + 1)' = "SENT"
    BY <2>5, <2>6 DEF Status
  <2>20. TripFits'
    <3>1. \A i \in 1..(n + 1) : Status(i)' = "ACCEPTED" => i \in 1..n
      BY <2>3, <2>19
    <3>2. (\E i \in DOMAIN psPoints' : Status(i)' = "ACCEPTED") => psTrip.accepted
      BY <2>6, <2>17, <2>18, <3>1
    <3>3. psTrip.gps.req # n + 1 /\ psTrip.gps.req <= n + 1 /\ n + 1 # 0
      BY <2>3, <2>16
    <3> QED
      BY <2>6, <2>9, <2>10, <3>2, <3>3 DEF TripFits
  <2>21. PointsFollow'
    <3> SUFFICES ASSUME NEW i \in 1..(n + 1)
                 PROVE  /\ psPoints'[i].after < i
                        /\ psPoints'[i].after # 0 /\ (\E j \in 1..psPoints'[i].after : psPoints'[j].status = "ACCEPTED")
                              => psPoints'[psPoints'[i].after].status = "ACCEPTED"
      BY <2>6 DEF PointsFollow, Status
    <3>0. \A j \in 1..n : psPoints'[j].status = Status(j)
      BY <2>6 DEF Status
    <3>1. CASE i \in 1..n
      <4>0. i \in DOMAIN psPoints /\ psPoints \in Seq(LinkedPoints)
        BY <2>3, <3>1, PhoneReads
      <4>1. psPoints'[i] = psPoints[i] /\ psPoints[i] \in LinkedPoints /\ psPoints[i].after < i
        BY <2>6, <3>1, <4>0 DEF PhoneInv, PointsFollow
      <4>2. PICK k \in 0..MaxPoints : k = psPoints[i].after /\ k < i
        BY <4>1 DEF LinkedPoints
      <4>3. (k # 0 => k \in 1..n) /\ 1..k \subseteq 1..n
        BY <2>3, <3>1, <4>2, PhoneBounds
      <4>4. k # 0 /\ (\E j \in 1..k : Status(j) = "ACCEPTED") => Status(k) = "ACCEPTED"
        BY <4>0, <4>2 DEF PhoneInv, PointsFollow
      <4> QED
        BY <3>0, <4>1, <4>2, <4>3, <4>4
    <3>2. CASE i = n + 1
      <4>1. psPoints'[i].after = new.after
        BY <2>6, <3>2
      <4>2. n < i /\ 0 < i
        BY <2>3, <3>2
      <4>3. new.after # 0 => new.after = n /\ ~retry /\ n \in 1..n
        BY <2>3, <2>5
      <4> QED
        BY <2>5, <2>17, <3>0, <4>1, <4>2, <4>3
    <3> QED
      BY <2>3, <3>1, <3>2
  <2>22. FixFits'
    <3>1. /\ psPhone.fix.at <= psClock /\ psPhone.fix.after <= n /\ psPhone.fix.at \in Nat /\ psPhone.fix.after \in Nat /\ psClock \in Nat
      BY <2>3, PhoneReads, PhoneBounds DEF PhoneInv, FixFits
    <3>2. psClock <= psClock /\ ~(psPhone.fix.at > psClock) /\ ~(psPhone.fix.after >= n + 1) /\ psPhone.fix.after <= n + 1
      BY <2>3, <3>1
    <3> QED
      BY <1>1, <2>6, <2>8, <2>12, <2>13, <3>1, <3>2 DEF FixFits
  <2>23. ReadingFits' /\ WaitFits'
    BY <2>9, <2>10, <2>11, <2>19 DEF ReadingFits, WaitFits
  <2>24. CountsFit'
    BY <2>7, <2>10, <2>11 DEF PhoneInv, CountsFit
  <2> QED
    BY <2>14, <2>15, <2>20, <2>21, <2>22, <2>23, <2>24 DEF PhoneInv
<1> QED
  BY <1>2, <1>3

\* What an answer makes of the trip: an accepted point is known to the trip, or
\* the trip has changed and keeps the point as pending.
LEMMA TripAnswered ==
  ASSUME PhoneInv, psStep.pc = "sent", NEW status \in {"ACCEPTED", "REJECTED", "BUSY", "UNCONFIRMED"},
         psTrip' \in
            IF ~Unchanged THEN {psTrip}
            ELSE IF status = "ACCEPTED" THEN {[psTrip EXCEPT !.accepted = TRUE, !.pending = FALSE, !.retried = FALSE, !.status = next] : next \in {"RUNNING", "ARRIVING"}}
            ELSE IF status = "BUSY" /\ ~Own.retried THEN {psTrip}
            ELSE IF status \in {"BUSY", "REJECTED"} THEN {[psTrip EXCEPT !.status = "PAUSED", !.pending = FALSE]}
            ELSE {[psTrip EXCEPT !.status = "PAUSED"]}
  PROVE  /\ psTrip' \in LinkedTrips /\ psTrip'.last = psTrip.last /\ psTrip'.gps = psTrip.gps /\ psTrip'.maps = psTrip.maps
         /\ psTrip.accepted => psTrip'.accepted
         /\ status = "ACCEPTED" => psTrip'.accepted \/ psTrip'.pending
<1>1. psTrip \in LinkedTrips /\ psTrip.pending
  BY PhoneReads DEF PhoneInv, WaitFits
<1>2. CASE psTrip' = psTrip
  BY <1>1, <1>2
<1>3. CASE \E next \in {"RUNNING", "ARRIVING"} :
             psTrip' = [psTrip EXCEPT !.accepted = TRUE, !.pending = FALSE, !.retried = FALSE, !.status = next]
  BY <1>1, <1>3 DEF LinkedTrips
<1>4. CASE status # "ACCEPTED" /\ psTrip' = [psTrip EXCEPT !.status = "PAUSED", !.pending = FALSE]
  BY <1>1, <1>4 DEF LinkedTrips
<1>5. CASE status # "ACCEPTED" /\ psTrip' = [psTrip EXCEPT !.status = "PAUSED"]
  BY <1>1, <1>5 DEF LinkedTrips
<1> QED
  BY <1>2, <1>3, <1>4, <1>5

LEMMA PointAnsweredKeeps == PhoneInv /\ PointAnswered => PhoneInv'
<1> SUFFICES ASSUME PhoneInv, PointAnswered PROVE PhoneInv'
  OBVIOUS
<1>1. /\ psStep.pc = "sent" /\ psStep.pc # "idle" /\ psStep' = NoPhoneStep
      /\ psLast' = psLast /\ psClock' = psClock /\ psSeen' = psSeen /\ psCounts' = psCounts
  BY DEF PointAnswered, StepAt
<1>2. PICK status \in {"ACCEPTED", "REJECTED", "BUSY", "UNCONFIRMED"} :
        /\ psPoints' = [psPoints EXCEPT ![Own.last].status = status]
        /\ psPhone' \in {psPhone, IF status = "ACCEPTED" THEN [psPhone EXCEPT !.place = psLast.place] ELSE psPhone}
        /\ psTrip' \in
            IF ~Unchanged THEN {psTrip}
            ELSE IF status = "ACCEPTED" THEN {[psTrip EXCEPT !.accepted = TRUE, !.pending = FALSE, !.retried = FALSE, !.status = next] : next \in {"RUNNING", "ARRIVING"}}
            ELSE IF status = "BUSY" /\ ~Own.retried THEN {psTrip}
            ELSE IF status \in {"BUSY", "REJECTED"} THEN {[psTrip EXCEPT !.status = "PAUSED", !.pending = FALSE]}
            ELSE {[psTrip EXCEPT !.status = "PAUSED"]}
  BY DEF PointAnswered
<1>3. /\ psTrip' \in LinkedTrips /\ psTrip'.last = psTrip.last /\ psTrip'.gps = psTrip.gps /\ psTrip'.maps = psTrip.maps
      /\ psTrip.accepted => psTrip'.accepted
      /\ status = "ACCEPTED" => psTrip'.accepted \/ psTrip'.pending
  BY <1>1, <1>2, TripAnswered
<1>4. PICK n \in 1..MaxPoints : n = Len(psPoints) /\ n = Own.last /\ n = psTrip.last
  <2>1. Own.last = Len(psPoints) /\ psTrip.last = Len(psPoints) /\ psTrip.last # 0
    BY <1>1, OwnReads DEF PhoneInv, WaitFits, TripFits
  <2>2. Len(psPoints) \in 1..MaxPoints
    BY <2>1, PhoneNumbers
  <2> QED
    BY <2>1, <2>2
<1>5. Status(n) = "SENT" /\ psTrip.gps.req # n
  BY <1>1, <1>4 DEF PhoneInv, WaitFits, TripFits
<1>6. n \in DOMAIN psPoints /\ psPoints[n] \in LinkedPoints /\ n \in 1..Len(psPoints) /\ DOMAIN psPoints = 1..n
  BY <1>4, PhoneReads, PhoneBounds
<1>7. PICK row \in LinkedPoints : /\ row.status = status /\ row.after = psPoints[n].after
                                 /\ psPoints' = [psPoints EXCEPT ![n] = row]
  <2> DEFINE answered == [psPoints[n] EXCEPT !.status = status]
  <2>1. answered \in LinkedPoints /\ answered.status = status /\ answered.after = psPoints[n].after
    BY <1>6 DEF LinkedPoints
  <2>2. psPoints' = [psPoints EXCEPT ![n] = answered]
    BY <1>2, <1>4
  <2> HIDE DEF answered
  <2> QED
    BY <2>1, <2>2
<1>8. /\ psPoints' \in Seq(LinkedPoints) /\ Len(psPoints') = n /\ DOMAIN psPoints' = 1..n
      /\ psPoints'[n] = row /\ \A i \in 1..n : i # n => psPoints'[i] = psPoints[i]
  BY <1>4, <1>6, <1>7, PhoneReads, ExceptSeq
<1>9. /\ psPhone'.fix = psPhone.fix
      /\ psPhone' \in [place : 0..MaxPoints, fix : [place : 0..MaxPoints, fused : BOOLEAN, at : 0..MaxPhoneClock, after : 0..MaxPoints]]
  <2>1. psPhone' = psPhone \/ psPhone' = [psPhone EXCEPT !.place = psLast.place]
    BY <1>2
  <2> QED
    BY <2>1, PhoneReads DEF PhoneInv, PhoneSyncTypeOK
<1>10. PhoneSyncTypeOK'
  <2>1. n <= MaxPoints
    BY <1>4, PhoneBounds
  <2>2. psStep' \in LinkedSteps
    BY <1>1, StartsTyped
  <2> QED
    BY <1>1, <1>3, <1>8, <1>9, <2>1, <2>2 DEF PhoneInv, PhoneSyncTypeOK, LinkedSteps, StepPlaces, Readings, LinkedPoints, LinkedCounts
<1>11. StepHolds' /\ ReadingFits' /\ WaitFits'
  BY <1>1, StartsTyped DEF StepHolds, ReadingFits, WaitFits
<1>12. TripFits'
  <2>1. \A i \in 1..n : i # n /\ Status(i)' = "ACCEPTED" => psTrip.accepted
    <3> SUFFICES ASSUME NEW i \in 1..n, i # n, Status(i)' = "ACCEPTED" PROVE psTrip.accepted
      OBVIOUS
    <3>1. Status(i) = "ACCEPTED" /\ i \in DOMAIN psPoints
      BY <1>6, <1>8 DEF Status
    <3> QED
      BY <1>4, <1>5, <3>1 DEF PhoneInv, TripFits
  <2>2. Status(n)' = status
    BY <1>7, <1>8 DEF Status
  <2>3. (\E i \in DOMAIN psPoints' : Status(i)' = "ACCEPTED") => psTrip'.accepted \/ (psTrip'.pending /\ Status(n)' = "ACCEPTED")
    BY <1>3, <1>8, <2>1, <2>2
  <2>4. n # 0 /\ psTrip.gps.req <= n
    BY <1>4 DEF PhoneInv, TripFits
  <2> QED
    BY <1>1, <1>3, <1>4, <1>5, <1>8, <2>3, <2>4 DEF TripFits
<1>13. PointsFollow'
  <2> SUFFICES ASSUME NEW i \in 1..n
               PROVE  /\ psPoints'[i].after < i
                      /\ psPoints'[i].after # 0 /\ (\E j \in 1..psPoints'[i].after : psPoints'[j].status = "ACCEPTED")
                            => psPoints'[psPoints'[i].after].status = "ACCEPTED"
    BY <1>8 DEF PointsFollow, Status
  <2>1. i \in DOMAIN psPoints /\ psPoints[i] \in LinkedPoints
    BY <1>6, PhoneReads
  <2>2. psPoints'[i].after = psPoints[i].after /\ psPoints[i].after < i
    BY <1>7, <1>8, <2>1 DEF PhoneInv, PointsFollow
  <2>3. PICK k \in 0..MaxPoints : k = psPoints[i].after /\ k < i
    BY <2>1, <2>2 DEF LinkedPoints
  <2>4. n \notin 1..k /\ (k # 0 => k \in 1..n /\ k # n) /\ 1..k \subseteq 1..n
    BY <1>4, <2>3, PhoneBounds
  <2>5. k # 0 /\ (\E j \in 1..k : psPoints[j].status = "ACCEPTED") => psPoints[k].status = "ACCEPTED"
    BY <2>1, <2>3 DEF PhoneInv, PointsFollow, Status
  <2> QED
    BY <1>8, <2>2, <2>3, <2>4, <2>5
<1>14. FixFits'
  <2>0. n # 0
    BY <1>4
  <2>1. psPoints # <<>>
    BY <1>4, <2>0
  <2> QED
    BY <1>1, <1>4, <1>8, <1>9, <2>1 DEF PhoneInv, FixFits
<1>15. CountsFit'
  BY <1>1, <1>3, OwnReads, StartsTyped DEF PhoneInv, CountsFit
<1> QED
  BY <1>10, <1>11, <1>12, <1>13, <1>14, <1>15 DEF PhoneInv

LEMMA FinishesKeeps == PhoneInv /\ Finishes => PhoneInv'
<1> SUFFICES ASSUME PhoneInv, Finishes PROVE PhoneInv'
  OBVIOUS
<1>1. psStep.pc = "finish" /\ psStep.pc # "idle" /\ psStep' = NoPhoneStep /\ Quiet
  BY DEF Finishes, StepAt, Quiet
<1>2. psSeen
  BY <1>1 DEF PhoneInv, WaitFits
<1>3. psCounts' = psCounts /\ (psTrip' = psTrip \/ psTrip' = [psTrip EXCEPT !.status = "ARRIVED"])
  BY <1>2 DEF Finishes
<1>4. /\ psTrip' \in LinkedTrips /\ psTrip'.last = psTrip.last /\ psTrip'.accepted = psTrip.accepted /\ psTrip'.pending = psTrip.pending
      /\ psTrip'.retried = psTrip.retried /\ psTrip'.gps = psTrip.gps /\ psTrip'.maps = psTrip.maps
  BY <1>3, PhoneReads DEF LinkedTrips
<1>5. TripAfter
  BY <1>4, SameReadback
<1> QED
  BY <1>1, <1>3, <1>4, <1>5, OwnReads, EndKeeps, StartsTyped

-----------------------------------------------------------------------------
LEMMA RevisionTyped ==
  ASSUME PhoneInv
  PROVE  NextRevision \in 0..MaxIntrusions
<1>1. PICK rev \in Nat : rev = psTrip.rev
  BY PhoneReads, PhoneBounds
<1>2. (rev + 1) % (MaxIntrusions + 1) \in 0..MaxIntrusions
  BY PhoneBounds
<1> QED
  BY <1>1, <1>2 DEF NextRevision

LEMMA UserActsKeeps == PhoneInv /\ UserActs => PhoneInv'
<1> SUFFICES ASSUME PhoneInv, UserActs PROVE PhoneInv'
  OBVIOUS
<1>1. psStep.pc = "idle" /\ psStep' = psStep /\ Quiet
  BY DEF UserActs, StepAt, Quiet
<1>2. PICK rev \in 0..MaxIntrusions : rev = NextRevision
  BY RevisionTyped
<1>3. CASE Goes
  <2>1. PICK maps : /\ maps = (IF psTrip.maps = "LAUNCH_ACCEPTED" THEN psTrip.maps ELSE "PENDING")
                    /\ psTrip' = [psTrip EXCEPT !.status = "RUNNING", !.rev = rev, !.gps = NoReadback, !.maps = maps]
    BY <1>2, <1>3 DEF Goes
  <2>2. maps \in {"LAUNCH_ACCEPTED", "PENDING"}
    BY <2>1
  <2>3. /\ psTrip' \in LinkedTrips /\ psTrip'.last = psTrip.last /\ psTrip'.accepted = psTrip.accepted /\ psTrip'.pending = psTrip.pending
        /\ psTrip'.retried = psTrip.retried /\ psTrip'.gps = NoReadback
    BY <2>1, <2>2, PhoneReads, StartsTyped DEF LinkedTrips
  <2>4. TripAfter
    <3>1. NoReadback.req = 0 /\ NoReadback.match = FALSE
      BY DEF NoReadback
    <3>2. 0 <= psTrip.last
      BY PhoneReads, PhoneBounds
    <3> QED
      BY <2>3, <3>1, <3>2 DEF TripAfter
  <2>5. /\ psCounts' \in LinkedCounts /\ psCounts'.launches = psCounts.launches /\ psCounts'.starts = psCounts.starts + 1
        /\ psCounts'.unseen = psCounts.unseen
    <3>1. psCounts.starts < MaxResumes /\ psCounts' = [psCounts EXCEPT !.starts = @ + 1]
      BY <1>3 DEF Goes
    <3>2. psCounts.starts + 1 \in 0..MaxResumes
      BY <3>1, PhoneNumbers
    <3> QED
      BY <3>1, <3>2, PhoneReads DEF LinkedCounts
  <2>6. psCounts.launches <= psCounts.starts + 1 /\ psCounts.launches < psCounts.starts + 1
    <3>1. psCounts.launches \in Nat /\ psCounts.starts \in Nat /\ psCounts.launches <= psCounts.starts
      BY PhoneReads DEF PhoneInv, CountsFit
    <3> QED
      BY <3>1
  <2>7. CountsFit'
    BY <1>1, <2>5, <2>6 DEF PhoneInv, CountsFit
  <2>8. StepHolds' /\ ReadingFits' /\ WaitFits'
    BY <1>1 DEF StepHolds, ReadingFits, WaitFits
  <2> QED
    BY <1>1, <2>4, <2>5, <2>7, <2>8, QuietKeeps, PhoneReads
<1>4. CASE Stops
  <2>1. psTrip' = [psTrip EXCEPT !.status = "PAUSED", !.rev = rev] /\ psTrip.status # "PREVIEW" /\ psCounts' = psCounts
    BY <1>2, <1>4 DEF Stops, Driven
  <2>2. /\ psTrip' \in LinkedTrips /\ psTrip'.last = psTrip.last /\ psTrip'.accepted = psTrip.accepted /\ psTrip'.pending = psTrip.pending
        /\ psTrip'.retried = psTrip.retried /\ psTrip'.gps = psTrip.gps /\ psTrip'.maps = psTrip.maps
    BY <2>1, PhoneReads DEF LinkedTrips
  <2>3. TripAfter
    BY <2>2, SameReadback
  <2> QED
    BY <1>1, <2>1, <2>2, <2>3, EndKeeps, PhoneReads
<1> QED
  BY <1>3, <1>4 DEF UserActs

LEMMA IntrudesKeeps == PhoneInv /\ Intrudes => PhoneInv'
<1> SUFFICES ASSUME PhoneInv, Intrudes PROVE PhoneInv'
  OBVIOUS
<1>1. psStep.pc # "idle" /\ Quiet /\ psStep' \in {psStep, NoPhoneStep}
  BY DEF Intrudes, StepAt, Quiet
<1>2. PICK rev \in 0..MaxIntrusions : rev = NextRevision
  BY RevisionTyped
<1>3. psTrip' = psTrip \/ psTrip' = [psTrip EXCEPT !.status = "PAUSED", !.rev = rev]
  BY <1>2 DEF Intrudes
<1>4. /\ psTrip' \in LinkedTrips /\ psTrip'.last = psTrip.last /\ psTrip'.accepted = psTrip.accepted /\ psTrip'.pending = psTrip.pending
      /\ psTrip'.retried = psTrip.retried /\ psTrip'.gps = psTrip.gps /\ psTrip'.maps = psTrip.maps
  BY <1>3, PhoneReads DEF LinkedTrips
<1>5. TripAfter
  BY <1>4, SameReadback
<1>6. /\ psCounts' \in LinkedCounts /\ psCounts'.launches = psCounts.launches /\ psCounts'.starts = psCounts.starts
      /\ psCounts'.unseen = psCounts.unseen
  <2>1. psCounts.intrusions < MaxIntrusions /\ psCounts' = [psCounts EXCEPT !.intrusions = @ + 1]
    BY DEF Intrudes
  <2>2. psCounts.intrusions + 1 \in 0..MaxIntrusions
    BY <2>1, PhoneNumbers
  <2> QED
    BY <2>1, <2>2, PhoneReads DEF LinkedCounts
<1>7. psTrip.status # "PREVIEW"
  BY <1>1, OwnReads
<1>8. psStep' \in LinkedSteps
  BY <1>1, PhoneReads, StartsTyped
<1>9. CASE psStep' = psStep
  <2>1. StepHolds'
    <3>1. /\ Own.status \in {"RUNNING", "ARRIVING"} /\ psStep.began <= psClock /\ Own \in LinkedTrips
          /\ psTrip = Own \/ psTrip = [Own EXCEPT !.status = "PAUSED", !.rev = psTrip.rev]
      BY <1>1, PhoneReads DEF PhoneInv, StepHolds
    <3>2. psTrip' = Own \/ psTrip' = [Own EXCEPT !.status = "PAUSED", !.rev = psTrip'.rev]
      <4>1. CASE psTrip' = psTrip
        BY <3>1, <4>1
      <4>2. CASE psTrip' = [psTrip EXCEPT !.status = "PAUSED", !.rev = rev]
        <5>1. psTrip'.rev = rev
          BY <4>2, PhoneReads DEF LinkedTrips
        <5> QED
          BY <3>1, <4>2, <5>1 DEF LinkedTrips
      <4> QED
        BY <1>3, <4>1, <4>2
    <3>3. Own' = Own
      BY <1>9 DEF Own
    <3> QED
      BY <1>1, <1>9, <3>1, <3>2, <3>3 DEF StepHolds, Quiet
  <2>2. ReadingFits'
    BY <1>1, <1>9 DEF PhoneInv, ReadingFits, Quiet, Own
  <2>3. WaitFits'
    BY <1>1, <1>4, <1>9 DEF PhoneInv, WaitFits, MayRetry, Status, Quiet
  <2>4. CountsFit'
    BY <1>4, <1>6, <1>7, <1>9 DEF PhoneInv, CountsFit
  <2> QED
    BY <1>1, <1>5, <1>6, <1>8, <2>1, <2>2, <2>3, <2>4, QuietKeeps
<1>10. CASE psStep' = NoPhoneStep
  <2>1. StepHolds' /\ ReadingFits' /\ WaitFits'
    BY <1>10, StartsTyped DEF StepHolds, ReadingFits, WaitFits
  <2>2. CountsFit'
    BY <1>4, <1>6, <1>7, <1>10, StartsTyped DEF PhoneInv, CountsFit
  <2> QED
    BY <1>1, <1>5, <1>6, <1>8, <2>1, <2>2, QuietKeeps
<1> QED
  BY <1>1, <1>9, <1>10

\* A new fix at the place of the last point, taken after it, is what psSeen records.
LEMMA PhoneFixesKeeps == PhoneInv /\ PhoneFixes => PhoneInv'
<1> SUFFICES ASSUME PhoneInv, PhoneFixes PROVE PhoneInv'
  OBVIOUS
<1>1. /\ psTrip' = psTrip /\ psPoints' = psPoints /\ psLast' = psLast /\ psStep' = psStep /\ psClock' = psClock /\ psCounts' = psCounts
  BY DEF PhoneFixes
<1>2. PICK fused \in BOOLEAN :
        /\ psPhone' = [psPhone EXCEPT !.fix = [place |-> psPhone.place, fused |-> fused, at |-> psClock, after |-> Len(psPoints)]]
        /\ psSeen' = (psSeen \/ (fused /\ psPhone.place = psLast.place))
  BY DEF PhoneFixes
<1>3. PICK fix : fix = [place |-> psPhone.place, fused |-> fused, at |-> psClock, after |-> Len(psPoints)]
  OBVIOUS
<1>4. /\ fix \in [place : 0..MaxPoints, fused : BOOLEAN, at : 0..MaxPhoneClock, after : 0..MaxPoints]
      /\ fix.place = psPhone.place /\ fix.fused = fused /\ fix.at = psClock /\ fix.after = Len(psPoints)
  BY <1>3, PhoneReads
<1>5. /\ psPhone' \in [place : 0..MaxPoints, fix : [place : 0..MaxPoints, fused : BOOLEAN, at : 0..MaxPhoneClock, after : 0..MaxPoints]]
      /\ psPhone'.fix = fix
  BY <1>2, <1>3, <1>4 DEF PhoneInv, PhoneSyncTypeOK
<1>6. psSeen => psSeen'
  BY <1>2
<1>7. PhoneSyncTypeOK'
  <2>1. psSeen' \in BOOLEAN
    BY <1>2
  <2> QED
    BY <1>1, <1>5, <2>1 DEF PhoneInv, PhoneSyncTypeOK
<1>8. FixFits'
  <2>1. fix.at <= psClock /\ fix.after <= Len(psPoints)
    BY <1>4, PhoneReads, PhoneBounds
  <2>2. fix.fused /\ fix.place = psLast.place => psSeen'
    BY <1>2, <1>4
  <2> QED
    BY <1>1, <1>5, <2>1, <2>2 DEF PhoneInv, FixFits
<1>9. StepHolds' /\ CountsFit'
  BY <1>1 DEF PhoneInv, StepHolds, CountsFit, Own
<1>10. TripFits'
  BY <1>1, <1>6 DEF PhoneInv, TripFits, Status
<1>11. PointsFollow'
  BY <1>1 DEF PhoneInv, PointsFollow, Status
<1>12. ReadingFits'
  BY <1>1, <1>6 DEF PhoneInv, ReadingFits, Own
<1>13. WaitFits'
  BY <1>1, <1>6 DEF PhoneInv, WaitFits, MayRetry, Status
<1> QED
  BY <1>7, <1>8, <1>9, <1>10, <1>11, <1>12, <1>13 DEF PhoneInv

LEMMA TimePassesOnPhoneKeeps == PhoneInv /\ TimePassesOnPhone => PhoneInv'
<1> SUFFICES ASSUME PhoneInv, TimePassesOnPhone PROVE PhoneInv'
  OBVIOUS
<1>1. /\ psTrip' = psTrip /\ psPoints' = psPoints /\ psLast' = psLast /\ psStep' = psStep /\ psPhone' = psPhone /\ psSeen' = psSeen
      /\ psCounts' = psCounts /\ psClock < MaxPhoneClock /\ psClock' = psClock + 1
  BY DEF TimePassesOnPhone
<1>2. psClock \in Nat /\ psClock' \in 0..MaxPhoneClock /\ psStep.began \in Nat /\ psLast.sent \in Nat /\ psPhone.fix.at \in Nat
  BY <1>1, PhoneNumbers
<1>3. PhoneSyncTypeOK'
  BY <1>1, <1>2 DEF PhoneInv, PhoneSyncTypeOK
<1>4. StepHolds'
  <2>1. psStep.began <= psClock => psStep.began <= psClock'
    BY <1>1, <1>2
  <2> QED
    BY <1>1, <2>1 DEF PhoneInv, StepHolds, Own
<1>5. FixFits'
  <2>1. psLast.sent <= psClock' /\ psPhone.fix.at <= psClock'
    BY <1>1, <1>2 DEF PhoneInv, FixFits
  <2> QED
    BY <1>1, <2>1 DEF PhoneInv, FixFits
<1>6. TripFits' /\ PointsFollow'
  BY <1>1 DEF PhoneInv, TripFits, PointsFollow, Status
<1>7. ReadingFits' /\ CountsFit'
  BY <1>1 DEF PhoneInv, ReadingFits, CountsFit, Own
<1>8. WaitFits'
  BY <1>1 DEF PhoneInv, WaitFits, MayRetry, Status
<1> QED
  BY <1>3, <1>4, <1>5, <1>6, <1>7, <1>8 DEF PhoneInv

LEMMA PhoneStutterKeeps == PhoneInv /\ UNCHANGED phoneSyncVars => PhoneInv'
<1> SUFFICES ASSUME PhoneInv, UNCHANGED phoneSyncVars PROVE PhoneInv'
  OBVIOUS
<1>1. /\ psTrip' = psTrip /\ psPoints' = psPoints /\ psLast' = psLast /\ psStep' = psStep /\ psPhone' = psPhone
      /\ psClock' = psClock /\ psSeen' = psSeen /\ psCounts' = psCounts
  BY DEF phoneSyncVars
<1>2. PhoneSyncTypeOK'
  BY <1>1 DEF PhoneInv, PhoneSyncTypeOK
<1>3. StepHolds' /\ FixFits' /\ ReadingFits' /\ CountsFit'
  BY <1>1 DEF PhoneInv, StepHolds, FixFits, ReadingFits, CountsFit, Own
<1>4. TripFits' /\ PointsFollow'
  BY <1>1 DEF PhoneInv, TripFits, PointsFollow, Status
<1>5. WaitFits'
  BY <1>1 DEF PhoneInv, WaitFits, MayRetry, Status
<1> QED
  BY <1>2, <1>3, <1>4, <1>5 DEF PhoneInv

LEMMA PhoneStepKeeps == PhoneInv /\ [PhoneSyncNext]_phoneSyncVars => PhoneInv'
<1> SUFFICES ASSUME PhoneInv, [PhoneSyncNext]_phoneSyncVars PROVE PhoneInv'
  OBVIOUS
<1>1. CASE UNCHANGED phoneSyncVars
  BY <1>1, PhoneStutterKeeps
<1>2. CASE PhoneSteps
  BY <1>2, PhoneStepsKeeps
<1>3. CASE LooksAtPhone
  BY <1>3, LooksAtPhoneKeeps
<1>4. CASE PhoneTells
  BY <1>4, PhoneTellsKeeps
<1>5. CASE AnswersReadback
  BY <1>5, AnswersReadbackKeeps
<1>6. CASE OpensMaps
  BY <1>6, OpensMapsKeeps
<1>7. CASE LaunchesMaps
  BY <1>7, LaunchesMapsKeeps
<1>8. CASE MapsAnswers
  BY <1>8, MapsAnswersKeeps
<1>9. CASE SendsPoint
  BY <1>9, SendsPointKeeps
<1>10. CASE PointAnswered
  BY <1>10, PointAnsweredKeeps
<1>11. CASE Finishes
  BY <1>11, FinishesKeeps
<1>12. CASE UserActs
  BY <1>12, UserActsKeeps
<1>13. CASE Intrudes
  BY <1>13, IntrudesKeeps
<1>14. CASE PhoneFixes
  BY <1>14, PhoneFixesKeeps
<1>15. CASE TimePassesOnPhone
  BY <1>15, TimePassesOnPhoneKeeps
<1> QED
  BY <1>1, <1>2, <1>3, <1>4, <1>5, <1>6, <1>7, <1>8, <1>9, <1>10, <1>11, <1>12, <1>13, <1>14, <1>15 DEF PhoneSyncNext

\* However old, late or foreign the readings are, and whenever the trip is
\* stopped, resumed or recovered: no point and no arrival overtakes the phone,
\* none follows a point that was refused for good once any point was accepted,
\* and Maps is launched no more often than the user asked for the trip.
THEOREM PhoneAwaited == PhoneSyncSpec => [](PhoneSyncTypeOK /\ PhoneIsAwaited)
<1>1. PhoneInv => PhoneSyncTypeOK /\ PhoneIsAwaited
  <2> SUFFICES ASSUME PhoneInv PROVE PhoneSyncTypeOK /\ PhoneIsAwaited
    OBVIOUS
  <2>1. \A i \in DOMAIN psPoints :
          psPoints[i].after # 0 /\ (\E j \in 1..psPoints[i].after : psPoints[j].status = "ACCEPTED")
            => psPoints[psPoints[i].after].status = "ACCEPTED"
    BY DEF PhoneInv, PointsFollow, Status
  <2>2. ~psCounts.unseen /\ psCounts.launches <= psCounts.starts /\ PhoneSyncTypeOK
    BY DEF PhoneInv, CountsFit
  <2> QED
    BY <2>1, <2>2 DEF PhoneIsAwaited
<1> QED
  BY <1>1, InitPhoneInv, PhoneStepKeeps, PTL DEF PhoneSyncSpec

-----------------------------------------------------------------------------
\* What is stored of the points of either phone is so of the phone.
THEOREM PointsKnown == PointsSpec => []PointsAreKnown
BY PointsTrue, PhoneAwaited, PTL DEF PointsSpec, PointsAreKnown
=============================================================================
