----------------------------- MODULE PhonePoints -----------------------------
(***************************************************************************)
(* The points that a phone gets besides those of TripDrive's drives: the   *)
(* requests outside trips (GpsRequests), and those of a trip that waits    *)
(* for Maps on its phone (PhoneSync).  They are about two phones, and      *)
(* share no state: their composition is the conjunction of the two.        *)
(***************************************************************************)
EXTENDS GpsRequests, PhoneSync

PointsSpec == GpsSpec /\ PhoneSyncSpec

\* What is stored of a phone's points is so of the phone: a request, its answer
\* and its observation (GpsRequests), and a linked trip's next point or arrival
\* (PhoneSync).
PointsAreKnown == GpsTypeOK /\ PointsAreTrue /\ PhoneSyncTypeOK /\ PhoneIsAwaited
=============================================================================
