------------------------------ MODULE MCWarmup ------------------------------
(* Side by side, what moves a phone besides the trip of TripDrive: a       *)
(* warm-up campaign (Warmup), the points that phones get outside trips     *)
(* (GpsRequests), and a trip that waits for Maps on its phone (PhoneSync). *)
(* The campaign is looked at twice to bound it: with runs that are retried *)
(* under new names on a phone that is on, which no campaign then owns the  *)
(* power of, and without retries on one whose power comes and goes.        *)
EXTENDS Warmup, PhonePoints

VARIABLE part    \* which of the four a behaviour is about

MCInit ==
  /\ part \in {"retries", "power", "gps", "phone"}
  /\ Init /\ GpsInit /\ PhoneSyncInit
  /\ part # "power" => phone = "on"

CampaignStep ==
  /\ part \in {"retries", "power"}
  /\ Next
  /\ part = "power" => \A r \in Runs : run'[r].name = 1
  /\ UNCHANGED <<gpsVars, phoneSyncVars, part>>

GpsStep      == part = "gps"      /\ GpsNext      /\ UNCHANGED <<vars, phoneSyncVars, part>>
PhoneStep    == part = "phone"    /\ PhoneSyncNext /\ UNCHANGED <<vars, gpsVars, part>>

MCNext == CampaignStep \/ GpsStep \/ PhoneStep

MCSpec == MCInit /\ [][MCNext]_<<vars, gpsVars, phoneSyncVars, part>>
=============================================================================
