----------------------------- MODULE FleetPower -----------------------------
(***************************************************************************)
(* The power state the controller stores of one phone: observed by the     *)
(* fleet scan (orchestrator/fleetSync.ts) and by hand (powerCheck.ts),     *)
(* and used, later, by the import of the inventory that the scan read      *)
(* (importInventory.ts), which may be older than what is stored by then.   *)
(*                                                                         *)
(* Time is in ticks; an observation is stamped with the tick in which its  *)
(* request was about to be sent.                                           *)
(***************************************************************************)
EXTENDS Integers

CONSTANTS MaxFleetClock, MaxPowerChanges
ASSUME FleetAssumption == MaxFleetClock \in Nat \ {0} /\ MaxPowerChanges \in Nat

VARIABLES
  fClock,
  power, powerAt,   \* history: what the phone is, and was in each tick
  dev,              \* its device row: duoPlusStatus, poweredOn, lastSeenOnAt, lastPowerSyncAt, active
  event,            \* the last ON or OFF event
  scan,             \* the fleet scan of the workspace: where it is and what it read
  check,            \* checkDevicePower, the same
  changes,          \* of the power, bounded
  batch             \* the background import: the inventory's status of the phone

fleetVars == <<fClock, power, powerAt, changes, dev, event, scan, check, batch>>

Powers  == {"ON", "OFF", "EXPIRED"}
Unknown == "unknown"
Nothing == "nothing"
NotRead == [pc |-> "idle", at |-> 0, status |-> Unknown, was |-> Unknown, on |-> FALSE, seen |-> FALSE]

FleetInit ==
  /\ fClock = 1 /\ changes = 0
  /\ power \in Powers
  /\ powerAt = [t \in 1..MaxFleetClock |-> IF t = 1 THEN {power} ELSE {}]
  /\ dev = [status |-> Unknown, on |-> FALSE, seen |-> FALSE, at |-> 0, active |-> TRUE]
  /\ event = Nothing
  /\ scan = NotRead /\ check = NotRead
  /\ batch = Nothing

PowerChanges ==
  /\ changes < MaxPowerChanges /\ changes' = changes + 1
  /\ power' \in Powers \ {power}
  /\ powerAt' = [powerAt EXCEPT ![fClock] = @ \cup {power'}]
  /\ UNCHANGED <<fClock, dev, event, scan, check, batch>>

FleetClockTicks ==
  /\ fClock < MaxFleetClock /\ fClock' = fClock + 1
  /\ powerAt' = [powerAt EXCEPT ![fClock'] = {power}]
  /\ UNCHANGED <<power, changes, dev, event, scan, check, batch>>

\* The conditional update.  An unknown status keeps the power that the observer
\* read with the row.
Recorded(row, seen) ==
  IF row.at > seen.at THEN row
  ELSE [row EXCEPT !.status = seen.status, !.at = seen.at, !.seen = @ \/ seen.status = "ON",
                   !.on = IF seen.status = Unknown THEN seen.on ELSE seen.status = "ON"]

\* The inventory lists the phone with a status it knows, or not.
Observations == {power, Unknown}

OnlyScan == UNCHANGED <<fClock, power, powerAt, changes, check>>

\* syncTenantOnce shares a running scan; the stamp is taken before the pages.
ScanBegins ==
  /\ scan.pc = "idle"
  /\ scan' = [NotRead EXCEPT !.pc = "pages", !.at = fClock]
  /\ UNCHANGED <<dev, event, batch>> /\ OnlyScan

\* fetchAllCloudPhones: every page is there and agrees with the first, or it fails.
ScanReads ==
  /\ scan.pc = "pages"
  /\ \/ \E status \in Observations : scan' = [scan EXCEPT !.pc = "rows", !.status = status]
     \/ scan' = NotRead
  /\ UNCHANGED <<dev, event, batch>> /\ OnlyScan

\* Mutant: the scan is stamped when its pages have arrived.
ScanStampsRows ==
  /\ scan.pc = "rows"
  /\ scan' = [scan EXCEPT !.pc = "store", !.on = dev.on, !.was = dev.status, !.seen = dev.seen, !.at = fClock]
  /\ UNCHANGED <<dev, event, batch>> /\ OnlyScan

ScanReadsRows ==
  /\ scan.pc = "rows"
  /\ scan' = [scan EXCEPT !.pc = "store", !.on = dev.on, !.was = dev.status, !.seen = dev.seen]
  /\ UNCHANGED <<dev, event, batch>> /\ OnlyScan

ActuallyOff == {"OFF", "EXPIRED"}

\* The events of a scan that was stored: from the row as the scan had read it.
EventOf(seen) ==
  IF seen.status = "ON" /\ ~seen.on /\ (seen.was \in ActuallyOff \/ ~seen.seen \/ event = "OFF") THEN "ON"
  ELSE IF seen.status \in ActuallyOff /\ (seen.on \/ (seen.was \notin ActuallyOff /\ seen.seen)) THEN "OFF"
  ELSE event

\* The update, the events, and the import that the scan leaves behind it.
ScanStores ==
  /\ scan.pc = "store"
  /\ dev' = Recorded(dev, scan)
  /\ event' = IF dev.at > scan.at THEN event ELSE EventOf(scan)
  /\ scan' = NotRead
  /\ batch' = IF batch = Nothing THEN scan.status ELSE batch   \* queueBackgroundWork
  /\ OnlyScan

\* checkDevicePower: stamped in the turn of its key, before the request.
CheckBegins ==
  /\ check.pc = "idle"
  /\ check' = [NotRead EXCEPT !.pc = "request", !.at = fClock]
  /\ UNCHANGED <<fClock, power, powerAt, changes, dev, event, scan, batch>>

CheckReads ==
  /\ check.pc = "request"
  /\ \/ \E status \in Observations : check' = [check EXCEPT !.pc = "store", !.status = status, !.on = dev.on]
     \/ check' = NotRead
  /\ UNCHANGED <<fClock, power, powerAt, changes, dev, event, scan, batch>>

CheckStores ==
  /\ check.pc = "store"
  /\ dev' = Recorded(dev, check)
  /\ check' = NotRead
  /\ UNCHANGED <<fClock, power, powerAt, changes, event, scan, batch>>

\* The import deactivates a phone only while what is stored agrees with it.
ImportKnown ==
  /\ batch # Nothing
  /\ dev' = IF batch = "EXPIRED" /\ dev.status = batch /\ ~dev.on THEN [dev EXCEPT !.active = FALSE] ELSE dev
  /\ batch' = Nothing
  /\ UNCHANGED <<fClock, power, powerAt, changes, event, scan, check>>

\* registerDevice makes the phone active again.
Reregister ==
  /\ ~dev.active
  /\ dev' = [dev EXCEPT !.active = TRUE]
  /\ UNCHANGED <<fClock, power, powerAt, changes, event, scan, check, batch>>

FleetRestarts ==
  /\ scan' = NotRead /\ check' = NotRead /\ batch' = Nothing
  /\ UNCHANGED <<fClock, power, powerAt, changes, dev, event>>

FleetNext ==
  \/ PowerChanges \/ FleetClockTicks \/ ScanBegins \/ ScanReads \/ ScanReadsRows \/ ScanStores
  \/ CheckBegins \/ CheckReads \/ CheckStores \/ ImportKnown \/ Reregister \/ FleetRestarts

FleetSpec == FleetInit /\ [][FleetNext]_fleetVars

-----------------------------------------------------------------------------

Statuses   == Powers \cup {Unknown}
DeviceRows == [status : Statuses, on : BOOLEAN, seen : BOOLEAN, at : Nat, active : BOOLEAN]
Readings   == [pc : {"idle", "pages", "rows", "request", "store"}, at : Nat,
               status : Statuses, was : Statuses, on : BOOLEAN, seen : BOOLEAN]

FleetTypeOK ==
  /\ fClock \in 1..MaxFleetClock /\ changes \in 0..MaxPowerChanges
  /\ power \in Powers /\ powerAt \in [1..MaxFleetClock -> SUBSET Powers]
  /\ dev \in DeviceRows /\ dev.at <= fClock
  /\ dev.status # Unknown => (dev.on <=> dev.status = "ON")
  /\ event \in {Nothing, "ON", "OFF"}
  /\ scan \in Readings /\ check \in Readings
  /\ batch \in Statuses \cup {Nothing}

\* What is stored never becomes older, although scans take long and manual checks
\* overtake them: a status is true of the phone at its stamp or later, a stamp
\* never goes back, and a phone is deactivated only if its subscription was found
\* ended by the newest observation, whatever old inventory says so.
NewestObservationWins ==
  [][ /\ dev'.at >= dev.at
      /\ dev'.status # Unknown => \E t \in dev'.at..fClock : dev'.status \in powerAt[t]
      /\ dev.active /\ ~dev'.active => \E t \in dev.at..fClock : "EXPIRED" \in powerAt[t]
    ]_fleetVars
=============================================================================
