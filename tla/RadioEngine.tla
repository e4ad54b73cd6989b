---------------------------- MODULE RadioEngine ----------------------------
(***************************************************************************)
(* The radio engine of one trip (radio/engine.ts): from the trip's         *)
(* position it models what the phone would hear, keeps one serving cell    *)
(* and hands it over only when another has been better for a while, and    *)
(* keeps Wi-Fi and Bluetooth scans for their interval.  The runtime turns  *)
(* each frame into the request for the phone (radio/runtime.ts).           *)
(*                                                                         *)
(* A position is what it makes audible: the level of every cell, and       *)
(* whether a scan finds anything.  A frame asked for again, or one behind  *)
(* the clock, is answered or refused without a change of state.            *)
(***************************************************************************)
EXTENDS Integers

CONSTANTS
  RadioCells, NoCell,
  OtherRat,          \* the cells of another technology than the rest
  CellLevels,        \* received levels, in steps of dBm
  HandoverMargin, A5Serving, A5Neighbor,                  \* thresholds, in the same steps
  TimeToTrigger, MaxContinuityGap, ScanInterval,          \* in ticks
  MaxRadioClock      \* bound on the simulated time

ASSUME RadioEngineAssumption ==
  /\ NoCell \notin RadioCells /\ OtherRat \subseteq RadioCells
  /\ CellLevels \subseteq Int
  /\ TimeToTrigger \in Nat /\ MaxContinuityGap \in Nat /\ ScanInterval \in Nat \ {0}
  /\ MaxRadioClock \in Nat

VARIABLES
  rEvent,       \* options.handoverEvent of the session
  rServing,
  rCandidate,   \* the cell that may take over, and since when it qualifies
  rWifi, rBluetooth,   \* the cached scans: when, and whether they found anything
  rFrame,       \* the last frame
  rHeld         \* (history) since when each cell has been the best one to go to

engineVars == <<rEvent, rServing, rCandidate, rWifi, rBluetooth, rFrame, rHeld>>

Never == -100   \* -Infinity: no scan, no frame, no candidate yet

NoCandidate == [key |-> NoCell, since |-> Never]
NoScan      == [at |-> Never, found |-> FALSE]
NoFrame     == [at |-> Never, arrived |-> FALSE, heard |-> {}, from |-> NoCell, to |-> NoCell, held |-> Never]

EngineInit ==
  /\ rEvent \in {"A3", "A5"}
  /\ rServing = NoCell
  /\ rCandidate = NoCandidate
  /\ rWifi = NoScan /\ rBluetooth = NoScan
  /\ rFrame = NoFrame
  /\ rHeld = [c \in RadioCells |-> Never]

-----------------------------------------------------------------------------
(* Cells.  levels is what is audible: a function on the cells heard.       *)

SameRat(c, d) == (c \in OtherRat) = (d \in OtherRat)

\* The cells are sorted by level; among equals the order of identifiers decides.
IsBest(c, levels) == c \in DOMAIN levels /\ \A d \in DOMAIN levels : levels[d] <= levels[c]

\* The two handover events: a neighbour better by a margin, or the serving cell
\* weak and the neighbour strong.
Qualifies(c, levels) ==
  /\ c # rServing /\ SameRat(c, rServing)
  /\ IF rEvent = "A3" THEN levels[c] > levels[rServing] + HandoverMargin
     ELSE levels[rServing] < A5Serving /\ levels[c] > A5Neighbor

\* Mutant: a candidate outlives a gap in the frames.
ContinuedAcrossGaps(at) == IF at < rFrame.at THEN NoCandidate ELSE rCandidate

\* A gap in the frames breaks what was being measured.
Continued(at) == IF at - rFrame.at > MaxContinuityGap THEN NoCandidate ELSE rCandidate

\* The candidate and the serving cell after a frame at which best is the strongest.
NextServing(at, levels, best) ==
  IF rServing \notin DOMAIN levels THEN [serving |-> best, candidate |-> NoCandidate]
  ELSE IF ~Qualifies(best, levels) THEN [serving |-> rServing, candidate |-> NoCandidate]
  ELSE LET since == IF Continued(at).key = best THEN Continued(at).since ELSE at
       IN IF at - since >= TimeToTrigger THEN [serving |-> best, candidate |-> NoCandidate]
          ELSE [serving |-> rServing, candidate |-> [key |-> best, since |-> since]]

\* (history) Since when c has been the one to go to, frame after frame.
HeldSince(at, levels, best) ==
  [c \in RadioCells |->
     IF rServing \notin DOMAIN levels \/ c # best \/ ~Qualifies(c, levels) THEN Never
     ELSE IF rHeld[c] = Never \/ at - rFrame.at > MaxContinuityGap THEN at ELSE rHeld[c]]

-----------------------------------------------------------------------------
(* Scans.                                                                  *)

Aged(sample, at) == sample.at = Never \/ at - sample.at >= ScanInterval

\* Bluetooth is scanned on arrival, and while the phone stays there.
BluetoothIsDue(at, arrived) == arrived /\ (~rFrame.arrived \/ Aged(rBluetooth, at))

Scanned(sample, due, at, found) == IF due THEN [at |-> at, found |-> found] ELSE sample

-----------------------------------------------------------------------------
(* frame: one sample of the trip, with the clock ahead of the last one.    *)

ModelFrame(at, arrived, levels, wifiFound, bluetoothFound) ==
  /\ at > rFrame.at
  /\ rWifi' = Scanned(rWifi, Aged(rWifi, at), at, wifiFound)
  /\ rBluetooth' = Scanned(rBluetooth, BluetoothIsDue(at, arrived), at, bluetoothFound)
  /\ \E best \in (IF levels = <<>> THEN {NoCell} ELSE {c \in RadioCells : IsBest(c, levels)}) :
       LET next == NextServing(at, levels, best)
           held == HeldSince(at, levels, best)
       IN /\ rServing' = next.serving
          /\ rCandidate' = next.candidate
          /\ rHeld' = IF next.serving = rServing THEN held ELSE [c \in RadioCells |-> Never]
          /\ rFrame' = [at |-> at, arrived |-> arrived, heard |-> DOMAIN levels,
                        from |-> rServing, to |-> next.serving,
                        held |-> IF best = NoCell THEN Never ELSE held[best]]
  /\ UNCHANGED rEvent

EngineNext ==
  \E at \in {t \in 0..MaxRadioClock : t > rFrame.at}, arrived \in BOOLEAN, heard \in SUBSET RadioCells :
    \E wifiFound      \in IF Aged(rWifi, at) THEN BOOLEAN ELSE {FALSE},
       bluetoothFound \in IF BluetoothIsDue(at, arrived) THEN BOOLEAN ELSE {FALSE},
       levels         \in [heard -> CellLevels] :
      ModelFrame(at, arrived, levels, wifiFound, bluetoothFound)

EngineSpec == EngineInit /\ [][EngineNext]_engineVars

-----------------------------------------------------------------------------
(* toApply: the request made of the last frame, or to clean up behind it.  *)

\* The time a scan is said to be from.
SampledAt(sample) == IF sample.found THEN sample.at ELSE rFrame.at

Replace(at) == [directive |-> "REPLACE", at |-> at]
Hold  == [directive |-> "HOLD", at |-> Never]
Clear == [directive |-> "CLEAR", at |-> Never]

\* applyRequestFromFrame: the frame's own choice for Bluetooth, and cached samples.
FrameRequest ==
  [phase |-> IF rFrame.arrived THEN "ARRIVED" ELSE "MOVING",
   wifi  |-> Replace(SampledAt(rWifi)),
   cells |-> Replace(rFrame.at),
   bluetooth |-> IF rFrame.arrived THEN Replace(SampledAt(rBluetooth)) ELSE Hold]

CleanupRequest == [phase |-> "CLEANUP", wifi |-> Clear, cells |-> Clear, bluetooth |-> Clear]

\* Cells are held where the application of cells is not supported (the default).
RadioRequest(cleanup) == IF cleanup THEN CleanupRequest ELSE [FrameRequest EXCEPT !.cells = Hold]

-----------------------------------------------------------------------------
RadioEngineTypeOK ==
  /\ rEvent \in {"A3", "A5"}
  /\ rServing \in RadioCells \cup {NoCell}
  /\ rCandidate \in [key : RadioCells \cup {NoCell}, since : Int]
  /\ rWifi \in [at : Int, found : BOOLEAN]
  /\ rBluetooth \in [at : Int, found : BOOLEAN]
  /\ rFrame \in [at : Int, arrived : BOOLEAN, heard : SUBSET RadioCells,
                 from : RadioCells \cup {NoCell}, to : RadioCells \cup {NoCell}, held : Int]
  /\ rHeld \in [RadioCells -> Int]

\* A phone leaves a cell it still hears only for one that has been the best, by
\* the session's event, in every frame of the last timeToTrigger, with no gap
\* between frames longer than the continuity limit.
HandoverIsHeld ==
  rFrame.from \in rFrame.heard /\ rFrame.to # rFrame.from =>
    rFrame.held # Never /\ rFrame.at - rFrame.held >= TimeToTrigger

\* The serving cell is always one that is heard, if any is.
ServingIsHeard ==
  rFrame # NoFrame => IF rFrame.heard = {} THEN rServing = NoCell ELSE rServing \in rFrame.heard

\* A cached scan goes out with its own age, younger than its interval, and a
\* Bluetooth scan is never one of an earlier stay.  (An empty scan is given the
\* time of the frame that carries it: runtime.ts has no entry to take it from.)
ScansKeepTheirAge ==
  rFrame # NoFrame =>
    LET request == RadioRequest(FALSE) IN
    /\ rWifi.found => request.wifi.at = rWifi.at /\ rFrame.at - rWifi.at < ScanInterval
    /\ request.bluetooth.directive = "REPLACE" /\ rBluetooth.found =>
         request.bluetooth.at = rBluetooth.at /\ rFrame.at - rBluetooth.at < ScanInterval

\* What the phone is told to hear changes the way a phone's surroundings do.
FramesAreCredible == HandoverIsHeld /\ ServingIsHeard /\ ScansKeepTheirAge
=============================================================================
