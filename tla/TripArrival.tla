--------------------------- MODULE TripArrival ---------------------------
(***************************************************************************)
(* The arrival of one trip as the radio side decides it: ArrivalGate       *)
(* (src/src/radio/arrival.ts) and TripArrivalLifecycle (lifecycle.ts).     *)
(*                                                                         *)
(* The lifecycle is a record and its methods are operators on it, so that  *)
(* PlayerTrip can hold one and ArrivalLifecycle can drive one.  Times are  *)
(* in units of the longest gap the gate tolerates between fixes (5 s).     *)
(***************************************************************************)
EXTENDS Integers, FiniteSets

CONSTANTS
  Dwell,       \* dwellMs: the stationary time the gate asks for
  Window,      \* observationTimeoutMs: how long a readback is waited for
  MaxElapsed   \* bound on the phone clock of a fix

ASSUME ArrivalAssumption == Dwell \in Nat \ {0} /\ Window \in Nat \ {0} /\ MaxElapsed \in Nat

Never == -1

GateStates == {"MOVING", "SETTLING", "READY_TO_APPLY", "AWAITING_READBACK", "BLOCKED"}

Stages == {"TRAVELING", "SETTLING", "READY", "APPLYING_ARRIVAL", "AWAITING_OBSERVATION",
           "OBSERVATION_TIMED_OUT", "BLOCKED", "CLEANING_RADIO", "COMPLETE", "PAUSED",
           "EXPIRED", "CANCELLED", "UNCERTAIN_CANCEL"}

NoBoot == 0

\* How one ingest() ends: delivered or refused (either settles the frame),
\* unanswered, or the evidence store failing before or after the frame left.
Outcomes == {"settled", "uncertain", "fails_before", "fails_after"}

-----------------------------------------------------------------------------
(* ArrivalGate.                                                            *)

\* Mutant: a gap between two fixes does not restart the dwell.
ObserveFixAcrossGaps(l, f) ==
  LET since == IF l.started = Never THEN f.el ELSE l.started IN
  IF l.gate = "BLOCKED" \/ l.gateBoot \notin {NoBoot, f.boot} \/ f.stale
     \/ (l.latest # Never /\ f.el <= l.latest)
  THEN [l EXCEPT !.gate = "BLOCKED"]
  ELSE IF f.here
  THEN [l EXCEPT !.gateBoot = f.boot, !.latest = f.el, !.started = since,
                 !.gate = IF l.expected THEN @
                          ELSE IF f.el - since >= Dwell THEN "READY_TO_APPLY"
                          ELSE "SETTLING"]
  ELSE [l EXCEPT !.gateBoot = f.boot, !.latest = f.el, !.started = Never,
                 !.gate = IF l.expected THEN "BLOCKED" ELSE "MOVING"]

\* observeFix: a fix has a clock, a boot, whether accuracy, speed and distance
\* say the phone stands at the destination, and whether it is older than the
\* phone clock allows.  A replayed, stale or foreign fix blocks the gate for good.
ObserveFix(l, f) ==
  LET block == [l EXCEPT !.gate = "BLOCKED"]
      unbroken == l.latest = Never \/ f.el - l.latest <= 1
      since == IF l.started = Never THEN f.el ELSE l.started
  IN  IF l.gate = "BLOCKED" \/ l.gateBoot \notin {NoBoot, f.boot} \/ f.stale
           \/ (l.latest # Never /\ f.el <= l.latest)
      THEN block
      ELSE IF f.here /\ unbroken
      THEN [l EXCEPT !.gateBoot = f.boot, !.latest = f.el, !.started = since,
                     !.gate = IF l.expected THEN @
                              ELSE IF f.el - since >= Dwell THEN "READY_TO_APPLY"
                              ELSE "SETTLING"]
      ELSE [l EXCEPT !.gateBoot = f.boot, !.latest = f.el, !.started = Never,
                     !.gate = IF l.expected THEN "BLOCKED" ELSE "MOVING"]

StageFromGate(gate) ==
  CASE gate = "MOVING" -> "TRAVELING"
    [] gate = "SETTLING" -> "SETTLING"
    [] gate = "READY_TO_APPLY" -> "READY"
    [] gate = "AWAITING_READBACK" -> "AWAITING_OBSERVATION"
    [] OTHER -> "BLOCKED"

-----------------------------------------------------------------------------
(* TripArrivalLifecycle.                                                   *)

\* A lifecycle as feedIdentifiedTripGps opens it; radio: there is a dataset,
\* so there is a runtime.  waited is the age of awaitingObservationSince.
Opened(boot, radio) ==
  [open |-> TRUE, boot |-> boot, radio |-> radio, stage |-> "TRAVELING",
   gate |-> "MOVING", gateBoot |-> NoBoot, latest |-> Never, started |-> Never,
   expected |-> FALSE, delivered |-> FALSE, cleaned |-> FALSE, waited |-> Never,
   uncertain |-> FALSE]

Closed == [Opened(NoBoot, FALSE) EXCEPT !.open = FALSE]

Terminal(l) == l.stage \in {"COMPLETE", "EXPIRED", "CANCELLED", "UNCERTAIN_CANCEL", "BLOCKED"}

TimedOut(l) == l.waited >= Window

\* Mutants: an unanswered frame is forgotten; only a cleanup lets the phone go.
CanReleaseUncertain(l) ==
  /\ l.open
  /\ \/ l.cleaned
     \/ /\ ~l.delivered
        /\ l.stage \in {"OBSERVATION_TIMED_OUT", "BLOCKED", "CANCELLED", "EXPIRED", "COMPLETE"}

CanReleaseCleaned(l) == l.open /\ ~l.uncertain /\ l.cleaned

\* tick().canReleasePhone, which the trip runners wait for.
CanRelease(l) ==
  /\ l.open
  /\ ~l.uncertain
  /\ \/ l.cleaned
     \/ /\ ~l.delivered
        /\ l.stage \in {"OBSERVATION_TIMED_OUT", "BLOCKED", "CANCELLED", "EXPIRED", "COMPLETE"}

\* noteDelivery: one unanswered frame leaves the lifecycle uncertain for good.
NoteDelivery(l, out) == [l EXCEPT !.uncertain = @ \/ out = "uncertain"]

Fails(out) == out \in {"fails_before", "fails_after"}

\* cleanupRadio: the CLEANUP frame, then COMPLETE whatever became of it.
CleanupRadio(l, out) ==
  IF ~l.radio \/ l.cleaned THEN [l EXCEPT !.cleaned = TRUE, !.stage = "COMPLETE"]
  ELSE IF Fails(out) THEN [l EXCEPT !.stage = "CLEANING_RADIO"]
  ELSE [NoteDelivery(l, out) EXCEPT !.cleaned = TRUE, !.stage = "COMPLETE"]

\* The arrival frame of onIdentifiedFix; armed: ArrivalGate.prepare accepted it.
Arrive(l, out, armed) ==
  IF Fails(out) THEN [l EXCEPT !.stage = "APPLYING_ARRIVAL"]
  ELSE [NoteDelivery(l, out) EXCEPT
         !.stage = "AWAITING_OBSERVATION", !.delivered = TRUE, !.waited = 0,
         !.expected = armed, !.gate = IF armed THEN "AWAITING_READBACK" ELSE @]

WithoutRadio(l) ==
  LET w == IF l.stage = "READY" THEN [l EXCEPT !.stage = "AWAITING_OBSERVATION", !.waited = 0] ELSE l
  IN  IF TimedOut(w) THEN [w EXCEPT !.cleaned = TRUE, !.stage = "COMPLETE"] ELSE w

Observed(l, f) ==
  LET g == ObserveFix(l, f) IN [g EXCEPT !.stage = StageFromGate(g.gate)]

Heeds(l) == ~Terminal(l) /\ l.stage # "PAUSED"

\* The frame onIdentifiedFix hands to the runtime for this fix.
FrameOf(l, f) ==
  LET s == Observed(l, f) IN
  IF ~Heeds(l) \/ ~l.radio \/ s.stage = "BLOCKED" THEN "none"
  ELSE IF s.stage = "READY" /\ ~l.delivered THEN "ARRIVED"
  ELSE IF s.stage = "AWAITING_OBSERVATION" THEN IF TimedOut(l) THEN "CLEANUP" ELSE "none"
  ELSE "MOVING"

OnIdentifiedFix(l, f, out, armed) ==
  LET s == Observed(l, f)
      frame == FrameOf(l, f)
  IN  IF ~Heeds(l) THEN l
      ELSE IF s.stage = "BLOCKED" THEN s
      ELSE IF ~l.radio THEN WithoutRadio(s)
      ELSE IF frame = "ARRIVED" THEN Arrive(s, out, armed)
      ELSE IF frame = "CLEANUP" THEN CleanupRadio(s, out)
      ELSE IF frame = "MOVING" THEN IF Fails(out) THEN s ELSE NoteDelivery(s, out)
      ELSE s

\* pause() writes evidence unless there is nothing left to pause.
PauseWrites(l) == l.open /\ ~Terminal(l)

Pause(l) ==
  IF ~PauseWrites(l) THEN l ELSE [l EXCEPT !.stage = "PAUSED", !.waited = Never]

CancelSends(l) == l.open /\ l.radio /\ ~l.cleaned

\* cancel() sets its stage first; if that cannot be written nothing follows.
Cancelled(l) == [l EXCEPT !.stage = "CANCELLED"]

Cancel(l, out) ==
  IF ~l.open THEN l ELSE IF CancelSends(l) THEN CleanupRadio(l, out) ELSE Cancelled(l)

Expire(l) == IF l.open THEN [l EXCEPT !.stage = "EXPIRED"] ELSE l
=============================================================================
