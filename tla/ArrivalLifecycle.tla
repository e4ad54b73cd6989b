-------------------------- MODULE ArrivalLifecycle --------------------------
(***************************************************************************)
(* One arrival lifecycle driven by every caller it has: the entry points   *)
(* of src/src/radio/tripFeed.ts that open, feed, pause, cancel, expire and *)
(* close it, the readback, the wall clock, and what its runtime            *)
(* (runtime.ts) sent to the phone.                                         *)
(***************************************************************************)
EXTENDS TripArrival

CONSTANT Boots  \* boot identifiers of the phone

ASSUME BootsAssumption == Boots \subseteq Nat \ {NoBoot}

VARIABLES
  life,      \* the trip's entry in tripArrivals
  told,      \* history: what the lifecycle sent, "none", "ARRIVED" or "CLEANUP" last
  unknown,   \* history: a frame of this lifecycle has no answer
  refused,   \* history: the evidence store failed behind a frame or during a cleanup
  standing   \* history: clocks of the fixes, of this lifecycle, since which every fix was at
             \* the destination and of the last of them

arrivalVars == <<life, told, unknown, refused, standing>>

Fixes ==
  {f \in [el : 0..MaxElapsed, here : BOOLEAN, boot : Boots, stale : BOOLEAN] : f.stale => ~f.here}

NotStanding == [since |-> Never, last |-> Never]

ArrivalInit ==
  /\ life = Closed
  /\ told = "none"
  /\ unknown = FALSE
  /\ refused = FALSE
  /\ standing = NotStanding

\* What a frame leaves behind on the phone's side of the story.  A moving
\* frame is prepared (LOCAL_SCHEDULE) or sent (DELIVERED).
SendsAfter(frame, out, last, unanswered, failed) ==
  LET left == frame # "none" /\ out # "fails_before" IN
  /\ told' = IF left /\ frame # "MOVING" THEN frame ELSE last
  /\ unknown' = (unanswered \/ (left /\ out = "uncertain"))
  /\ refused' = (failed \/ out = "fails_after" \/ (frame = "CLEANUP" /\ Fails(out)))

Sends(frame, out) == SendsAfter(frame, out, told, unknown, refused)

Forgotten == told' = "none" /\ unknown' = FALSE /\ refused' = FALSE

Silent == UNCHANGED <<told, unknown, refused>>

Stands(f, before) ==
  LET follows == before.last # Never
      kept == follows /\ f.el - before.last <= 1
  IN  IF f.stale \/ (follows /\ f.el <= before.last) THEN before
      ELSE IF ~f.here THEN NotStanding
      ELSE [since |-> IF kept THEN before.since ELSE f.el, last |-> f.el]

\* feedIdentifiedTripGps: a fix of another boot ends the lifecycle (continuity
\* break, close) and opens a new one, as the first fix does.  The call of
\* notePlayerGpsCleaned behind it finds every overdue wait already closed.
Feed(f, radio) ==
  LET fresh == ~life.open \/ life.boot # f.boot
      l == IF fresh THEN Opened(f.boot, radio) ELSE life
      frame == FrameOf(l, f)
  IN  /\ fresh \/ radio = life.radio
      /\ standing' = Stands(f, IF fresh THEN NotStanding ELSE standing)
      /\ \E out \in (IF frame = "none" THEN {"settled"} ELSE Outcomes),
            armed \in (IF frame = "ARRIVED" THEN BOOLEAN ELSE {FALSE}) :
           /\ life' = OnIdentifiedFix(l, f, out, armed)
           /\ IF fresh THEN SendsAfter(frame, out, "none", FALSE, FALSE) ELSE Sends(frame, out)

FeedAny == \E f \in Fixes, radio \in BOOLEAN : Feed(f, radio)

\* onReadback, with the verdict compareReadback gives: a mismatch blocks, a
\* decisive or inconclusive verdict of an in-scope observer cleans up, and a
\* rejected report or a blocked comparison changes nothing.
OnReadback ==
  /\ life.open
  /\ life.delivered
  /\ life.stage \in {"AWAITING_OBSERVATION", "APPLYING_ARRIVAL"}
  /\ UNCHANGED standing
  /\ \/ life' = [life EXCEPT !.stage = "BLOCKED"] /\ Silent
     \/ \E out \in Outcomes :
          /\ life' = CleanupRadio(life, out)
          /\ IF life.cleaned THEN Silent ELSE Sends("CLEANUP", out)

OnPause == life' = Pause(life) /\ life' # life /\ Silent /\ UNCHANGED standing

OnCancel ==
  /\ life.open
  /\ UNCHANGED standing
  /\ \/ life' = Cancelled(life) /\ Silent
     \/ \E out \in Outcomes :
          /\ life' = Cancel(life, out)
          /\ IF CancelSends(life) THEN Sends("CLEANUP", out) ELSE Silent

OnExpire == life.open /\ life' = Expire(life) /\ Silent /\ UNCHANGED standing

\* closeTripRadio, and a restart of the controller: the registries are memory.
OnClose == life.open /\ life' = Closed /\ Forgotten /\ standing' = NotStanding

WallClock ==
  /\ life.waited \in 0..Window - 1
  /\ life' = [life EXCEPT !.waited = @ + 1]
  /\ Silent /\ UNCHANGED standing

ArrivalNext == FeedAny \/ OnReadback \/ OnPause \/ OnCancel \/ OnExpire \/ OnClose \/ WallClock

ArrivalSpec == ArrivalInit /\ [][ArrivalNext]_arrivalVars

-----------------------------------------------------------------------------

ArrivalTypeOK ==
  /\ life.stage \in Stages
  /\ life.gate \in GateStates
  /\ life.latest \in {Never} \cup 0..MaxElapsed
  /\ life.started \in {Never} \cup 0..MaxElapsed
  /\ life.waited \in {Never} \cup 0..Window
  /\ told \in {"none", "ARRIVED", "CLEANUP"}
  /\ unknown \in BOOLEAN
  /\ refused \in BOOLEAN

\* A trip is told that it may let the phone go (canReleasePhone) only when the
\* phone got no arrival frame, or got the cleanup frame after it, and no frame
\* of the session is unanswered.  It relates the decision of tick() to the
\* whole history of frames, through timeouts, pauses, cancels, expiry and the
\* gate blocking.  An evidence store that fails behind a frame escapes it: the
\* frame is then on the phone and unknown to the lifecycle.
ReleaseIsSettled ==
  CanRelease(life) /\ ~refused => told # "ARRIVED" /\ ~unknown

\* Bluetooth is replaced (the ARRIVED frame) only after a full dwell: every fix
\* of the last Dwell units came in order, without a gap, from the destination,
\* since the lifecycle was opened for this boot and also while it was paused
\* (D01, D06 of tests/radio-lifecycle.test.ts).  A cleanup the evidence store
\* interrupts escapes it: it leaves PAUSED behind.
ArrivalNeedsDwell ==
  [][told' = "ARRIVED" /\ told # "ARRIVED" /\ ~refused =>
       /\ standing'.since # Never
       /\ standing'.last - standing'.since >= Dwell]_arrivalVars
=============================================================================
