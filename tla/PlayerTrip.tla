----------------------------- MODULE PlayerTrip -----------------------------
(***************************************************************************)
(* A trip played by the player app on the phone: the steps of              *)
(* src/src/trips/playerRunner.ts, the start, pause, resume and cancel of   *)
(* service.ts on such a trip, playerReadiness.ts before a start, and the   *)
(* arrival lifecycle (TripArrival) that lets the phone go.                 *)
(*                                                                         *)
(* "step" is the trip runner's step and "user" one call of the service;    *)
(* both run under the lease of the phone, which may lapse under them.      *)
(* Every await between two reads or writes of shared state is a step       *)
(* boundary.  The player on the phone is external: it plays on by itself,  *)
(* and gives up when no heartbeat came for 15 s.                           *)
(***************************************************************************)
EXTENDS TripArrival

CONSTANTS
  LastSample,   \* index of the last sample of the plan
  Near,         \* first sample from which the vehicle stands at the destination
  End,          \* sample where the route ends: the model clock stops there
  MaxGrants,    \* bound on the starts and resumes of the user
  MaxCalls,     \* bound on the calls of the user, refused ones included
  MaxFaults     \* bound on crashes, lapsed leases and phone restarts

ASSUME PlayerAssumption ==
  /\ {LastSample, Near, End, MaxGrants, MaxCalls, MaxFaults} \subseteq Nat
  /\ Near <= End /\ End <= LastSample /\ End <= MaxElapsed

VARIABLES
  row,      \* the DrivingTrip row: status, revision, elapsed sample, player state
  device,   \* the Device row: activeTripId is this trip, active
  phone,    \* the player: instance, session, state, applied sample, cleanup_ok
  known,    \* the instance PlayerLifecycle remembers, 0 for none
  lc,       \* the arrival lifecycle of the trip
  lease,    \* who holds the lease of the phone
  proc,     \* per process: where it is, its copy of the row, the player status it holds, its call
  calls,    \* history: how often the user called
  grants,   \* history: how often the user started or resumed
  opened,   \* history: sessions the controller opened (their random ids are counted)
  begun,    \* history: per session, how often the phone began to play it
  faults,   \* history: number of faults
  lapsed    \* history: the lease lapsed under its holder

vars == <<row, device, phone, known, lc, lease, proc, calls, grants, opened, begun, faults, lapsed>>

Sessions == 1..MaxGrants

Processes == {"step", "user"}

NoPlayer == [sid |-> 0, inst |-> 0, started |-> FALSE, ended |-> FALSE, off |-> 0]

Live == {"READY", "PLAYING"}

PlayerTerminal == {"COMPLETED", "CANCELLED", "EXPIRED"}

NewRow == [status |-> "PREVIEW", rev |-> 0, at |-> 0, player |-> NoPlayer]

NewPhone == [inst |-> 1, sid |-> 0, state |-> "IDLE", pos |-> Never, clean |-> TRUE]

Idle == [pc |-> "idle", row |-> NewRow, seen |-> NewPhone, op |-> "none"]

Init ==
  /\ row = NewRow
  /\ device = [claimed |-> FALSE, active |-> FALSE]
  /\ phone = NewPhone
  /\ known = 0
  /\ lc = Closed
  /\ lease = "free"
  /\ proc = [p \in Processes |-> Idle]
  /\ calls = 0
  /\ grants = 0
  /\ opened = 0
  /\ begun = [s \in Sessions |-> 0]
  /\ faults = 0
  /\ lapsed = FALSE

Goto(p, where) == proc' = [proc EXCEPT ![p].pc = where]

\* Goes on with a fresh copy of its row, or a fresh status of the player.
GotoHolding(p, where, copy) == proc' = [proc EXCEPT ![p].pc = where, ![p].row = copy]

GotoSeeing(p, where, status) == proc' = [proc EXCEPT ![p].pc = where, ![p].seen = status]

\* The end of a step or a call: withPhysicalImageLease releases what it still holds.
Leave(p) == proc' = [proc EXCEPT ![p] = Idle] /\ lease' = IF lease = p THEN "free" ELSE lease

Kept == UNCHANGED <<known, calls, grants, opened, faults, lapsed>>

\* The row still has the revision the process read.
Current(p) == row.rev = proc[p].row.rev

Fault == faults < MaxFaults /\ faults' = faults + 1

Matched(player) == phone.sid = player.sid /\ player.inst \in {0, phone.inst}

-----------------------------------------------------------------------------
(* Shared by the step and the calls.                                       *)

\* The fix of a sample: the model clock stops where the route ends.
PlayerFix(sample, here) ==
  [el |-> IF sample < End THEN sample ELSE End,
   here |-> here, stale |-> FALSE, boot |-> phone.inst]

Followed(f, radio) == IF lc.boot = f.boot THEN lc ELSE Opened(f.boot, radio)

\* The states the lifecycle may be in after feedIdentifiedTripGps.  There is no
\* radio receiver behind it, so a frame is settled or the evidence store failed.
Fed(sample, here) ==
  { OnIdentifiedFix(Followed(PlayerFix(sample, here), radio), PlayerFix(sample, here), out, armed) :
      radio \in BOOLEAN, out \in {"settled", "fails_before"}, armed \in BOOLEAN }

\* recordProgress: the row under its revision, and the fix of that sample.
RecordRow(p, s) ==
  row' = [row EXCEPT !.at = IF s.pos # Never THEN s.pos ELSE @,
                     !.player = [proc[p].row.player EXCEPT !.ended = s.state \in PlayerTerminal /\ s.clean]]

FreshPhone == phone.state = "IDLE" /\ phone.sid = 0 /\ phone.clean

\* stopPlayerTrip, to its status and cancel: what may come back from the phone.
\* The cancel may take effect although its answer is lost.
StopCommand(p) ==
  LET player == proc[p].row.player IN
  /\ proc[p].pc = "stop"
  /\ \/ /\ player.sid = 0
        /\ Goto(p, "stopped")
        /\ lc' = Closed
        /\ UNCHANGED phone
     \/ /\ player.sid # 0 /\ (FreshPhone \/ (Matched(player) /\ phone.state \in PlayerTerminal))
        /\ GotoSeeing(p, "settle", phone)
        /\ UNCHANGED <<phone, lc>>
     \/ /\ player.sid # 0 /\ Matched(player) /\ phone.state \in Live
        /\ \E clean \in BOOLEAN :
             /\ phone' = [phone EXCEPT !.state = "CANCELLED", !.clean = clean]
             /\ \/ GotoSeeing(p, "settle", phone') /\ UNCHANGED lc
                \/ Goto(p, "unstopped") /\ lc' = Closed
     \/ /\ player.sid # 0
        /\ Goto(p, "unstopped")
        /\ lc' = Closed
        /\ UNCHANGED phone
  /\ UNCHANGED <<row, device, lease, begun>> /\ Kept

\* Its end: an unconfirmed cleanup or a changed row refuses; the plan and the
\* lifecycle are dropped either way.
StopSettles(p) ==
  /\ proc[p].pc = "settle"
  /\ lc' = Closed
  /\ LET s == proc[p].seen IN
     IF s.clean /\ Current(p)
     THEN /\ IF s.sid = proc[p].row.player.sid
             THEN RecordRow(p, s)
             ELSE row' = [row EXCEPT !.player = proc[p].row.player]
          /\ GotoHolding(p, "stopped", [proc[p].row EXCEPT !.player = row'.player, !.at = row'.at])
     ELSE Goto(p, "unstopped") /\ UNCHANGED row
  /\ UNCHANGED <<device, phone, lease, begun>> /\ Kept

-----------------------------------------------------------------------------
(* stepPlayerTrip.                                                         *)

StepBegins ==
  /\ proc["step"].pc = "idle" /\ lease = "free"
  /\ row.status \in {"RUNNING", "ARRIVING"}
  /\ lease' = "step"
  /\ GotoHolding("step", IF row.status = "ARRIVING" THEN "poll" ELSE "identify", row)
  /\ UNCHANGED <<row, device, phone, lc, begun>> /\ Kept

\* pollPlayerArrival feeds the last accepted fix again, with the same clock.
Poll ==
  /\ proc["step"].pc = "poll"
  /\ lc' \in Fed(proc["step"].row.at, TRUE)
  /\ Goto("step", "finish")
  /\ UNCHANGED <<row, device, phone, lease, begun>> /\ Kept

\* requireOwner: the lease and the row, just before a command.
Owner ==
  /\ lease = "step"
  /\ row.status = "RUNNING" /\ Current("step") /\ device.claimed /\ device.active

Throws == Goto("step", "catch")

\* The step stores its player state under the revision it read.
StoreAnd(where, player) ==
  /\ row' = [row EXCEPT !.player = player]
  /\ GotoHolding("step", where, [proc["step"].row EXCEPT !.player = player])

StepWaits == UNCHANGED <<device, phone, lease, lc, begun, known, calls, grants, faults, lapsed>>

\* A new session is stored before any command names it; one that ended is not revived.
Identify ==
  /\ proc["step"].pc = "identify"
  /\ LET player == proc["step"].row.player IN
     IF ~Owner \/ player.ended THEN Throws /\ UNCHANGED <<row, opened>>
     ELSE IF player.sid # 0 THEN Goto("step", "status") /\ UNCHANGED <<row, opened>>
     ELSE /\ StoreAnd("status", [NoPlayer EXCEPT !.sid = opened + 1, !.off = row.at])
          /\ opened' = opened + 1
  /\ StepWaits

\* The status request, and the player instance bound to the session.
Status ==
  /\ proc["step"].pc = "status"
  /\ LET player == proc["step"].row.player
         next == IF player.started THEN "own_beat" ELSE "own_prepare"
     IN  \/ Throws /\ UNCHANGED row
         \/ player.inst = phone.inst /\ Goto("step", next) /\ UNCHANGED row
         \/ player.inst = 0 /\ Current("step") /\ StoreAnd(next, [player EXCEPT !.inst = phone.inst])
  /\ UNCHANGED opened /\ StepWaits

Owns(where, next) ==
  /\ proc["step"].pc = where
  /\ IF Owner THEN Goto("step", next) ELSE Throws
  /\ UNCHANGED <<row, opened>> /\ StepWaits

\* prepare, append and commit: the player takes a session when it plays none,
\* and answers with its state when it holds that session already.
Prepare ==
  /\ proc["step"].pc = "prepare"
  /\ \/ /\ phone.state \notin Live
        /\ phone' = [phone EXCEPT !.sid = proc["step"].row.player.sid, !.state = "READY",
                                  !.pos = Never, !.clean = TRUE]
        /\ Goto("step", "own_start") \/ Throws
     \/ /\ phone.sid = proc["step"].row.player.sid
        /\ IF phone.state = "READY" THEN Goto("step", "own_start") ELSE GotoSeeing("step", "record", phone)
        /\ UNCHANGED phone
     \/ Throws /\ UNCHANGED phone
  /\ UNCHANGED <<row, device, lease, lc, begun>> /\ Kept

\* Mutant: the start is sent without being stored first.
StoreStartedLater ==
  /\ proc["step"].pc = "store_started"
  /\ Goto("step", "start")
  /\ UNCHANGED <<row, opened>> /\ StepWaits

\* started is stored before the start is sent.
StoreStarted ==
  /\ proc["step"].pc = "store_started"
  /\ IF Current("step") THEN StoreAnd("start", [proc["step"].row.player EXCEPT !.started = TRUE])
     ELSE Throws /\ UNCHANGED row
  /\ UNCHANGED opened /\ StepWaits

\* The player starts a session only from READY; the answer may be lost.
StartPlaying ==
  /\ proc["step"].pc = "start"
  /\ LET player == proc["step"].row.player IN
     \/ /\ phone.sid = player.sid /\ phone.state = "READY"
        /\ phone' = [phone EXCEPT !.state = "PLAYING", !.pos = player.off]
        /\ begun' = [begun EXCEPT ![player.sid] = @ + 1]
        /\ GotoSeeing("step", "record", phone') \/ Throws
     \/ Throws /\ UNCHANGED <<phone, begun>>
  /\ UNCHANGED <<row, device, lease, lc>> /\ Kept

Heartbeat ==
  /\ proc["step"].pc = "beat"
  /\ \/ Matched(proc["step"].row.player) /\ GotoSeeing("step", "record", phone)
     \/ Throws
  /\ UNCHANGED <<row, device, phone, lease, lc, begun>> /\ Kept

Record ==
  /\ proc["step"].pc = "record"
  /\ LET s == proc["step"].seen
         arrived == s.state = "COMPLETED" /\ s.clean
     IN  IF ~Current("step") THEN Throws /\ UNCHANGED <<row, lc, lease>>
         ELSE /\ RecordRow("step", s)
              /\ IF s.pos # Never THEN lc' \in Fed(s.pos, s.pos >= Near) ELSE UNCHANGED lc
              /\ LET copy == [proc["step"].row EXCEPT !.player = row'.player, !.at = row'.at] IN
                 IF s.state \notin PlayerTerminal THEN Leave("step")
                 ELSE GotoHolding("step", IF arrived THEN "finish" ELSE "catch", copy) /\ UNCHANGED lease
  /\ UNCHANGED <<device, phone, begun>> /\ Kept

\* finishPlayerArrival: wait in ARRIVING, or go on to the arrival.
Finish ==
  /\ proc["step"].pc = "finish"
  /\ IF CanRelease(lc) THEN Goto("step", "arrive") /\ UNCHANGED <<row, lease>>
     ELSE /\ row' = IF Current("step") /\ row.status \in {"RUNNING", "ARRIVING"}
                    THEN [row EXCEPT !.status = "ARRIVING"] ELSE row
          /\ Leave("step")
  /\ UNCHANGED <<device, phone, lc, begun>> /\ Kept

\* The update names the trip by its id alone.
ArriveRow == [row EXCEPT !.status = "ARRIVED"]

Arrived ==
  /\ proc["step"].pc = "arrive"
  /\ row' = ArriveRow
  /\ device' = [claimed |-> FALSE, active |-> FALSE]
  /\ lc' = Closed
  /\ Leave("step")
  /\ UNCHANGED <<phone, begun>> /\ Kept

\* The handler of a failed step: no more heartbeats, stop if reachable, pause.
\* A pause whose evidence cannot be written skips the stop, which would drop
\* the lifecycle: it stays PAUSED.
Catch ==
  /\ proc["step"].pc = "catch"
  /\ lc' = Pause(lc)
  /\ Goto("step", "stop") \/ (PauseWrites(lc) /\ Goto("step", "unstopped"))
  /\ UNCHANGED <<row, device, phone, lease, begun>> /\ Kept

PauseAfterFailure ==
  /\ proc["step"].pc \in {"stopped", "unstopped"}
  /\ row' = IF Current("step") /\ row.status = "RUNNING" THEN [row EXCEPT !.status = "PAUSED"] ELSE row
  /\ device' = IF device.claimed THEN [device EXCEPT !.active = FALSE] ELSE device
  /\ Leave("step")
  /\ UNCHANGED <<phone, lc, begun>> /\ Kept

\* The database fails instead: the row stays RUNNING, and the scheduler steps it
\* again, with the lifecycle the failed pause or the stop left.
StoreUnavailable ==
  /\ proc["step"].pc \in {"stopped", "unstopped"}
  /\ Fault
  /\ Leave("step")
  /\ UNCHANGED <<row, device, phone, known, lc, calls, grants, opened, begun, lapsed>>

Step ==
  \/ StepBegins \/ Poll \/ Identify \/ Status
  \/ Owns("own_prepare", "prepare") \/ Prepare
  \/ Owns("own_start", "store_started") \/ StoreStarted \/ StartPlaying
  \/ Owns("own_beat", "beat") \/ Heartbeat
  \/ Record \/ Finish \/ Arrived \/ Catch \/ PauseAfterFailure
  \/ StopCommand("step") \/ StopSettles("step")

-----------------------------------------------------------------------------
(* startTrip, pauseTrip, resumeTrip, cancelTrip.                           *)

Allowed ==
  [start |-> {"PREVIEW"}, pause |-> {"RUNNING", "ARRIVING", "PAUSED"}, resume |-> {"PAUSED"},
   cancel |-> {"PREVIEW", "RUNNING", "ARRIVING", "PAUSED"}]

UserBegins(o) ==
  /\ proc["user"].pc = "idle" /\ lease = "free"
  /\ row.status \in Allowed[o]
  /\ calls < MaxCalls
  /\ calls' = calls + 1
  /\ o \in {"start", "resume"} => grants < MaxGrants
  /\ lease' = "user"
  /\ lc' = CASE o = "pause" -> Pause(lc) [] o = "cancel" -> Cancel(lc, "settled") [] OTHER -> lc
  /\ proc' = [proc EXCEPT !["user"] =
                [Idle EXCEPT !.pc = IF o = "start" THEN "ready" ELSE "stop", !.row = row, !.op = o]]
  /\ UNCHANGED <<row, device, phone, known, grants, opened, begun, faults, lapsed>>

\* pauseTripRadio or cancelTripRadio fails, and the call with it: the lifecycle
\* keeps the stage that was set before its evidence was written, a cancelled
\* one perhaps that of its cleanup.
UserUnrecorded(o) ==
  /\ proc["user"].pc = "idle" /\ lease = "free"
  /\ row.status \in Allowed[o]
  /\ calls < MaxCalls
  /\ calls' = calls + 1
  /\ \/ o = "pause" /\ PauseWrites(lc) /\ lc' = Pause(lc)
     \/ o = "cancel" /\ lc.open /\ lc' \in {Cancelled(lc), Cancel(lc, "fails_before")}
  /\ UNCHANGED <<row, device, phone, known, lease, proc, grants, opened, begun, faults, lapsed>>

UserStopped ==
  /\ proc["user"].pc \in {"stopped", "unstopped"}
  /\ IF proc["user"].pc = "unstopped" THEN Leave("user")
     ELSE IF proc["user"].op = "resume" THEN Goto("user", "ready") /\ UNCHANGED lease
     ELSE Goto("user", "own") /\ UNCHANGED lease
  /\ UNCHANGED <<row, device, phone, lc, begun>> /\ Kept

\* evaluatePlayerReadiness on a status that names this controller's session.
Readiness ==
  IF known \notin {0, phone.inst} THEN "RESTARTED"
  ELSE IF ~phone.clean \/ phone.state \in Live THEN "BUSY"
  ELSE "READY"

\* preparePlayerStart: the check remembers the instance, and one restart is
\* looked at again before it refuses.
Ready ==
  /\ proc["user"].pc = "ready"
  /\ \/ /\ known' = phone.inst
        /\ IF Readiness = "READY" \/ (Readiness = "RESTARTED" /\ phone.clean /\ phone.state \notin Live)
           THEN Goto("user", "own") /\ UNCHANGED lease
           ELSE Leave("user")
     \/ Leave("user") /\ UNCHANGED known
  /\ UNCHANGED <<row, device, phone, lc, calls, grants, opened, begun, faults, lapsed>>

\* The last assertOwned before the transaction.
UserOwns ==
  /\ proc["user"].pc = "own"
  /\ IF lease = "user" THEN Goto("user", "commit") /\ UNCHANGED lease ELSE Leave("user")
  /\ UNCHANGED <<row, device, phone, lc, begun>> /\ Kept

Becomes == [start |-> "RUNNING", pause |-> "PAUSED", resume |-> "RUNNING", cancel |-> "CANCELLED"]

UserCommits ==
  /\ proc["user"].pc = "commit"
  /\ Leave("user")
  /\ LET op == proc["user"].op
         moves == op \in {"start", "resume"}
     IN  IF /\ Current("user") /\ row.status = proc["user"].row.status
            /\ op = "start" => ~device.claimed
            /\ op = "resume" => device.claimed
         THEN /\ row' = [row EXCEPT !.status = Becomes[op], !.rev = @ + 1,
                                    !.player = IF op = "resume" THEN NoPlayer ELSE @]
              /\ device' = [claimed |-> op # "cancel" /\ (device.claimed \/ op = "start"),
                            active |-> moves]
              /\ grants' = IF moves THEN grants + 1 ELSE grants
         ELSE UNCHANGED <<row, device, grants>>
  /\ UNCHANGED <<phone, known, lc, calls, opened, begun, faults, lapsed>>

User ==
  \/ \E o \in DOMAIN Allowed : UserBegins(o) \/ UserUnrecorded(o)
  \/ StopCommand("user") \/ StopSettles("user") \/ UserStopped \/ Ready \/ UserOwns \/ UserCommits

-----------------------------------------------------------------------------
(* The player, the clock and the faults.                                   *)

Plays ==
  /\ phone.state = "PLAYING"
  /\ IF phone.pos < LastSample
     THEN phone' = [phone EXCEPT !.pos = @ + 1]
     ELSE \E clean \in BOOLEAN : phone' = [phone EXCEPT !.state = "COMPLETED", !.clean = clean]
  /\ UNCHANGED <<row, device, known, lc, lease, proc, calls, grants, opened, begun, faults, lapsed>>

\* No heartbeat for 15 s.
Expires ==
  /\ phone.state \in Live
  /\ phone' = [phone EXCEPT !.state = "EXPIRED"]
  /\ UNCHANGED <<row, device, known, lc, lease, proc, calls, grants, opened, begun, faults, lapsed>>

WindowPasses ==
  /\ lc.waited \in 0..Window - 1
  /\ lc' = [lc EXCEPT !.waited = @ + 1]
  /\ UNCHANGED <<row, device, phone, known, lease, proc, calls, grants, opened, begun, faults, lapsed>>

PhoneRestarts ==
  /\ Fault
  /\ phone' = [inst |-> phone.inst + 1, sid |-> 0, state |-> "IDLE", pos |-> Never, clean |-> TRUE]
  /\ UNCHANGED <<row, device, known, lc, lease, proc, calls, grants, opened, begun, lapsed>>

LeaseLapses ==
  /\ Fault
  /\ lease # "free"
  /\ lease' = "free"
  /\ lapsed' = TRUE
  /\ UNCHANGED <<row, device, phone, known, lc, proc, calls, grants, opened, begun>>

\* The controller dies and recoverTrips pauses what it left running.
Restarts ==
  /\ Fault
  /\ proc' = [p \in Processes |-> Idle]
  /\ lease' = "free"
  /\ known' = 0
  /\ lc' = Closed
  /\ IF row.status \in {"RUNNING", "ARRIVING"}
     THEN /\ row' = [row EXCEPT !.status = "PAUSED", !.rev = @ + 1]
          /\ device' = IF device.claimed THEN [device EXCEPT !.active = FALSE] ELSE device
     ELSE UNCHANGED <<row, device>>
  /\ UNCHANGED <<phone, calls, grants, opened, begun, lapsed>>

Next == Step \/ User \/ Plays \/ Expires \/ WindowPasses \/ PhoneRestarts \/ LeaseLapses \/ Restarts \/ StoreUnavailable

\* The runner steps a trip that is due whenever its phone is free, and a call
\* once begun is finished.  The user calls finitely often (MaxCalls).
Fairness ==
  /\ WF_vars(Step)
  /\ WF_vars(StopCommand("user") \/ StopSettles("user") \/ UserStopped \/ Ready \/ UserOwns \/ UserCommits)

Spec == Init /\ [][Next]_vars /\ Fairness

-----------------------------------------------------------------------------

TypeOK ==
  /\ row.status \in {"PREVIEW", "RUNNING", "ARRIVING", "PAUSED", "ARRIVED", "CANCELLED"}
  /\ row.at \in 0..LastSample
  /\ row.player.sid \in {0} \cup Sessions
  /\ phone.state \in {"IDLE"} \cup Live \cup PlayerTerminal
  /\ phone.sid \in {0} \cup Sessions
  /\ lc.stage \in Stages /\ lc.gate \in GateStates
  /\ lease \in {"free"} \cup Processes
  /\ grants \in 0..MaxGrants

\* Nothing is replayed: the phone begins to play a session at most once, and
\* plays at most one session per start or resume of the user, whatever answers
\* are lost and however often the phone or the controller restarts.  A lease
\* that lapses under its holder escapes the first part: a call that read the
\* row before the start and stalled writes that player state back under the
\* same revision (stopPlayerTrip, store), and the session looks unstarted.  The
\* second part holds even then.
PlaysArePermitted ==
  /\ ~lapsed => \A s \in Sessions : begun[s] <= 1
  /\ Cardinality({s \in Sessions : begun[s] > 0}) <= grants

\* A phone the trip has let go, by arrival or by a cancel, is still: no session
\* of the trip plays on it.  A lease that lapses under its holder escapes it,
\* for the start of a step then meets the commit of a cancel.
ReleasedPhoneIsStill ==
  row.status \in {"ARRIVED", "CANCELLED"} /\ ~lapsed => phone.state # "PLAYING"

\* A pause whose evidence could not be written: nobody is about to drop the lifecycle.
LeftPaused ==
  lc.stage = "PAUSED" /\ \A p \in Processes : proc[p].pc \notin {"stop", "settle"}

\* A trip that waits in ARRIVING leaves that state (radio/lifecycle.ts,
\* maybeTimeout and notePlayerGpsCleaned), although the wait feeds the gate the
\* same clock again.  Two trips escape it, and hold their phone until the user
\* cancels: the one whose arrival frame was delivered, for the gate blocks on
\* the replayed clock and a blocked lifecycle is never cleaned; and the one
\* whose lifecycle was left paused, by a pause whose evidence the store
\* refused, for it heeds no fix any more.
ArrivingEnds ==
  (row.status = "ARRIVING" /\ ~lc.delivered /\ ~LeftPaused) ~>
    (row.status # "ARRIVING" \/ lc.delivered \/ LeftPaused)
=============================================================================
