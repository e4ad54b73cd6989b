------------------------------- MODULE Warmup -------------------------------
(***************************************************************************)
(* One warm-up campaign on one phone, through one calendar day: the        *)
(* planner that scans every 15 s (warmup/runner.ts), the requests of the   *)
(* operator (warmup/service.ts), the tasks at the provider, and the        *)
(* campaign's drive (warmup/campaignDrive.ts over trips/service.ts).       *)
(*                                                                         *)
(* The day has one drive slot and some RPA slots, of which the dependent   *)
(* ones wait for the drive.  The planner does one thing at a time; what it *)
(* does next is left open, which covers every order in which its lists     *)
(* name the runs.  A trip is what TripDrive makes of it: here only its     *)
(* status and whether it holds the phone.                                  *)
(***************************************************************************)
EXTENDS Naturals, FiniteSets

CONSTANTS
  Works,       \* the RPA slots of the day
  Dependent,   \* those that depend on the drive
  MaxNames,    \* bound: submission names per run, one more for each retry
  MaxOffs      \* bound: requests to turn the phone off that are on their way

ASSUME SlotsAndBounds ==
  /\ Dependent \subseteq Works /\ "drive" \notin Works
  /\ MaxNames \in Nat \ {0} /\ MaxOffs \in Nat

VARIABLES
  campaign,  \* SQL: the WarmupCampaign row
  run,       \* SQL: the WarmupRun rows
  trip,      \* SQL: the drive's DrivingTrip row, and whether the Device row names it
  task,      \* provider: the tasks by run and submission name
  phone,     \* provider: the phone's power
  offs,      \* provider: the requests to turn it off that may still take effect
  lease,     \* Redis: whether the planner owns the physical phone
  day,       \* the clock: before the deadline, after it, after the calendar
  plan       \* process: what the planner is doing

rows == <<campaign, run, trip>>
vars == <<rows, task, phone, offs, lease, day, plan>>

-----------------------------------------------------------------------------
Drive == "drive"
Runs  == Works \cup {Drive}
Names == 1..MaxNames

\* liveCampaignStates without DRAFT, which the scan does not look at
Scanned   == {"RUNNING", "PAUSED", "NEEDS_ATTENTION"}
Campaigns == [status   : Scanned \cup {"DRAFT", "COMPLETED", "CANCELLED"},
              reserved : BOOLEAN,   \* reservedImageId
              owned    : BOOLEAN]   \* powerOwned

Busy   == {"PREPARING", "SUBMITTING", "AWAITING", "RUNNING", "REMOTE_PAUSED", "UNCONFIRMED"}
Remote == Busy \ {"PREPARING"}
Ended  == {"SUCCEEDED", "FAILED", "MISSED", "SUSPENDED_IN_PLACE"}

\* FAILED stands for CANCELLED as well: a run and a task that were cancelled
\* are treated like those that failed.
\* name stands for providerName; issued: submittedAt and issueAt are set;
\* trip: evidenceJson names the drive's trip.
RunRows == [status : {"none", "WAITING"} \cup Busy \cup Ended,
            name : Names, issued : BOOLEAN, trip : BOOLEAN]

\* flying: posted and not yet at the provider; refused: it never will be
Open  == {"AWAITING", "RUNNING", "REMOTE_PAUSED"}
Final == {"SUCCEEDED", "FAILED"}
Tasks == {"none", "flying", "refused"} \cup Open \cup Final

Trips == [status : {"none", "PREVIEW", "RUNNING", "PAUSED", "ARRIVED", "CANCELLED"},
          holds  : BOOLEAN]

\* Places of the planner between two awaits: reconciling a task or the
\* drive, closing the campaign, dispatching a run, releasing the power (whose
\* hook has passed at "vouched" and whose request is out at "asking").
Dispatching == {"claiming", "claimed", "powered", "ready", "marked", "posted",
                "accepted", "previewed", "vetted", "driven"}
Releasing == {"releasing", "listing", "listed", "vouched", "asking"}
Places == Dispatching \cup Releasing \cup
          {"idle", "asked", "polled", "flag", "overrun", "missing", "closing"}

\* name is the run's as the planner read it, view what it was told about
\* that task, active whether it read the campaign as RUNNING.
Plans == [pc : Places, run : Runs, name : Names, view : Tasks, active : BOOLEAN]

Fresh == [status |-> "none", name |-> 1, issued |-> FALSE, trip |-> FALSE]
Idle  == [pc |-> "idle", run |-> Drive, name |-> 1, view |-> "none", active |-> FALSE]

Init ==
  /\ campaign = [status |-> "DRAFT", reserved |-> TRUE, owned |-> FALSE]
  /\ run = [r \in Runs |-> Fresh]
  /\ trip = [status |-> "none", holds |-> FALSE]
  /\ task = [w \in Works |-> [n \in Names |-> "none"]]
  /\ phone \in {"on", "off"} /\ offs = 0
  /\ lease = "free" /\ day = "open" /\ plan = Idle

-----------------------------------------------------------------------------
\* What the code asks before it acts.

At(pc)   == plan.pc = pc
Goto(pc) == plan' = [plan EXCEPT !.pc = pc]
Rest     == plan' = Idle
GiveBack == lease' = "free"

\* the update of every run that is WAITING and in some set
EndWaiting(some, status) ==
  run' = [r \in Runs |-> IF r \in some /\ run[r].status = "WAITING" THEN [run[r] EXCEPT !.status = status] ELSE run[r]]

Becomes(r, status) == run' = [run EXCEPT ![r].status = status]

AnyBusy == \E r \in Runs : run[r].status \in Busy

\* campaignStillRuns (the trip that may hold the phone is the campaign's own),
\* and assertWarmupOwnsDevice, which every control of the drive requires
StillRuns == campaign.status = "RUNNING" /\ campaign.reserved

\* beforeSend of a dispatch
MaySend == lease = "planner" /\ StillRuns

\* Mutant: whatever is not missed may start.
GateIsLax(r) == r \in Dependent => run[Drive].status \notin {"MISSED", "FAILED", "SUSPENDED_IN_PLACE"}

\* dependentDispatch, START and MISS; neither means WAIT
GateOpen(r) == r \in Dependent => run[Drive].status = "SUCCEEDED"
GateShut(r) == r \in Dependent /\ run[Drive].status \in (Ended \ {"SUCCEEDED"}) \cup {"none"}

-----------------------------------------------------------------------------
\* Reconciling a task.  The row was read before the provider is asked, and
\* the update names it by its id only.

Polls(w) ==
  /\ At("idle") /\ run[w].status \in Remote /\ run[w].issued
  /\ plan' = [pc |-> "asked", run |-> w, name |-> run[w].name, view |-> "none",
              active |-> campaign.status = "RUNNING"]
  /\ UNCHANGED <<rows, task, phone, offs, lease, day>>

\* taskEvidence; a task that is not there yet shows as no task
Evidence(t) == IF t \in Open \cup Final THEN t ELSE "none"

PollAnswered ==
  /\ At("asked")
  /\ plan' = [plan EXCEPT !.pc = "polled", !.view = Evidence(task[plan.run][plan.name])]
  /\ UNCHANGED <<rows, task, phone, offs, lease, day>>

\* no answer, an ambiguous one, or an absence that is not yet ten minutes old
PollTellsNothing ==
  /\ At("asked") \/ (At("polled") /\ plan.view = "none")
  /\ Rest
  /\ UNCHANGED <<rows, task, phone, offs, lease, day>>

RecordsEvidence ==
  /\ At("polled") /\ plan.view # "none"
  /\ Becomes(plan.run, plan.view)
  /\ Rest
  /\ UNCHANGED <<campaign, trip, task, phone, offs, lease, day>>

\* An open task past its expected window, or none found for ten minutes.
RecordsDoubt ==
  /\ At("polled") /\ plan.view \in Open \cup {"none"}
  /\ Becomes(plan.run, "UNCONFIRMED")
  /\ IF plan.view # "none" \/ plan.active THEN plan' = [Idle EXCEPT !.pc = "flag"] ELSE Rest
  /\ UNCHANGED <<campaign, trip, task, phone, offs, lease, day>>

FlagsCampaign ==
  /\ At("flag")
  /\ campaign' = [campaign EXCEPT !.status = "NEEDS_ATTENTION"]
  /\ Rest
  /\ UNCHANGED <<run, trip, task, phone, offs, lease, day>>

-----------------------------------------------------------------------------
\* Reconciling the drive.

\* A drive whose trip is not known, such as one in PREPARING, is left as it is.
ReadsDrive == At("idle") /\ run[Drive].status = "RUNNING" /\ run[Drive].trip

\* movementWindowOutcome says CONTINUE, and the trip has ended
DriveSucceeded ==
  /\ ReadsDrive /\ trip.status = "ARRIVED"
  /\ Becomes(Drive, "SUCCEEDED")
  /\ UNCHANGED <<campaign, trip, task, phone, offs, lease, day, plan>>

DriveFailed ==
  /\ ReadsDrive /\ trip.status = "CANCELLED"
  /\ Becomes(Drive, "FAILED")
  /\ Goto("missing")
  /\ UNCHANGED <<campaign, trip, task, phone, offs, lease, day>>

\* SUSPEND_IN_PLACE: pauseCampaignDrive takes window and lease, and is a
\* control like any other; if it is refused nothing is recorded.  (A drive
\* that was recorded has left PREVIEW, so only these statuses are possible.)
PausesOverrun ==
  /\ ReadsDrive /\ day # "open" /\ trip.status \in {"RUNNING", "PAUSED"}
  /\ lease = "free" /\ StillRuns
  /\ trip' = [trip EXCEPT !.status = "PAUSED"]
  /\ Goto("overrun")
  /\ UNCHANGED <<campaign, run, task, phone, offs, lease, day>>

RecordsSuspension ==
  /\ At("overrun")
  /\ Becomes(Drive, "SUSPENDED_IN_PLACE")
  /\ Goto("missing")
  /\ UNCHANGED <<campaign, trip, task, phone, offs, lease, day>>

\* missDependents
MissesDependents ==
  /\ At("missing")
  /\ EndWaiting(Dependent, "MISSED")
  /\ Rest
  /\ UNCHANGED <<campaign, trip, task, phone, offs, lease, day>>

-----------------------------------------------------------------------------
\* The scan's pass over the campaign.

\* materializeDays, which needs activatedAt
Materializes ==
  /\ At("idle") /\ campaign.status \in Scanned
  /\ \E r \in Runs : run[r].status = "none"
  /\ run' = [r \in Runs |-> IF run[r].status = "none"
                            THEN [run[r] EXCEPT !.status = IF day = "open" THEN "WAITING" ELSE "MISSED"]
                            ELSE run[r]]
  /\ UNCHANGED <<campaign, trip, task, phone, offs, lease, day, plan>>

NothingUnresolved == ~AnyBusy

\* WAITING runs past the deadline, then the question whether the campaign is over
SweepsDay ==
  /\ At("idle") /\ campaign.status \in Scanned /\ day # "open"
  /\ EndWaiting(Runs, "MISSED")
  /\ IF day = "over" /\ NothingUnresolved THEN Goto("closing") ELSE UNCHANGED plan
  /\ UNCHANGED <<campaign, trip, task, phone, offs, lease, day>>

Completes ==
  /\ At("closing")
  /\ campaign' = [campaign EXCEPT !.status = "COMPLETED", !.reserved = FALSE]
  /\ Rest
  /\ UNCHANGED <<run, trip, task, phone, offs, lease, day>>

MissesDependent(r) ==
  /\ At("idle") /\ campaign.status = "RUNNING" /\ day = "open"
  /\ run[r].status = "WAITING" /\ GateShut(r)
  /\ Becomes(r, "MISSED")
  /\ UNCHANGED <<campaign, trip, task, phone, offs, lease, day, plan>>

-----------------------------------------------------------------------------
\* Dispatching a run, under the lease and the environment window.

Dispatches(r) ==
  /\ At("idle") /\ lease = "free"
  /\ run[r].status = "WAITING" /\ day = "open" /\ GateOpen(r) /\ StillRuns
  /\ lease' = "planner"
  /\ plan' = [Idle EXCEPT !.pc = "claiming", !.run = r]
  /\ UNCHANGED <<rows, task, phone, offs, day>>

Claims ==
  /\ At("claiming")
  /\ IF ~AnyBusy /\ run[plan.run].status = "WAITING"
     THEN /\ Becomes(plan.run, "PREPARING")
          /\ Goto("claimed") /\ UNCHANGED lease
     ELSE Rest /\ GiveBack /\ UNCHANGED run
  /\ UNCHANGED <<campaign, trip, task, phone, offs, day>>

\* The catch block, and the end of the dispatch.
Recorded(sent) ==
  [run EXCEPT ![plan.run].status =
     IF @ \in {"PREPARING", "SUBMITTING"} THEN IF sent THEN "UNCONFIRMED" ELSE "WAITING" ELSE @]

\* A check that fails, a provider that does not answer, a profile that was
\* applied and is to be read back: before the submission all end alike.
PreflightFails ==
  /\ plan.pc \in {"claimed", "powered", "ready", "previewed", "vetted"}
  /\ run' = Recorded(FALSE) /\ Rest /\ GiveBack
  /\ UNCHANGED <<campaign, trip, task, phone, offs, day>>

\* powerRequestedAt, stored before the request, only spaces the attempts.
\* PreflightFails follows if the answer does not confirm the start.
PowersOn ==
  /\ At("claimed") /\ phone = "off" /\ MaySend
  /\ phone' = "on" /\ Goto("powered")
  /\ UNCHANGED <<rows, task, offs, lease, day>>

OwnsPower ==
  /\ At("powered")
  /\ campaign' = [campaign EXCEPT !.owned = TRUE]
  /\ run' = Recorded(FALSE) /\ Rest /\ GiveBack
  /\ UNCHANGED <<trip, task, phone, offs, day>>

\* gpsPreflight finds the phone elsewhere after an incomplete movement: one
\* of an earlier day that was suspended.
FindsContradiction ==
  /\ At("claimed") /\ phone = "on"
  /\ campaign' = [campaign EXCEPT !.status = "NEEDS_ATTENTION"]
  /\ run' = Recorded(FALSE) /\ Rest /\ GiveBack
  /\ UNCHANGED <<trip, task, phone, offs, day>>

PreflightPasses ==
  /\ At("claimed") /\ phone = "on"
  /\ Goto("ready")
  /\ UNCHANGED <<rows, task, phone, offs, lease, day>>

\* beforeSend of the submission; the update asks for the campaign again.
Marks ==
  /\ At("ready") /\ plan.run \in Works
  /\ MaySend /\ run[plan.run].status = "PREPARING"
  /\ run' = [run EXCEPT ![plan.run].status = "SUBMITTING", ![plan.run].issued = TRUE]
  /\ Goto("marked")
  /\ UNCHANGED <<campaign, trip, task, phone, offs, lease, day>>

Posts ==
  /\ At("marked")
  /\ task' = [task EXCEPT ![plan.run][run[plan.run].name] = "flying"]
  /\ Goto("posted")
  /\ UNCHANGED <<rows, phone, offs, lease, day>>

Acknowledged ==
  /\ At("posted") /\ task[plan.run][run[plan.run].name] \in Open \cup Final
  /\ Goto("accepted")
  /\ UNCHANGED <<rows, task, phone, offs, lease, day>>

\* Refused, answered too late or with an error, or never posted.  A second
\* key is refused by the hook, so a refusal ends here as well.
SubmissionFails ==
  /\ plan.pc \in {"marked", "posted"}
  /\ run' = Recorded(TRUE) /\ Rest /\ GiveBack
  /\ UNCHANGED <<campaign, trip, task, phone, offs, day>>

RecordsAcceptance ==
  /\ At("accepted")
  /\ run' = IF run[plan.run].status = "SUBMITTING" THEN [run EXCEPT ![plan.run].status = "AWAITING"] ELSE run
  /\ Rest /\ GiveBack
  /\ UNCHANGED <<campaign, trip, task, phone, offs, day>>

-----------------------------------------------------------------------------
\* Dispatching the drive: startCampaignDrive.  The idempotency key names the
\* run, so that whatever trip the run ever had is the one it gets.

CreatesTrip ==
  /\ At("ready") /\ plan.run = Drive /\ trip.status = "none"
  /\ StillRuns /\ ~trip.holds
  /\ trip' = [trip EXCEPT !.status = "PREVIEW"]
  /\ Goto("previewed")
  /\ UNCHANGED <<campaign, run, task, phone, offs, lease, day>>

FindsTrip ==
  /\ At("ready") /\ plan.run = Drive /\ trip.status # "none"
  /\ Goto(IF trip.status = "PREVIEW" THEN "previewed" ELSE "driven")
  /\ UNCHANGED <<rows, task, phone, offs, lease, day>>

\* mutate checks the owner when it loads the row; freshBaseline, with its
\* calls to the provider, lies between that and the transaction.
VetsStart ==
  /\ At("previewed") /\ trip.status = "PREVIEW" /\ StillRuns
  /\ Goto("vetted")
  /\ UNCHANGED <<rows, task, phone, offs, lease, day>>

StartsTrip ==
  /\ At("vetted") /\ trip.status = "PREVIEW" /\ ~trip.holds /\ phone = "on"
  /\ trip' = [status |-> "RUNNING", holds |-> TRUE]
  /\ Goto("driven")
  /\ UNCHANGED <<campaign, run, task, phone, offs, lease, day>>

\* The update asks for a RUNNING campaign; if it finds none nothing happens.
RecordsDrive ==
  /\ At("driven")
  /\ run' = IF run[Drive].status = "PREPARING" /\ campaign.status = "RUNNING"
            THEN [run EXCEPT ![Drive].status = "RUNNING", ![Drive].trip = TRUE] ELSE run
  /\ Rest /\ GiveBack
  /\ UNCHANGED <<campaign, trip, task, phone, offs, day>>

-----------------------------------------------------------------------------
\* releasePower, under the lease.

\* Mutant: an active trip does not matter.
NoWorkSoon(later) ==
  /\ ~AnyBusy
  /\ ~(campaign.status = "RUNNING" /\ day = "open" /\ \E r \in Runs \ later : run[r].status = "WAITING")

\* mayReleasePower and the counts before it.  A run that waits keeps the
\* power on unless it is later than ten minutes from now.  Where the phone is,
\* and its phase, are left open.
MayRelease(later) ==
  /\ ~trip.holds /\ ~AnyBusy
  /\ ~(campaign.status = "RUNNING" /\ day = "open" /\ \E r \in Runs \ later : run[r].status = "WAITING")

LooksToRelease ==
  /\ At("idle") /\ lease = "free" /\ campaign.owned
  /\ \E later \in SUBSET Runs : MayRelease(later)
  /\ lease' = "planner" /\ Goto("releasing")
  /\ UNCHANGED <<rows, task, phone, offs, day>>

\* Another campaign has the phone by now, and its power.
LosesPower ==
  /\ At("idle") /\ lease = "free" /\ campaign.owned /\ ~campaign.reserved
  /\ campaign' = [campaign EXCEPT !.owned = FALSE]
  /\ UNCHANGED <<run, trip, task, phone, offs, lease, day, plan>>

ObservesOff ==
  /\ At("releasing") /\ phone = "off"
  /\ campaign' = [campaign EXCEPT !.owned = FALSE]
  /\ Rest /\ GiveBack
  /\ UNCHANGED <<run, trip, task, phone, offs, day>>

ObservesOn ==
  /\ At("releasing") /\ phone = "on"
  /\ Goto("listing")
  /\ UNCHANGED <<rows, task, phone, offs, lease, day>>

\* nothing pending or running in the phone's own task list
ListsNoTask ==
  /\ At("listing")
  /\ \A w \in Works, n \in Names : task[w][n] \notin Open
  /\ Goto("listed")
  /\ UNCHANGED <<rows, task, phone, offs, lease, day>>

\* the hook: assertOwned, and the busy runs once more
Vouches ==
  /\ At("listed") /\ lease = "planner" /\ ~AnyBusy
  /\ Goto("vouched")
  /\ UNCHANGED <<rows, task, phone, offs, lease, day>>

AsksOff ==
  /\ At("vouched") /\ offs < MaxOffs
  /\ offs' = offs + 1 /\ Goto("asking")
  /\ UNCHANGED <<rows, task, phone, lease, day>>

\* 429 or a revoked key: the next key's turn runs the hook again.
OffKeyFails ==
  /\ At("asking") /\ offs > 0
  /\ offs' = offs - 1 /\ Goto("listed")
  /\ UNCHANGED <<rows, task, phone, lease, day>>

\* A check fails, a call has no answer, or the request was answered: it may
\* take effect before or after that.  campaign.owned stays until OFF is seen.
KeepsPower ==
  /\ plan.pc \in Releasing
  /\ Rest /\ GiveBack
  /\ UNCHANGED <<rows, task, phone, offs, day>>

-----------------------------------------------------------------------------
\* The operator's requests.  Start, resume and extend wait for the lease;
\* each request is one transaction.

Starts ==
  /\ campaign.status \in {"DRAFT", "PAUSED", "NEEDS_ATTENTION"} /\ lease = "free"
  /\ ~trip.holds /\ \A r \in Runs : run[r].status # "UNCONFIRMED"
  /\ campaign' = [campaign EXCEPT !.status = "RUNNING", !.reserved = TRUE]
  /\ UNCHANGED <<run, trip, task, phone, offs, lease, day, plan>>

Pauses ==
  /\ campaign.status \in {"RUNNING", "NEEDS_ATTENTION"}
  /\ campaign' = [campaign EXCEPT !.status = "PAUSED"]
  /\ UNCHANGED <<run, trip, task, phone, offs, lease, day, plan>>

Cancels ==
  /\ campaign.status \in Scanned \cup {"DRAFT"} /\ ~AnyBusy
  /\ campaign' = [campaign EXCEPT !.status = "CANCELLED", !.reserved = FALSE]
  /\ EndWaiting(Runs, "FAILED")
  /\ UNCHANGED <<trip, task, phone, offs, lease, day, plan>>

Extends ==
  /\ campaign.status # "CANCELLED" /\ lease = "free" /\ ~trip.holds /\ day # "open"
  /\ day' = "closed"
  /\ campaign' = [campaign EXCEPT !.reserved = TRUE,
                                  !.status = IF @ = "COMPLETED" THEN "PAUSED" ELSE @]
  /\ UNCHANGED <<run, trip, task, phone, offs, lease, plan>>

\* resolveRun: the operator confirms that the task has stopped, and is right.
Resolves(w) ==
  /\ run[w].status \in {"UNCONFIRMED", "REMOTE_PAUSED"}
  /\ task[w][run[w].name] \notin Open \cup {"flying"}
  /\ Becomes(w, "FAILED")
  /\ UNCHANGED <<campaign, trip, task, phone, offs, lease, day, plan>>

\* retryRun gives the run a new submission name.
Retries(r) ==
  /\ campaign.status = "RUNNING" /\ day = "open"
  /\ run[r].status = "FAILED" /\ run[r].name < MaxNames
  /\ run' = [run EXCEPT ![r] = [Fresh EXCEPT !.status = "WAITING", !.name = run[r].name + 1]]
  /\ UNCHANGED <<campaign, trip, task, phone, offs, lease, day, plan>>

\* The driving controls take window and lease.
Control(from, status) ==
  /\ trip.status \in from /\ StillRuns /\ lease = "free" /\ plan.pc \notin Dispatching
  /\ trip' = [trip EXCEPT !.status = status, !.holds = status # "CANCELLED"]
  /\ UNCHANGED <<campaign, run, task, phone, offs, lease, day, plan>>

StartsPreview == ~trip.holds /\ phone = "on" /\ Control({"PREVIEW"}, "RUNNING")
PausesDrive   == Control({"RUNNING"}, "PAUSED")
ResumesDrive  == phone = "on" /\ Control({"PAUSED"}, "RUNNING")
CancelsDrive  == Control({"PREVIEW", "RUNNING", "PAUSED"}, "CANCELLED")

-----------------------------------------------------------------------------
\* The trip's own steps, the provider, time, and the process.

DriveArrives ==
  /\ trip.status = "RUNNING" /\ lease = "free" /\ plan.pc \notin Dispatching
  /\ trip' = [status |-> "ARRIVED", holds |-> FALSE]
  /\ UNCHANGED <<campaign, run, task, phone, offs, lease, day, plan>>

\* pauseUnsafe, at any point of the way
DriveIsPaused ==
  /\ trip.status = "RUNNING" /\ lease = "free"
  /\ trip' = [trip EXCEPT !.status = "PAUSED"]
  /\ UNCHANGED <<campaign, run, task, phone, offs, lease, day, plan>>

TaskSteps(from) ==
  CASE from = "flying"        -> {"AWAITING", "refused"}
    [] from = "AWAITING"      -> {"RUNNING", "FAILED"}
    [] from = "RUNNING"       -> {"REMOTE_PAUSED", "SUCCEEDED", "FAILED"}
    [] from = "REMOTE_PAUSED" -> {"RUNNING", "FAILED"}
    [] OTHER                  -> {}

Provider ==
  /\ \E w \in Works, n \in Names : \E next \in TaskSteps(task[w][n]) : task' = [task EXCEPT ![w][n] = next]
  /\ UNCHANGED <<rows, phone, offs, lease, day, plan>>

\* A request to turn the phone off is carried out, or never will be.
TurnsOff ==
  /\ offs > 0 /\ offs' = offs - 1
  /\ phone' \in {phone, "off"}
  /\ UNCHANGED <<rows, task, lease, day, plan>>

PhoneTurnsOn ==
  /\ phone = "off" /\ phone' = "on"
  /\ UNCHANGED <<rows, task, offs, lease, day, plan>>

TimePasses ==
  /\ day' = CASE day = "open" -> "closed" [] day = "closed" -> "over" [] OTHER -> day
  /\ day' # day
  /\ UNCHANGED <<rows, task, phone, offs, lease, plan>>

\* The planner stalls, or Redis does, and the lease runs out.
Lapses ==
  /\ lease = "planner" /\ lease' = "free"
  /\ UNCHANGED <<rows, task, phone, offs, day, plan>>

\* Mutant: an interrupted submission is taken for an interrupted preflight.
Forgotten(status) == IF status \in {"PREPARING", "SUBMITTING"} THEN "WAITING" ELSE status

\* recoverWarmup
Recovered(status) ==
  CASE status = "PREPARING" -> "WAITING" [] status = "SUBMITTING" -> "UNCONFIRMED" [] OTHER -> status

\* recoverTrips and recoverWarmup run before anything else does.
Restarts ==
  /\ run' = [r \in Runs |-> [run[r] EXCEPT !.status = Recovered(@)]]
  /\ trip' = [trip EXCEPT !.status = IF @ = "RUNNING" THEN "PAUSED" ELSE @]
  /\ plan' = Idle /\ GiveBack
  /\ UNCHANGED <<campaign, task, phone, offs, day>>

-----------------------------------------------------------------------------
Reconciles ==
  \/ \E w \in Works : Polls(w)
  \/ PollAnswered \/ PollTellsNothing \/ RecordsEvidence \/ RecordsDoubt \/ FlagsCampaign
  \/ DriveSucceeded \/ DriveFailed \/ PausesOverrun \/ RecordsSuspension \/ MissesDependents

Passes == Materializes \/ SweepsDay \/ Completes \/ \E r \in Runs : MissesDependent(r)

Preflight ==
  \/ \E r \in Runs : Dispatches(r)
  \/ Claims \/ PreflightFails \/ PowersOn \/ OwnsPower \/ FindsContradiction \/ PreflightPasses

Submission == Marks \/ Posts \/ Acknowledged \/ SubmissionFails \/ RecordsAcceptance

Driving == CreatesTrip \/ FindsTrip \/ VetsStart \/ StartsTrip \/ RecordsDrive

Release ==
  \/ LooksToRelease \/ LosesPower \/ ObservesOff \/ ObservesOn \/ ListsNoTask
  \/ Vouches \/ AsksOff \/ OffKeyFails \/ KeepsPower

Planner == Reconciles \/ Passes \/ Preflight \/ Submission \/ Driving \/ Release

Operator ==
  \/ Starts \/ Pauses \/ Cancels \/ Extends
  \/ (\E w \in Works : Resolves(w)) \/ (\E r \in Runs : Retries(r))
  \/ StartsPreview \/ PausesDrive \/ ResumesDrive \/ CancelsDrive

Surroundings ==
  \/ DriveArrives \/ DriveIsPaused \/ Provider \/ TurnsOff \/ PhoneTurnsOn
  \/ TimePasses \/ Lapses \/ Restarts

Next == Planner \/ Operator \/ Surroundings

Spec == Init /\ [][Next]_vars

\* The planner goes on with what it began (every await of it is bounded) and
\* scans again; the operator keeps trying to end the drive: to cancel it, to
\* let it go on, to start the campaign that owns it.
InsistentSpec ==
  /\ Spec
  /\ WF_vars(Planner /\ ~At("idle")) /\ SF_vars(PausesOverrun) /\ SF_vars(DriveSucceeded)
  /\ SF_vars(CancelsDrive) /\ SF_vars(ResumesDrive) /\ SF_vars(Starts)

-----------------------------------------------------------------------------
\* What a reader may rely on.

TypeOK ==
  /\ campaign \in Campaigns
  /\ run \in [Runs -> RunRows]
  /\ trip \in Trips
  /\ task \in [Works -> [Names -> Tasks]]
  /\ phone \in {"on", "off"} /\ offs \in Nat /\ lease \in {"free", "planner"} /\ day \in {"open", "closed", "over"}
  /\ plan \in Plans

\* a submission that runs or may still come to run
Possible(w, n) == task[w][n] \in Open \cup {"flying"}

\* No second submission leaves while an earlier one may still run: neither
\* of another slot, nor of the same slot under a new name, whatever answers
\* were lost, whenever the process died, and however the operator resolved
\* and retried (the counts of busyRunStates in dispatch, campaignAction and
\* the recovery of SUBMITTING).
OneTaskAtATime ==
  \A w, v \in Works, n, m \in Names : Possible(w, n) /\ Possible(v, m) => w = v /\ n = m

\* The phone stays reserved for the campaign while a task of it may run, so
\* that other services keep away: neither cancel nor the end of the
\* calendar give up a phone whose work is in doubt.
PhoneIsReserved ==
  (\E w \in Works, n \in Names : Possible(w, n)) => campaign.reserved

\* A campaign's work is in order: its rows are well formed, at most one task may
\* be running, and the phone is reserved while it may.
CampaignIsOrderly == TypeOK /\ OneTaskAtATime /\ PhoneIsReserved

\* Work that depends on the drive reaches the provider only after the drive
\* has arrived, also when the drive is retried, suspended or recovered.
DependentAfterArrival ==
  \A w \in Dependent, n \in Names : task[w][n] # "none" => trip.status = "ARRIVED"

\* no task of the campaign runs or may still come to run
TaskFree == ~\E w \in Works, n \in Names : Possible(w, n)

\* What the step may be in which the hook passes, in which the request leaves,
\* and in which the phone goes off while the planner waits for the answer.
PowerOffStep ==
  LET vouches  == plan'.pc = "vouched" /\ plan.pc # "vouched"
      asks     == offs' > offs
      turnsOff == phone = "on" /\ phone' = "off" /\ At("asking")
  IN  /\ vouches \/ asks \/ turnsOff => campaign.owned /\ TaskFree
      /\ vouches => ~trip.holds
      /\ (asks \/ turnsOff) /\ lease = "planner" => ~trip.holds

\* The hook of a power-off passes only for a phone whose start the campaign
\* confirmed, that no trip holds and on which no task of the campaign may
\* run; all but the trip, which the lease keeps away, still holds when the
\* request leaves.  So while the lease lasts the request takes a phone from
\* nobody, when it leaves as well as when it takes effect before its answer,
\* although the counts, the task list, the hook and the request are awaits
\* apart (warmup/runner.ts:205-225).  A request that takes effect after the
\* planner went on, or under a lost lease, is beyond this.
PowerOffIsSafe == [][PowerOffStep]_vars

\* What the code's own texts promise and the code does not keep.

\* WARMUP.md: the planner polls by "a unique immutable submission name".
\* A run that is on record as accepted, running or paused at the provider is
\* so because of a task of its own name.
EvidenceIsItsOwn ==
  \A w \in Works : run[w].status \in Open => task[w][run[w].name] # "none"

\* registry.ts: "A driving trip owns this device. Pause or cancel it through
\* the Driving controls."  Whoever reads that, when the campaign is over and
\* none of its tasks is in doubt, and insists on it, gets the phone back.
DriveCanBeEnded ==
  trip.holds /\ campaign.status \in {"COMPLETED", "CANCELLED"} /\ ~AnyBusy ~> ~trip.holds

=============================================================================
