---------------------------- MODULE WarmupProofs ----------------------------
(***************************************************************************)
(* A warm-up campaign of any number of slots and retries: its rows are     *)
(* well formed, one task at a time may be running at the provider, the     *)
(* phone stays reserved meanwhile, dependent work waits for the drive, and *)
(* the power goes off under nobody.                                        *)
(***************************************************************************)
EXTENDS Warmup, TLAPS

\* The planner claims a run only when no run is busy.
OneBusy ==
  \A r, s \in Runs : run[r].status \in Busy /\ run[s].status \in Busy => r = s

\* A task that may run is the one its run is on record with, under the run's
\* present name, and the phone is reserved for it.
TasksAreOnRecord ==
  \A w \in Works, n \in Names : Possible(w, n) =>
    run[w].status \in Remote /\ run[w].name = n /\ campaign.reserved

\* What dependent work waits for.
DriveArrived == run[Drive].status = "SUCCEEDED" => trip.status = "ARRIVED"

\* A poll may be of a name its run no longer has: the operator resolved the
\* run, and retried it, since the row was read.  Then no task of the run may
\* run; nor is any other run busy, whatever the answer is recorded as.
PollFits ==
  plan.pc \in {"asked", "polled"} =>
    /\ plan.run \in Works
    /\ \A r \in Runs : run[r].status \in Busy => r = plan.run
    /\ \A n \in Names : Possible(plan.run, n) => n = plan.name
    /\ plan.view \in {"none"} \cup Open \cup Final
    /\ plan.view \in Final => task[plan.run][plan.name] \in Final

\* The row of a run in dispatch is changed by its dispatch alone.
Preparing  == {"claimed", "powered", "ready", "previewed", "vetted", "driven"}
Submitting == {"marked", "posted", "accepted"}

DispatchFits ==
  /\ plan.pc \in Preparing => run[plan.run].status = "PREPARING"
  /\ plan.pc \in Submitting =>
       plan.run \in Works /\ run[plan.run].status = "SUBMITTING" /\ campaign.reserved
  /\ plan.pc \in Dispatching /\ plan.run \in Dependent => trip.status = "ARRIVED"

\* What was counted before a campaign is closed or the power released still
\* holds when it is, the trip's hold as long as the lease is.
ClosingFits == plan.pc = "closing" => ~AnyBusy
ReleaseFits ==
  /\ plan.pc \in Releasing => campaign.owned /\ (lease = "planner" => ~trip.holds)
  /\ plan.pc \in {"vouched", "asking"} => ~AnyBusy

WorkFits == OneBusy /\ TasksAreOnRecord /\ DriveArrived /\ DependentAfterArrival
PlanFits == PollFits /\ DispatchFits /\ ClosingFits /\ ReleaseFits
IInv     == TypeOK /\ WorkFits /\ PlanFits

-----------------------------------------------------------------------------
LEMMA NameKept == 1 \in Names
  BY SlotsAndBounds DEF Names

LEMMA InitType == Init => TypeOK
  BY NameKept DEF Init, TypeOK, Campaigns, Scanned, Runs, RunRows, Fresh, Trips, Tasks, Plans, Places, Idle

\* A status in a row leaves the rows well formed.
LEMMA BecomesType ==
  ASSUME TypeOK, NEW r \in Runs, NEW s \in {"WAITING"} \cup Busy \cup Ended, Becomes(r, s)
  PROVE  run' \in [Runs -> RunRows]
  BY DEF TypeOK, Becomes, RunRows

LEMMA EndWaitingType ==
  ASSUME TypeOK, NEW some, NEW s \in {"WAITING"} \cup Busy \cup Ended, EndWaiting(some, s)
  PROVE  run' \in [Runs -> RunRows]
  BY DEF TypeOK, EndWaiting, RunRows

LEMMA RecordedType ==
  ASSUME TypeOK, NEW sent \in BOOLEAN, run' = Recorded(sent)
  PROVE  run' \in [Runs -> RunRows]
  BY DEF TypeOK, Recorded, RunRows, Busy, Plans

LEMMA RestType == ASSUME Rest PROVE plan' \in Plans
  BY NameKept DEF Rest, Idle, Plans, Places, Runs, Tasks

LEMMA GotoType == ASSUME TypeOK, NEW pc \in Places, Goto(pc) PROVE plan' \in Plans
  BY DEF TypeOK, Goto, Plans

LEMMA GotoPlan ==
  ASSUME TypeOK, NEW pc, Goto(pc)
  PROVE  plan'.pc = pc /\ plan'.run = plan.run
  BY DEF TypeOK, Goto, Plans

LEMMA ReconcilesType ==
  ASSUME TypeOK, PollFits, Reconciles
  PROVE  TypeOK'
<1> USE DEF rows
<1>1. CASE \E w \in Works : Polls(w)
  BY <1>1 DEF Polls, TypeOK, Plans, Places, RunRows, Runs, Tasks
<1>2. CASE PollAnswered
  BY <1>2 DEF PollAnswered, Evidence, TypeOK, Plans, Places, Tasks
<1>3. CASE PollTellsNothing
  BY <1>3, RestType DEF PollTellsNothing, TypeOK
<1>4. CASE RecordsEvidence
  <2>1. plan.run \in Runs /\ plan.view \in {"WAITING"} \cup Busy \cup Ended
    BY <1>4 DEF RecordsEvidence, At, PollFits, TypeOK, Plans, Open, Final, Busy, Ended
  <2> QED
    BY <1>4, <2>1, BecomesType, RestType DEF RecordsEvidence, TypeOK
<1>5. CASE RecordsDoubt
  <2>1. plan.run \in Runs /\ "UNCONFIRMED" \in Busy
    BY DEF TypeOK, Plans, Busy
  <2>2. plan' \in Plans
    BY <1>5, RestType, NameKept DEF RecordsDoubt, Idle, Plans, Places, Runs, Tasks
  <2> QED
    BY <1>5, <2>1, <2>2, BecomesType DEF RecordsDoubt, TypeOK
<1>6. CASE FlagsCampaign
  BY <1>6, RestType DEF FlagsCampaign, TypeOK, Campaigns, Scanned
<1>7. CASE DriveSucceeded
  BY <1>7, BecomesType DEF DriveSucceeded, TypeOK, Runs, Ended
<1>8. CASE DriveFailed
  BY <1>8, BecomesType, GotoType DEF DriveFailed, TypeOK, Runs, Ended, Places
<1>9. CASE PausesOverrun
  BY <1>9, GotoType DEF PausesOverrun, TypeOK, Trips, Places
<1>10. CASE RecordsSuspension
  BY <1>10, BecomesType, GotoType DEF RecordsSuspension, TypeOK, Runs, Ended, Places
<1>11. CASE MissesDependents
  BY <1>11, EndWaitingType, RestType DEF MissesDependents, TypeOK, Ended
<1> QED
  BY <1>1, <1>2, <1>3, <1>4, <1>5, <1>6, <1>7, <1>8, <1>9, <1>10, <1>11 DEF Reconciles

LEMMA PassesType ==
  ASSUME TypeOK, Passes
  PROVE  TypeOK'
<1> USE DEF rows
<1>1. CASE Materializes
  <2>1. run' \in [Runs -> RunRows]
    BY <1>1 DEF Materializes, TypeOK, RunRows, Ended
  <2> QED
    BY <1>1, <2>1 DEF Materializes, TypeOK
<1>2. CASE SweepsDay
  BY <1>2, EndWaitingType, GotoType DEF SweepsDay, TypeOK, Ended, Places
<1>3. CASE Completes
  BY <1>3, RestType DEF Completes, TypeOK, Campaigns
<1>4. CASE \E r \in Runs : MissesDependent(r)
  BY <1>4, BecomesType DEF MissesDependent, TypeOK, Ended
<1> QED
  BY <1>1, <1>2, <1>3, <1>4 DEF Passes

LEMMA PreflightType ==
  ASSUME TypeOK, Preflight
  PROVE  TypeOK'
<1> USE DEF rows, GiveBack
<1>1. CASE \E r \in Runs : Dispatches(r)
  BY <1>1, NameKept DEF Dispatches, TypeOK, Idle, Plans, Places, Dispatching, Tasks
<1>2. CASE Claims
  <2>1. plan.run \in Runs /\ "PREPARING" \in Busy /\ "claimed" \in Places
    BY DEF TypeOK, Plans, Busy, Places, Dispatching
  <2> QED
    BY <1>2, <2>1, BecomesType, GotoType, RestType DEF Claims, TypeOK
<1>3. CASE PreflightFails
  BY <1>3, RecordedType, RestType DEF PreflightFails, TypeOK
<1>4. CASE PowersOn
  BY <1>4, GotoType DEF PowersOn, TypeOK, Places, Dispatching
<1>5. CASE OwnsPower
  BY <1>5, RecordedType, RestType DEF OwnsPower, TypeOK, Campaigns
<1>6. CASE FindsContradiction
  BY <1>6, RecordedType, RestType DEF FindsContradiction, TypeOK, Campaigns, Scanned
<1>7. CASE PreflightPasses
  BY <1>7, GotoType DEF PreflightPasses, TypeOK, Places, Dispatching
<1> QED
  BY <1>1, <1>2, <1>3, <1>4, <1>5, <1>6, <1>7 DEF Preflight

LEMMA SubmissionType ==
  ASSUME TypeOK, Submission
  PROVE  TypeOK'
<1> USE DEF rows, GiveBack
<1>1. CASE Marks
  BY <1>1, GotoType DEF Marks, TypeOK, RunRows, Busy, Places, Dispatching
<1>2. CASE Posts
  <2>1. task' \in [Works -> [Names -> Tasks]]
    BY <1>2 DEF Posts, TypeOK, Tasks
  <2> QED
    BY <1>2, <2>1, GotoType DEF Posts, TypeOK, Places, Dispatching
<1>3. CASE Acknowledged
  BY <1>3, GotoType DEF Acknowledged, TypeOK, Places, Dispatching
<1>4. CASE SubmissionFails
  BY <1>4, RecordedType, RestType DEF SubmissionFails, TypeOK
<1>5. CASE RecordsAcceptance
  <2>1. run' \in [Runs -> RunRows]
    BY <1>5 DEF RecordsAcceptance, TypeOK, RunRows, Busy
  <2> QED
    BY <1>5, <2>1, RestType DEF RecordsAcceptance, TypeOK
<1> QED
  BY <1>1, <1>2, <1>3, <1>4, <1>5 DEF Submission

LEMMA DrivingType ==
  ASSUME TypeOK, Driving
  PROVE  TypeOK'
<1> USE DEF rows, GiveBack
<1>1. CASE CreatesTrip
  BY <1>1, GotoType DEF CreatesTrip, TypeOK, Trips, Places, Dispatching
<1>2. CASE FindsTrip
  BY <1>2, GotoType DEF FindsTrip, TypeOK, Places, Dispatching
<1>3. CASE VetsStart
  BY <1>3, GotoType DEF VetsStart, TypeOK, Places, Dispatching
<1>4. CASE StartsTrip
  BY <1>4, GotoType DEF StartsTrip, TypeOK, Trips, Places, Dispatching
<1>5. CASE RecordsDrive
  <2>1. run' \in [Runs -> RunRows]
    BY <1>5 DEF RecordsDrive, TypeOK, RunRows, Busy, Runs
  <2> QED
    BY <1>5, <2>1, RestType DEF RecordsDrive, TypeOK
<1> QED
  BY <1>1, <1>2, <1>3, <1>4, <1>5 DEF Driving

LEMMA ReleaseType ==
  ASSUME TypeOK, Release
  PROVE  TypeOK'
<1> USE DEF rows, GiveBack
<1>0. Releasing \subseteq Places
  BY DEF Places, Releasing
<1>1. CASE LooksToRelease \/ ObservesOn \/ ListsNoTask \/ Vouches
  <2>1. PICK pc \in Releasing : Goto(pc)
    BY <1>1 DEF LooksToRelease, ObservesOn, ListsNoTask, Vouches, Releasing
  <2>2. plan' \in Plans
    BY <1>0, <2>1, GotoType
  <2> QED
    BY <1>1, <2>2 DEF LooksToRelease, ObservesOn, ListsNoTask, Vouches, TypeOK
<1>2. CASE LosesPower
  BY <1>2 DEF LosesPower, TypeOK, Campaigns
<1>3. CASE ObservesOff
  BY <1>3, RestType DEF ObservesOff, TypeOK, Campaigns
<1>4. CASE AsksOff \/ OffKeyFails
  <2>1. offs' \in Nat
    BY <1>4, SlotsAndBounds DEF AsksOff, OffKeyFails, TypeOK
  <2>2. plan' \in Plans
    BY <1>0, <1>4, GotoType DEF AsksOff, OffKeyFails, Releasing
  <2> QED
    BY <1>4, <2>1, <2>2 DEF AsksOff, OffKeyFails, TypeOK
<1>5. CASE KeepsPower
  BY <1>5, RestType DEF KeepsPower, TypeOK
<1> QED
  BY <1>1, <1>2, <1>3, <1>4, <1>5 DEF Release

LEMMA OperatorType ==
  ASSUME TypeOK, Operator
  PROVE  TypeOK'
<1> USE DEF rows
<1>1. CASE Starts \/ Pauses
  BY <1>1 DEF Starts, Pauses, TypeOK, Campaigns, Scanned
<1>2. CASE Cancels
  BY <1>2, EndWaitingType DEF Cancels, TypeOK, Campaigns, Ended
<1>3. CASE Extends
  BY <1>3 DEF Extends, TypeOK, Campaigns, Scanned
<1>4. CASE \E w \in Works : Resolves(w)
  BY <1>4, BecomesType DEF Resolves, TypeOK, Runs, Ended
<1>5. CASE \E r \in Runs : Retries(r)
  <2>1. PICK r \in Runs : Retries(r)
    BY <1>5
  <2>2. run[r].name + 1 \in Names
    BY <2>1, SlotsAndBounds DEF Retries, TypeOK, RunRows, Names
  <2>3. [Fresh EXCEPT !.status = "WAITING", !.name = run[r].name + 1] \in RunRows
    BY <2>2 DEF Fresh, RunRows
  <2>4. run' \in [Runs -> RunRows]
    BY <2>1, <2>3 DEF Retries, TypeOK
  <2> QED
    BY <2>1, <2>4 DEF Retries, TypeOK
<1>6. CASE StartsPreview \/ PausesDrive \/ ResumesDrive \/ CancelsDrive
  BY <1>6 DEF StartsPreview, PausesDrive, ResumesDrive, CancelsDrive, Control, TypeOK, Trips
<1> QED
  BY <1>1, <1>2, <1>3, <1>4, <1>5, <1>6 DEF Operator

LEMMA SurroundingsType ==
  ASSUME TypeOK, Surroundings
  PROVE  TypeOK'
<1> USE DEF rows, GiveBack
<1>1. CASE DriveArrives \/ DriveIsPaused
  <2>1. [status |-> "ARRIVED", holds |-> FALSE] \in Trips /\ [trip EXCEPT !.status = "PAUSED"] \in Trips
    BY DEF TypeOK, Trips
  <2> QED
    BY <1>1, <2>1 DEF DriveArrives, DriveIsPaused, TypeOK
<1>2. CASE Provider
  <2>1. PICK w \in Works, n \in Names : \E next \in TaskSteps(task[w][n]) : task' = [task EXCEPT ![w][n] = next]
    BY <1>2 DEF Provider
  <2>2. TaskSteps(task[w][n]) \subseteq Tasks
    BY DEF TaskSteps, Tasks, Open, Final
  <2> QED
    BY <1>2, <2>1, <2>2 DEF Provider, TypeOK
<1>3. CASE PhoneTurnsOn \/ Lapses
  BY <1>3 DEF PhoneTurnsOn, Lapses, TypeOK
<1>4. CASE TimePasses
  BY <1>4 DEF TimePasses, TypeOK
<1>5. CASE TurnsOff
  <2>1. offs' \in Nat /\ phone' \in {"on", "off"}
    BY <1>5 DEF TurnsOff, TypeOK
  <2> QED
    BY <1>5, <2>1 DEF TurnsOff, TypeOK
<1>6. CASE Restarts
  <2>1. run' \in [Runs -> RunRows]
    BY <1>6 DEF Restarts, Recovered, TypeOK, RunRows, Busy
  <2> QED
    BY <1>6, <2>1, RestType DEF Restarts, Rest, TypeOK, Trips
<1> QED
  BY <1>1, <1>2, <1>3, <1>4, <1>5, <1>6 DEF Surroundings

LEMMA TypeStep ==
  ASSUME TypeOK, PollFits, [Next]_vars
  PROVE  TypeOK'
<1>1. CASE Planner
  BY <1>1, ReconcilesType, PassesType, PreflightType, SubmissionType, DrivingType, ReleaseType DEF Planner
<1>2. CASE UNCHANGED vars
  BY <1>2 DEF vars, rows, TypeOK
<1> QED
  BY <1>1, <1>2, OperatorType, SurroundingsType DEF Next
-----------------------------------------------------------------------------
\* What the updates of the rows do to each row.
LEMMA BecomesRow ==
  ASSUME TypeOK, NEW r \in Runs, NEW s, Becomes(r, s)
  PROVE  \A q \in Runs : /\ run'[q].name = run[q].name
                         /\ run'[q].status = IF q = r THEN s ELSE run[q].status
  BY DEF TypeOK, Becomes, RunRows

LEMMA EndWaitingRow ==
  ASSUME TypeOK, NEW some, NEW s, EndWaiting(some, s)
  PROVE  \A q \in Runs : /\ run'[q].name = run[q].name
                         /\ \/ run'[q].status = run[q].status
                            \/ run[q].status = "WAITING" /\ run'[q].status = s
  BY DEF TypeOK, EndWaiting, RunRows

LEMMA RecordedRow ==
  ASSUME TypeOK, NEW sent \in BOOLEAN, run' = Recorded(sent)
  PROVE  \A q \in Runs :
           /\ run'[q].name = run[q].name
           /\ \/ run'[q].status = run[q].status
              \/ /\ q = plan.run
                 /\ run[q].status \in {"PREPARING", "SUBMITTING"}
                 /\ run'[q].status = IF sent THEN "UNCONFIRMED" ELSE "WAITING"
  BY DEF TypeOK, Recorded, RunRows

\* A step that leaves WorkFits alone: no run becomes busy, no task possible
\* that was not, a run whose task may run stays on record with it, a phone
\* with busy work stays reserved, and an arrival is final.
NoNewBusy  == \A r \in Runs : run'[r].status \in Busy => run[r].status \in Busy
TasksQuiet ==
  \A w \in Works, n \in Names :
    /\ Possible(w, n)' => Possible(w, n)
    /\ task[w][n] = "none" => task'[w][n] = "none"
RowsKept   == \A w \in Works, n \in Names :
                Possible(w, n) => run'[w].status \in Remote /\ run'[w].name = run[w].name
StaysReserved == AnyBusy /\ campaign.reserved => campaign'.reserved
DriveQuiet == /\ run'[Drive].status = "SUCCEEDED" => run[Drive].status = "SUCCEEDED" \/ trip.status = "ARRIVED"
              /\ trip.status = "ARRIVED" => trip'.status = "ARRIVED"

Quiet == NoNewBusy /\ TasksQuiet /\ RowsKept /\ StaysReserved /\ DriveQuiet

LEMMA TasksStay ==
  ASSUME TasksAreOnRecord, TasksQuiet, RowsKept, StaysReserved
  PROVE  TasksAreOnRecord'
<1> SUFFICES ASSUME NEW w \in Works, NEW n \in Names, Possible(w, n)'
             PROVE  run'[w].status \in Remote /\ run'[w].name = n /\ campaign'.reserved
  BY DEF TasksAreOnRecord
<1>1. Possible(w, n)
  BY DEF TasksQuiet
<1>2. run[w].status \in Remote /\ run[w].name = n /\ campaign.reserved
  BY <1>1 DEF TasksAreOnRecord
<1>3. AnyBusy
  BY <1>2 DEF AnyBusy, Remote, Runs
<1> QED
  BY <1>1, <1>2, <1>3 DEF RowsKept, StaysReserved

LEMMA DriveStays ==
  ASSUME DriveArrived, DependentAfterArrival, TasksQuiet, DriveQuiet
  PROVE  DriveArrived' /\ DependentAfterArrival'
<1>1. Dependent \subseteq Works
  BY SlotsAndBounds
<1> QED
  BY <1>1 DEF DriveArrived, DependentAfterArrival, TasksQuiet, DriveQuiet

LEMMA QuietWork ==
  ASSUME WorkFits, Quiet
  PROVE  WorkFits'
<1>1. OneBusy'
  BY DEF WorkFits, OneBusy, Quiet, NoNewBusy
<1> QED
  BY <1>1, TasksStay, DriveStays DEF WorkFits, Quiet

\* At rest, and where the planner only goes on to record something, it
\* relies on nothing.
LEMMA RestFits ==
  ASSUME plan'.pc \in {"idle", "flag", "missing", "overrun", "claiming"},
         plan'.pc = "claiming" /\ plan'.run \in Dependent => trip'.status = "ARRIVED"
  PROVE  PlanFits'
  BY DEF PlanFits, PollFits, DispatchFits, ClosingFits, ReleaseFits, Preparing, Submitting, Dispatching, Releasing

LEMMA IdleFits == ASSUME Rest PROVE PlanFits'
  BY RestFits DEF Rest, Idle

\* While the planner waits, others leave what it relies on alone.
LEMMA PlanStays ==
  ASSUME TypeOK, PlanFits, WorkFits, Quiet, UNCHANGED plan,
         \A r \in Runs : run[r].status \in {"PREPARING", "SUBMITTING"} => run'[r].status = run[r].status,
         \A w \in Works, n \in Names : task[w][n] \in Final => task'[w][n] \in Final,
         campaign.owned => campaign'.owned,
         lease' = "planner" => lease = "planner" /\ (trip'.holds => trip.holds)
  PROVE  PlanFits'
<1>0. plan.run \in Runs /\ plan.name \in Names
  BY DEF TypeOK, Plans
<1>1. PollFits'
  BY <1>0 DEF PlanFits, PollFits, Quiet, NoNewBusy, TasksQuiet
<1>2. run[plan.run].status = "SUBMITTING" => AnyBusy
  BY <1>0 DEF AnyBusy, Busy
<1>3. DispatchFits'
  BY <1>0, <1>2 DEF PlanFits, DispatchFits, Quiet, StaysReserved, DriveQuiet
<1>4. ClosingFits'
  BY DEF PlanFits, ClosingFits, AnyBusy, Quiet, NoNewBusy
<1>5. ReleaseFits'
  BY DEF PlanFits, ReleaseFits, AnyBusy, Quiet, NoNewBusy
<1> QED
  BY <1>1, <1>3, <1>4, <1>5 DEF PlanFits

LEMMA StillQuiet ==
  ASSUME WorkFits, UNCHANGED <<run, task>>, campaign.reserved => campaign'.reserved,
         trip.status = "ARRIVED" => trip'.status = "ARRIVED"
  PROVE  Quiet
  BY DEF WorkFits, TasksAreOnRecord, Possible, Quiet, NoNewBusy, TasksQuiet, RowsKept, StaysReserved, DriveQuiet

-----------------------------------------------------------------------------
\* The planner's steps.
LEMMA PollStep ==
  ASSUME IInv, NEW w \in Works, Polls(w)
  PROVE  WorkFits' /\ PlanFits'
<1>1. WorkFits'
  BY StillQuiet, QuietWork DEF IInv, Polls, rows
<1>2. w \in Runs /\ run[w].status \in Busy
  BY DEF Polls, Runs, Remote
<1>3. PollFits'
  <2>1. plan'.run = w /\ plan'.view = "none" /\ plan'.name = run[w].name /\ UNCHANGED <<run, task>>
    BY DEF Polls, rows
  <2>2. \A r \in Runs : run[r].status \in Busy => r = w
    BY <1>2 DEF IInv, WorkFits, OneBusy
  <2>3. \A n \in Names : Possible(w, n) => n = run[w].name
    BY DEF IInv, WorkFits, TasksAreOnRecord
  <2> QED
    BY <2>1, <2>2, <2>3 DEF PollFits, Possible, Final
<1>4. plan'.pc = "asked"
  BY DEF Polls
<1> QED
  BY <1>1, <1>3, <1>4
     DEF PlanFits, DispatchFits, ClosingFits, ReleaseFits, Preparing, Submitting, Dispatching, Releasing

LEMMA AnswerStep ==
  ASSUME IInv, PollAnswered
  PROVE  WorkFits' /\ PlanFits'
<1> USE DEF IInv
<1>1. WorkFits'
  BY StillQuiet, QuietWork DEF PollAnswered, rows
<1>2. /\ plan'.pc = "polled" /\ plan'.run = plan.run /\ plan'.name = plan.name
      /\ plan'.view = Evidence(task[plan.run][plan.name])
      /\ UNCHANGED <<run, task>> /\ plan.pc = "asked"
  BY DEF PollAnswered, At, rows, TypeOK, Plans
<1>3. PollFits'
  BY <1>2 DEF PlanFits, PollFits, Possible, Evidence, Open, Final
<1> QED
  BY <1>1, <1>2, <1>3
     DEF PlanFits, DispatchFits, ClosingFits, ReleaseFits, Preparing, Submitting, Dispatching, Releasing

\* Recording an answer: of the one run that may be busy, and whose task is
\* over if the answer says so.
LEMMA EvidenceStep ==
  ASSUME IInv, NEW s \in Open \cup Final \cup {"UNCONFIRMED"}, Becomes(plan.run, s),
         plan.pc = "polled", s \in Final => plan.view = s, UNCHANGED <<campaign, trip, task>>
  PROVE  WorkFits'
<1> USE DEF IInv
<1>1. /\ plan.run \in Works /\ plan.run \in Runs /\ plan.run # Drive
      /\ \A r \in Runs : run[r].status \in Busy => r = plan.run
      /\ \A n \in Names : Possible(plan.run, n) => n = plan.name
      /\ s \in Final => task[plan.run][plan.name] \in Final
  BY SlotsAndBounds DEF PlanFits, PollFits, Runs, Drive
<1>2. \A q \in Runs : /\ run'[q].name = run[q].name
                      /\ run'[q].status = IF q = plan.run THEN s ELSE run[q].status
  BY <1>1, BecomesRow
<1>3. OneBusy'
  BY <1>1, <1>2 DEF OneBusy
<1>4. RowsKept
  <2> SUFFICES ASSUME NEW w \in Works, NEW n \in Names, Possible(w, n)
               PROVE  run'[w].status \in Remote /\ run'[w].name = run[w].name
    BY DEF RowsKept
  <2>1. w \in Runs /\ run[w].status \in Remote
    BY DEF WorkFits, TasksAreOnRecord, Runs
  <2>2. CASE w = plan.run
    <3>1. s \notin Final
      BY <1>1, <2>2 DEF Possible, Open, Final
    <3> QED
      BY <1>2, <2>1, <2>2, <3>1 DEF Remote, Busy, Open
  <2> QED
    BY <1>2, <2>1, <2>2
<1>5. TasksQuiet /\ StaysReserved
  BY DEF TasksQuiet, Possible, StaysReserved
<1>6. DriveQuiet
  BY <1>1, <1>2 DEF DriveQuiet, Runs
<1> QED
  BY <1>3, <1>4, <1>5, <1>6, TasksStay, DriveStays DEF WorkFits

LEMMA ReconcilesStep ==
  ASSUME IInv, Reconciles
  PROVE  WorkFits' /\ PlanFits'
<1> USE DEF IInv, rows
<1>1. CASE PollTellsNothing \/ FlagsCampaign
  BY <1>1, StillQuiet, QuietWork, IdleFits DEF PollTellsNothing, FlagsCampaign, TypeOK, Campaigns
<1>2. CASE RecordsEvidence
  <2>1. plan.view \in Open \cup Final
    BY <1>2 DEF RecordsEvidence, At, PlanFits, PollFits
  <2> QED
    BY <1>2, <2>1, EvidenceStep, IdleFits DEF RecordsEvidence, At
<1>3. CASE RecordsDoubt
  <2>1. WorkFits'
    BY <1>3, EvidenceStep DEF RecordsDoubt, At, Final
  <2> QED
    BY <1>3, <2>1, RestFits, IdleFits DEF RecordsDoubt, Idle
<1>4. CASE DriveSucceeded \/ DriveFailed \/ RecordsSuspension
  <2>1. PICK s \in Ended : Becomes(Drive, s) /\ (s = "SUCCEEDED" => trip.status = "ARRIVED")
    BY <1>4 DEF DriveSucceeded, DriveFailed, RecordsSuspension, Ended
  <2>2. UNCHANGED <<campaign, trip, task>>
    BY <1>4 DEF DriveSucceeded, DriveFailed, RecordsSuspension
  <2>3. \A q \in Runs : /\ run'[q].name = run[q].name
                        /\ run'[q].status = IF q = Drive THEN s ELSE run[q].status
    BY <2>1, BecomesRow DEF Runs
  <2>4. Works \subseteq Runs \ {Drive} /\ Drive \in Runs
    BY SlotsAndBounds DEF Runs, Drive
  <2>5. NoNewBusy
    BY <2>3 DEF NoNewBusy, Ended, Busy
  <2>6. RowsKept
    BY <2>3, <2>4 DEF RowsKept, WorkFits, TasksAreOnRecord
  <2>7. DriveQuiet
    BY <2>1, <2>2, <2>3, <2>4 DEF DriveQuiet
  <2>8. Quiet
    BY <2>2, <2>5, <2>6, <2>7 DEF Quiet, TasksQuiet, Possible, StaysReserved
  <2>9. PlanFits'
    BY <1>4, RestFits DEF DriveSucceeded, DriveFailed, RecordsSuspension, ReadsDrive, At, Goto, TypeOK, Plans
  <2> QED
    BY <2>8, <2>9, QuietWork
<1>5. CASE PausesOverrun
  <2>1. trip.status # "ARRIVED" /\ UNCHANGED <<run, task, campaign>>
    BY <1>5 DEF PausesOverrun
  <2>2. plan'.pc = "overrun"
    BY <1>5 DEF PausesOverrun, Goto, TypeOK, Plans
  <2> QED
    BY <2>1, <2>2, StillQuiet, QuietWork, RestFits
<1>6. CASE MissesDependents
  <2>1. Quiet
    BY <1>6, EndWaitingRow DEF MissesDependents, Runs, WorkFits, TasksAreOnRecord, Remote, Busy, Drive,
       Quiet, NoNewBusy, TasksQuiet, Possible, RowsKept, StaysReserved, DriveQuiet
  <2> QED
    BY <1>6, <2>1, QuietWork, IdleFits DEF MissesDependents
<1> QED
  BY <1>1, <1>2, <1>3, <1>4, <1>5, <1>6, PollStep, AnswerStep DEF Reconciles
LEMMA PassesStep ==
  ASSUME IInv, Passes
  PROVE  WorkFits' /\ PlanFits'
<1> USE DEF IInv, rows
<1>0. \A w \in Works, n \in Names : Possible(w, n) => w \in Runs /\ run[w].status \in Remote
  BY DEF WorkFits, TasksAreOnRecord, Runs
<1>1. CASE Materializes
  <2>1. \A q \in Runs : /\ run'[q].name = run[q].name
                        /\ \/ run'[q].status = run[q].status
                           \/ run[q].status = "none" /\ run'[q].status \in {"WAITING", "MISSED"}
    BY <1>1 DEF Materializes, TypeOK, RunRows
  <2>2. UNCHANGED <<campaign, trip, task, lease, plan>> /\ plan.pc = "idle"
    BY <1>1 DEF Materializes, At
  <2>3. Quiet
    BY <1>0, <2>1, <2>2 DEF Runs, Remote, Busy, Drive,
       Quiet, NoNewBusy, TasksQuiet, Possible, RowsKept, StaysReserved, DriveQuiet
  <2> QED
    BY <2>2, <2>3, QuietWork, RestFits
<1>2. CASE SweepsDay
  <2>1. \A q \in Runs : /\ run'[q].name = run[q].name
                        /\ \/ run'[q].status = run[q].status
                           \/ run[q].status = "WAITING" /\ run'[q].status = "MISSED"
    BY <1>2, EndWaitingRow DEF SweepsDay
  <2>2. UNCHANGED <<campaign, trip, task, lease>> /\ plan.pc = "idle"
    BY <1>2 DEF SweepsDay, At
  <2>3. Quiet
    BY <1>0, <2>1, <2>2 DEF Runs, Remote, Busy, Drive,
       Quiet, NoNewBusy, TasksQuiet, Possible, RowsKept, StaysReserved, DriveQuiet
  <2>4. CASE plan'.pc = "closing"
    <3>1. ~AnyBusy
      BY <1>2, <2>2, <2>4 DEF SweepsDay, NothingUnresolved
    <3>2. ClosingFits'
      BY <2>3, <3>1 DEF ClosingFits, AnyBusy, Quiet, NoNewBusy
    <3> QED
      BY <2>3, <2>4, <3>2, QuietWork
         DEF PlanFits, PollFits, DispatchFits, ReleaseFits, Preparing, Submitting, Dispatching, Releasing
  <2>5. plan'.pc \in {"idle", "closing"}
    BY <1>2, <2>2, GotoPlan DEF SweepsDay
  <2> QED
    BY <2>3, <2>4, <2>5, QuietWork, RestFits
<1>3. CASE Completes
  <2>1. ~AnyBusy /\ UNCHANGED <<run, trip, task>>
    BY <1>3 DEF Completes, At, PlanFits, ClosingFits
  <2>2. Quiet
    BY <1>0, <2>1 DEF Quiet, NoNewBusy, TasksQuiet, Possible, RowsKept, StaysReserved, DriveQuiet
  <2> QED
    BY <1>3, <2>2, QuietWork, IdleFits DEF Completes
<1>4. CASE \E r \in Runs : MissesDependent(r)
  <2>1. PICK r \in Runs : MissesDependent(r)
    BY <1>4
  <2>2. \A q \in Runs : /\ run'[q].name = run[q].name
                        /\ \/ run'[q].status = run[q].status
                           \/ run[q].status = "WAITING" /\ run'[q].status = "MISSED"
    BY <2>1, BecomesRow DEF MissesDependent
  <2>3. UNCHANGED <<campaign, trip, task, lease, plan>> /\ plan.pc = "idle"
    BY <2>1 DEF MissesDependent, At
  <2>4. Quiet
    BY <1>0, <2>2, <2>3 DEF Runs, Remote, Busy, Drive,
       Quiet, NoNewBusy, TasksQuiet, Possible, RowsKept, StaysReserved, DriveQuiet
  <2> QED
    BY <2>3, <2>4, QuietWork, RestFits
<1> QED
  BY <1>1, <1>2, <1>3, <1>4 DEF Passes

\* The end of a dispatch that failed: before the submission the run waits
\* again, after it the run is in doubt.
LEMMA RecordedQuiet ==
  ASSUME IInv, NEW sent \in BOOLEAN, run' = Recorded(sent), UNCHANGED <<trip, task>>,
         campaign.reserved => campaign'.reserved,
         ~sent => run[plan.run].status # "SUBMITTING"
  PROVE  Quiet
<1>1. \A w \in Works, n \in Names : Possible(w, n) => w \in Runs /\ run[w].status \in Remote
  BY DEF IInv, WorkFits, TasksAreOnRecord, Runs
<1>2. \A q \in Runs : /\ run'[q].name = run[q].name
                      /\ \/ run'[q].status = run[q].status
                         \/ run[q].status = "PREPARING" /\ run'[q].status \in {"WAITING", "UNCONFIRMED"}
                         \/ run[q].status = "SUBMITTING" /\ run'[q].status = "UNCONFIRMED"
  BY RecordedRow DEF IInv
<1> QED
  BY <1>1, <1>2 DEF Runs, Remote, Busy, Drive,
     Quiet, NoNewBusy, TasksQuiet, Possible, RowsKept, StaysReserved, DriveQuiet

\* A dispatch goes on: it is still the same run's.
LEMMA DispatchGoes ==
  ASSUME IInv, NEW pc \in Dispatching, Goto(pc), plan.pc \in Dispatching,
         pc \in Preparing => plan.pc \in Preparing, pc \in Submitting => plan.pc \in Submitting,
         UNCHANGED run, campaign.reserved => campaign'.reserved,
         trip.status = "ARRIVED" => trip'.status = "ARRIVED"
  PROVE  PlanFits'
<1>1. plan'.pc = pc /\ plan'.run = plan.run
  BY GotoPlan DEF IInv
<1>2. pc \notin {"asked", "polled", "closing"} \cup Releasing
  BY DEF Dispatching, Releasing
<1>3. DispatchFits'
  BY <1>1 DEF IInv, PlanFits, DispatchFits
<1> QED
  BY <1>1, <1>2, <1>3 DEF PlanFits, PollFits, ClosingFits, ReleaseFits, Releasing

LEMMA PreflightStep ==
  ASSUME IInv, Preflight
  PROVE  WorkFits' /\ PlanFits'
<1> USE DEF IInv, rows
<1>1. CASE \E r \in Runs : Dispatches(r)
  <2>1. PICK r \in Runs : Dispatches(r)
    BY <1>1
  <2>2. plan'.pc = "claiming" /\ plan'.run = r /\ UNCHANGED rows /\ UNCHANGED task
    BY <2>1 DEF Dispatches, Idle
  <2>3. r \in Dependent => trip.status = "ARRIVED"
    BY <2>1 DEF Dispatches, GateOpen, WorkFits, DriveArrived
  <2> QED
    BY <2>2, <2>3, StillQuiet, QuietWork, RestFits
<1>2. CASE Claims
  <2>1. CASE ~AnyBusy /\ run[plan.run].status = "WAITING"
    <3>1. plan.run \in Runs /\ Becomes(plan.run, "PREPARING") /\ Goto("claimed")
          /\ UNCHANGED <<campaign, trip, task>> /\ plan.pc = "claiming"
      BY <1>2, <2>1 DEF Claims, TypeOK, Plans, At
    <3>2. \A q \in Runs : /\ run'[q].name = run[q].name
                          /\ run'[q].status = IF q = plan.run THEN "PREPARING" ELSE run[q].status
      BY <3>1, BecomesRow
    <3>3. \A w \in Works, n \in Names : ~Possible(w, n)
      BY <2>1 DEF WorkFits, TasksAreOnRecord, AnyBusy, Remote, Runs
    <3>4. OneBusy'
      BY <2>1, <3>2 DEF AnyBusy, OneBusy
    <3>5. TasksAreOnRecord'
      BY <3>1, <3>3 DEF TasksAreOnRecord, Possible
    <3>6. DriveArrived' /\ DependentAfterArrival'
      BY <3>1, <3>2 DEF WorkFits, DriveArrived, DependentAfterArrival, Runs
    <3>7. plan'.pc = "claimed" /\ plan'.run = plan.run
      BY <3>1, GotoPlan
    <3>8. DispatchFits'
      BY <3>1, <3>2, <3>7 DEF PlanFits, DispatchFits, Preparing, Submitting, Dispatching
    <3> QED
      BY <3>4, <3>5, <3>6, <3>7, <3>8 DEF WorkFits, PlanFits, PollFits, ClosingFits, ReleaseFits, Releasing
  <2>2. CASE ~(~AnyBusy /\ run[plan.run].status = "WAITING")
    BY <1>2, <2>2, StillQuiet, QuietWork, IdleFits DEF Claims
  <2> QED
    BY <2>1, <2>2
<1>3. CASE PreflightFails \/ OwnsPower \/ FindsContradiction
  <2>1. run[plan.run].status # "SUBMITTING"
    BY <1>3 DEF PreflightFails, OwnsPower, FindsContradiction, At, PlanFits, DispatchFits, Preparing
  <2>2. run' = Recorded(FALSE) /\ Rest /\ UNCHANGED <<trip, task>>
    BY <1>3 DEF PreflightFails, OwnsPower, FindsContradiction
  <2>3. campaign'.reserved = campaign.reserved
    BY <1>3 DEF PreflightFails, OwnsPower, FindsContradiction, TypeOK, Campaigns
  <2> QED
    BY <2>1, <2>2, <2>3, RecordedQuiet, QuietWork, IdleFits
<1>4. CASE PowersOn \/ PreflightPasses
  <2>1. PICK pc \in {"powered", "ready"} : Goto(pc)
    BY <1>4 DEF PowersOn, PreflightPasses
  <2>2. plan.pc = "claimed" /\ UNCHANGED <<rows, task>>
    BY <1>4 DEF PowersOn, PreflightPasses, At
  <2>3. PlanFits'
    BY <2>1, <2>2, DispatchGoes DEF Dispatching, Preparing, Submitting
  <2> QED
    BY <2>2, <2>3, StillQuiet, QuietWork
<1> QED
  BY <1>1, <1>2, <1>3, <1>4 DEF Preflight
LEMMA SubmissionStep ==
  ASSUME IInv, Submission
  PROVE  WorkFits' /\ PlanFits'
<1> USE DEF IInv, rows
<1>0. \A w \in Works, n \in Names : Possible(w, n) => w \in Runs /\ run[w].status \in Remote
  BY DEF WorkFits, TasksAreOnRecord, Runs
<1>1. CASE Marks
  <2>1. /\ plan.run \in Works /\ plan.run \in Runs
        /\ run[plan.run].status = "PREPARING" /\ plan.pc = "ready" /\ campaign.reserved
        /\ Goto("marked") /\ UNCHANGED <<campaign, trip, task, lease>>
    BY <1>1 DEF Marks, At, MaySend, StillRuns, Runs
  <2>2. \A q \in Runs : /\ run'[q].name = run[q].name
                        /\ run'[q].status = IF q = plan.run THEN "SUBMITTING" ELSE run[q].status
    BY <1>1, <2>1 DEF Marks, TypeOK, RunRows
  <2>3. Quiet
    BY <1>0, <2>1, <2>2 DEF Runs, Remote, Busy, Drive,
       Quiet, NoNewBusy, TasksQuiet, Possible, RowsKept, StaysReserved, DriveQuiet
  <2>4. plan'.pc = "marked" /\ plan'.run = plan.run
    BY <2>1, GotoPlan
  <2>5. DispatchFits'
    BY <2>1, <2>2, <2>4 DEF PlanFits, DispatchFits, Preparing, Submitting, Dispatching
  <2> QED
    BY <2>3, <2>4, <2>5, QuietWork DEF PlanFits, PollFits, ClosingFits, ReleaseFits, Releasing
<1>2. CASE Posts
  <2> DEFINE w == plan.run
             n == run[w].name
  <2>1. /\ w \in Works /\ w \in Runs /\ n \in Names /\ run[w].status = "SUBMITTING" /\ campaign.reserved
        /\ plan.pc = "marked" /\ Goto("posted") /\ UNCHANGED rows
        /\ w \in Dependent => trip.status = "ARRIVED"
    BY <1>2 DEF Posts, At, PlanFits, DispatchFits, Submitting, Dispatching, TypeOK, RunRows, Runs
  <2>2. \A v \in Works, m \in Names :
          task'[v][m] = IF v = w /\ m = n THEN "flying" ELSE task[v][m]
    BY <1>2, <2>1 DEF Posts, TypeOK
  <2>3. OneBusy'
    BY <2>1 DEF WorkFits, OneBusy
  <2>4. TasksAreOnRecord'
    BY <2>1, <2>2 DEF WorkFits, TasksAreOnRecord, Possible, Remote, Busy
  <2>5. DriveArrived' /\ DependentAfterArrival'
    BY <2>1, <2>2, SlotsAndBounds DEF WorkFits, DriveArrived, DependentAfterArrival
  <2>6. PlanFits'
    BY <2>1, DispatchGoes DEF Dispatching, Preparing, Submitting
  <2> QED
    BY <2>3, <2>4, <2>5, <2>6 DEF WorkFits
<1>3. CASE Acknowledged
  <2>1. PlanFits'
    BY <1>3, DispatchGoes DEF Acknowledged, At, Dispatching, Preparing, Submitting
  <2> QED
    BY <1>3, <2>1, StillQuiet, QuietWork DEF Acknowledged
<1>4. CASE SubmissionFails
  BY <1>4, RecordedQuiet, QuietWork, IdleFits DEF SubmissionFails
<1>5. CASE RecordsAcceptance
  <2>1. \A q \in Runs : /\ run'[q].name = run[q].name
                        /\ \/ run'[q].status = run[q].status
                           \/ run[q].status = "SUBMITTING" /\ run'[q].status = "AWAITING"
    BY <1>5 DEF RecordsAcceptance, TypeOK, RunRows
  <2>2. Quiet
    BY <1>0, <1>5, <2>1 DEF RecordsAcceptance, Runs, Remote, Busy, Drive,
       Quiet, NoNewBusy, TasksQuiet, Possible, RowsKept, StaysReserved, DriveQuiet
  <2> QED
    BY <1>5, <2>2, QuietWork, IdleFits DEF RecordsAcceptance
<1> QED
  BY <1>1, <1>2, <1>3, <1>4, <1>5 DEF Submission

LEMMA DrivingStep ==
  ASSUME IInv, Driving
  PROVE  WorkFits' /\ PlanFits'
<1> USE DEF IInv, rows
<1>1. CASE CreatesTrip \/ FindsTrip \/ VetsStart \/ StartsTrip
  <2>1. UNCHANGED <<run, task, campaign>> /\ (trip.status = "ARRIVED" => UNCHANGED trip)
    BY <1>1 DEF CreatesTrip, FindsTrip, VetsStart, StartsTrip
  <2>2. PICK pc \in {"previewed", "vetted", "driven"} : Goto(pc)
    BY <1>1 DEF CreatesTrip, FindsTrip, VetsStart, StartsTrip
  <2>3. plan.pc \in Preparing
    BY <1>1 DEF CreatesTrip, FindsTrip, VetsStart, StartsTrip, At, Preparing
  <2>4. PlanFits'
    BY <2>1, <2>2, <2>3, DispatchGoes DEF Dispatching, Preparing, Submitting
  <2> QED
    BY <2>1, <2>4, StillQuiet, QuietWork
<1>2. CASE RecordsDrive
  <2>1. \A q \in Runs : /\ run'[q].name = run[q].name
                        /\ \/ run'[q].status = run[q].status
                           \/ run[q].status = "PREPARING" /\ run'[q].status = "RUNNING"
    BY <1>2 DEF RecordsDrive, TypeOK, RunRows
  <2>2. Quiet
    BY <1>2, <2>1 DEF RecordsDrive, WorkFits, TasksAreOnRecord, Runs, Remote, Busy, Drive,
       Quiet, NoNewBusy, TasksQuiet, Possible, RowsKept, StaysReserved, DriveQuiet
  <2> QED
    BY <1>2, <2>2, QuietWork, IdleFits DEF RecordsDrive
<1> QED
  BY <1>1, <1>2 DEF Driving

LEMMA ReleaseStep ==
  ASSUME IInv, Release
  PROVE  WorkFits' /\ PlanFits'
<1> USE DEF IInv, rows
<1>1. UNCHANGED <<run, trip, task>> /\ campaign'.reserved = campaign.reserved
  BY DEF Release, LooksToRelease, LosesPower, ObservesOff, ObservesOn, ListsNoTask, Vouches, AsksOff,
     OffKeyFails, KeepsPower, TypeOK, Campaigns
<1>2. WorkFits'
  BY <1>1, StillQuiet, QuietWork
<1>3. CASE LooksToRelease
  <2>1. plan'.pc = "releasing" /\ campaign.owned /\ ~trip.holds /\ UNCHANGED rows
    BY <1>3, GotoPlan DEF LooksToRelease, MayRelease
  <2> QED
    BY <1>2, <2>1
       DEF PlanFits, PollFits, DispatchFits, ClosingFits, ReleaseFits, Preparing, Submitting, Dispatching, Releasing
<1>4. CASE LosesPower
  <2>1. UNCHANGED plan /\ plan.pc = "idle"
    BY <1>4 DEF LosesPower, At
  <2> QED
    BY <1>2, <2>1, RestFits
<1>5. CASE ObservesOff \/ KeepsPower
  BY <1>2, <1>5, IdleFits DEF ObservesOff, KeepsPower
<1>6. CASE ObservesOn \/ ListsNoTask \/ Vouches \/ AsksOff \/ OffKeyFails
  <2>1. plan.pc \in Releasing /\ UNCHANGED <<rows, lease>>
    BY <1>6 DEF ObservesOn, ListsNoTask, Vouches, AsksOff, OffKeyFails, At, Releasing
  <2>2. campaign.owned /\ (lease = "planner" => ~trip.holds)
    BY <2>1 DEF PlanFits, ReleaseFits
  <2>3. \/ plan'.pc \in {"listing", "listed"}
        \/ plan'.pc \in {"vouched", "asking"} /\ ~AnyBusy
    <3>1. CASE ObservesOn \/ ListsNoTask \/ OffKeyFails
      BY <3>1, GotoPlan DEF ObservesOn, ListsNoTask, OffKeyFails
    <3>2. CASE Vouches
      BY <3>2, GotoPlan DEF Vouches
    <3>3. CASE AsksOff
      BY <3>3, GotoPlan DEF AsksOff, At, PlanFits, ReleaseFits
    <3> QED
      BY <1>6, <3>1, <3>2, <3>3
  <2>4. AnyBusy' = AnyBusy
    BY <2>1 DEF AnyBusy
  <2>5. ReleaseFits'
    BY <2>1, <2>2, <2>3, <2>4 DEF ReleaseFits
  <2>6. PollFits' /\ DispatchFits' /\ ClosingFits'
    BY <2>3 DEF PollFits, DispatchFits, ClosingFits, Preparing, Submitting, Dispatching
  <2> QED
    BY <1>2, <2>5, <2>6 DEF PlanFits
<1> QED
  BY <1>3, <1>4, <1>5, <1>6 DEF Release

-----------------------------------------------------------------------------
\* The steps of everybody else.
LEMMA OperatorStep ==
  ASSUME IInv, Operator
  PROVE  WorkFits' /\ PlanFits'
<1> USE DEF IInv, rows
<1>0. \A w \in Works, n \in Names : Possible(w, n) => w \in Runs /\ run[w].status \in Remote /\ run[w].name = n
  BY DEF WorkFits, TasksAreOnRecord, Runs
<1>1. CASE Starts \/ Pauses \/ Extends
  <2>1. UNCHANGED <<run, task, trip, lease, plan>>
    BY <1>1 DEF Starts, Pauses, Extends
  <2>2. /\ campaign.reserved => campaign'.reserved
        /\ campaign.owned => campaign'.owned
    BY <1>1 DEF Starts, Pauses, Extends, TypeOK, Campaigns
  <2> QED
    BY <2>1, <2>2, StillQuiet, QuietWork, PlanStays
<1>2. CASE Cancels
  <2>1. \A q \in Runs : /\ run'[q].name = run[q].name
                        /\ \/ run'[q].status = run[q].status
                           \/ run[q].status = "WAITING" /\ run'[q].status = "FAILED"
    BY <1>2, EndWaitingRow DEF Cancels
  <2>2. ~AnyBusy /\ UNCHANGED <<trip, task, lease, plan>> /\ campaign'.owned = campaign.owned
    BY <1>2 DEF Cancels, TypeOK, Campaigns
  <2>3. Quiet
    BY <1>0, <2>1, <2>2 DEF Runs, Remote, Busy, Drive,
       Quiet, NoNewBusy, TasksQuiet, Possible, RowsKept, StaysReserved, DriveQuiet
  <2> QED
    BY <2>1, <2>2, <2>3, QuietWork, PlanStays
<1>3. CASE \E w \in Works : Resolves(w)
  <2>1. PICK w \in Works : Resolves(w)
    BY <1>3
  <2>2. \A q \in Runs : /\ run'[q].name = run[q].name
                        /\ run'[q].status = IF q = w THEN "FAILED" ELSE run[q].status
    BY <2>1, BecomesRow DEF Resolves, Runs
  <2>3. UNCHANGED <<campaign, trip, task, lease, plan>> /\ run[w].status \in {"UNCONFIRMED", "REMOTE_PAUSED"}
    BY <2>1 DEF Resolves
  <2>4. \A n \in Names : ~Possible(w, n)
    BY <1>0, <2>1 DEF Resolves, Possible
  <2>5. Quiet
    BY <1>0, <2>2, <2>3, <2>4 DEF Runs, Busy, Drive,
       Quiet, NoNewBusy, TasksQuiet, Possible, RowsKept, StaysReserved, DriveQuiet
  <2> QED
    BY <2>2, <2>3, <2>5, QuietWork, PlanStays
<1>4. CASE \E r \in Runs : Retries(r)
  <2>1. PICK r \in Runs : Retries(r)
    BY <1>4
  <2>2. /\ run[r].status = "FAILED" /\ run'[r].status = "WAITING"
        /\ \A q \in Runs \ {r} : run'[q] = run[q]
    BY <2>1 DEF Retries, Fresh, TypeOK
  <2>3. UNCHANGED <<campaign, trip, task, lease, plan>>
    BY <2>1 DEF Retries
  <2>4. Quiet
    BY <1>0, <2>2, <2>3 DEF Runs, Remote, Busy, Drive,
       Quiet, NoNewBusy, TasksQuiet, Possible, RowsKept, StaysReserved, DriveQuiet
  <2> QED
    BY <2>2, <2>3, <2>4, QuietWork, PlanStays
<1>5. CASE StartsPreview \/ PausesDrive \/ ResumesDrive \/ CancelsDrive
  <2>1. trip.status # "ARRIVED" /\ lease = "free" /\ UNCHANGED <<campaign, run, task, lease, plan>>
    BY <1>5 DEF StartsPreview, PausesDrive, ResumesDrive, CancelsDrive, Control
  <2> QED
    BY <2>1, StillQuiet, QuietWork, PlanStays
<1> QED
  BY <1>1, <1>2, <1>3, <1>4, <1>5 DEF Operator

LEMMA SurroundingsStep ==
  ASSUME IInv, Surroundings
  PROVE  WorkFits' /\ PlanFits'
<1> USE DEF IInv, rows
<1>1. CASE DriveArrives \/ DriveIsPaused
  <2>1. trip.status # "ARRIVED" /\ lease = "free" /\ UNCHANGED <<campaign, run, task, lease, plan>>
    BY <1>1 DEF DriveArrives, DriveIsPaused
  <2> QED
    BY <2>1, StillQuiet, QuietWork, PlanStays
<1>2. CASE Provider
  <2>1. PICK w \in Works, n \in Names : \E next \in TaskSteps(task[w][n]) : task' = [task EXCEPT ![w][n] = next]
    BY <1>2 DEF Provider
  <2>2. PICK next \in TaskSteps(task[w][n]) : task' = [task EXCEPT ![w][n] = next]
    BY <2>1
  <2>3. Possible(w, n) /\ task[w][n] \notin Final \cup {"none"}
    BY <2>2 DEF TaskSteps, Possible, Open, Final
  <2>4. \A v \in Works, m \in Names : task'[v][m] = IF v = w /\ m = n THEN next ELSE task[v][m]
    BY <2>1, <2>2 DEF TypeOK
  <2>5. TasksQuiet /\ \A v \in Works, m \in Names : task[v][m] \in Final => task'[v][m] \in Final
    BY <2>1, <2>3, <2>4 DEF TasksQuiet, Possible
  <2>6. UNCHANGED <<campaign, run, trip, lease, plan>>
    BY <1>2 DEF Provider
  <2>7. Quiet
    BY <2>5, <2>6 DEF WorkFits, TasksAreOnRecord, Quiet, NoNewBusy, RowsKept, StaysReserved, DriveQuiet
  <2> QED
    BY <2>5, <2>6, <2>7, QuietWork, PlanStays
<1>3. CASE TurnsOff \/ PhoneTurnsOn \/ Lapses \/ TimePasses
  <2>1. UNCHANGED <<campaign, run, trip, task, plan>> /\ (lease' = "planner" => lease = "planner")
    BY <1>3 DEF TurnsOff, PhoneTurnsOn, Lapses, TimePasses
  <2> QED
    BY <2>1, StillQuiet, QuietWork, PlanStays
<1>4. CASE Restarts
  <2>1. \A q \in Runs : run'[q].name = run[q].name /\ run'[q].status = Recovered(run[q].status)
    BY <1>4 DEF Restarts, TypeOK, RunRows
  <2>2. \A q \in Runs : \/ run'[q].status = run[q].status
                        \/ run[q].status = "PREPARING" /\ run'[q].status = "WAITING"
                        \/ run[q].status = "SUBMITTING" /\ run'[q].status = "UNCONFIRMED"
    BY <2>1 DEF Recovered
  <2>3. UNCHANGED <<campaign, task>> /\ (trip.status = "ARRIVED" => trip'.status = "ARRIVED")
    BY <1>4 DEF Restarts, TypeOK, Trips
  <2>4. Quiet
    BY <2>1, <2>2, <2>3 DEF WorkFits, TasksAreOnRecord, Runs, Remote, Busy, Drive,
       Quiet, NoNewBusy, TasksQuiet, Possible, RowsKept, StaysReserved, DriveQuiet
  <2> QED
    BY <1>4, <2>4, QuietWork, IdleFits DEF Restarts, Rest
<1> QED
  BY <1>1, <1>2, <1>3, <1>4 DEF Surroundings

-----------------------------------------------------------------------------
LEMMA InitIInv == Init => IInv
<1> SUFFICES ASSUME Init PROVE IInv
  OBVIOUS
<1>1. \A r \in Runs : run[r].status = "none"
  BY DEF Init, Fresh
<1>2. \A w \in Works, n \in Names : task[w][n] = "none"
  BY DEF Init
<1>3. plan.pc = "idle"
  BY DEF Init, Idle
<1>4. WorkFits
  BY <1>1, <1>2, SlotsAndBounds DEF WorkFits, OneBusy, TasksAreOnRecord, Possible, Open, DriveArrived,
     DependentAfterArrival, Busy, Runs
<1>5. PlanFits
  BY <1>3 DEF PlanFits, PollFits, DispatchFits, ClosingFits, ReleaseFits, Preparing, Submitting, Dispatching, Releasing
<1> QED
  BY <1>4, <1>5, InitType DEF IInv

LEMMA IInvStep ==
  ASSUME IInv, [Next]_vars
  PROVE  IInv'
<1>1. TypeOK'
  BY TypeStep DEF IInv, PlanFits
<1>2. CASE Planner
  BY <1>1, <1>2, ReconcilesStep, PassesStep, PreflightStep, SubmissionStep, DrivingStep, ReleaseStep
     DEF Planner, IInv
<1>3. CASE UNCHANGED vars
  BY <1>1, <1>3, StillQuiet, QuietWork, PlanStays DEF vars, rows, IInv
<1> QED
  BY <1>1, <1>2, <1>3, OperatorStep, SurroundingsStep DEF Next, IInv

LEMMA Invariance == Spec => []IInv
<1>1. IInv /\ [Next]_vars => IInv'
  BY IInvStep
<1> QED
  BY <1>1, InitIInv, PTL DEF Spec

-----------------------------------------------------------------------------
\* A campaign's rows stay well formed, no two tasks of it may run at a time,
\* and the phone is reserved while one may: through lost answers, restarts,
\* stale polls, and runs that the operator resolves and retries, of however
\* many slots and names.
THEOREM CampaignOrder == Spec => []CampaignIsOrderly
<1>1. IInv => CampaignIsOrderly
  <2> SUFFICES ASSUME IInv PROVE CampaignIsOrderly
    OBVIOUS
  <2>1. OneTaskAtATime
    BY DEF IInv, WorkFits, TasksAreOnRecord, OneBusy, OneTaskAtATime, Remote, Runs
  <2>2. PhoneIsReserved
    BY DEF IInv, WorkFits, TasksAreOnRecord, PhoneIsReserved
  <2> QED
    BY <2>1, <2>2 DEF IInv, CampaignIsOrderly
<1> QED
  BY <1>1, Invariance, PTL

\* No task of a dependent run is ever posted before the drive has arrived.
THEOREM DependentsWait == Spec => []DependentAfterArrival
<1>1. IInv => DependentAfterArrival
  BY DEF IInv, WorkFits
<1> QED
  BY <1>1, Invariance, PTL

\* Each of the three moments of a power-off has one step.
LEMMA WhoAsksOff ==
  ASSUME TypeOK, Next, offs' > offs
  PROVE  AsksOff
<1>1. offs \in Nat
  BY DEF TypeOK
<1>2. offs' = offs \/ offs' = offs - 1 \/ AsksOff
  BY DEF Next, rows, Planner, Operator, Surroundings,
       Reconciles, Polls, PollAnswered, PollTellsNothing, RecordsEvidence, RecordsDoubt, FlagsCampaign,
       DriveSucceeded, DriveFailed, PausesOverrun, RecordsSuspension, MissesDependents,
       Passes, Materializes, SweepsDay, Completes, MissesDependent,
       Preflight, Dispatches, Claims, PreflightFails, PowersOn, OwnsPower, FindsContradiction, PreflightPasses,
       Submission, Marks, Posts, Acknowledged, SubmissionFails, RecordsAcceptance,
       Driving, CreatesTrip, FindsTrip, VetsStart, StartsTrip, RecordsDrive,
       Release, LooksToRelease, LosesPower, ObservesOff, ObservesOn, ListsNoTask, Vouches, OffKeyFails, KeepsPower,
       Starts, Pauses, Cancels, Extends, Resolves, Retries,
       StartsPreview, PausesDrive, ResumesDrive, CancelsDrive, Control,
       DriveArrives, DriveIsPaused, Provider, PhoneTurnsOn, TimePasses, Lapses, Restarts, TurnsOff
<1> QED
  BY <1>1, <1>2

LEMMA WhoTurnsOff ==
  ASSUME Next, phone = "on", phone' = "off"
  PROVE  TurnsOff
  BY DEF Next, rows, Planner, Operator, Surroundings,
       Reconciles, Polls, PollAnswered, PollTellsNothing, RecordsEvidence, RecordsDoubt, FlagsCampaign,
       DriveSucceeded, DriveFailed, PausesOverrun, RecordsSuspension, MissesDependents,
       Passes, Materializes, SweepsDay, Completes, MissesDependent,
       Preflight, Dispatches, Claims, PreflightFails, PowersOn, OwnsPower, FindsContradiction, PreflightPasses,
       Submission, Marks, Posts, Acknowledged, SubmissionFails, RecordsAcceptance,
       Driving, CreatesTrip, FindsTrip, VetsStart, StartsTrip, RecordsDrive,
       Release, LooksToRelease, LosesPower, ObservesOff, ObservesOn, ListsNoTask, Vouches, AsksOff, OffKeyFails, KeepsPower,
       Starts, Pauses, Cancels, Extends, Resolves, Retries,
       StartsPreview, PausesDrive, ResumesDrive, CancelsDrive, Control,
       DriveArrives, DriveIsPaused, Provider, PhoneTurnsOn, TimePasses, Lapses, Restarts

LEMMA WhoVouches ==
  ASSUME TypeOK, Next, plan'.pc = "vouched", plan.pc # "vouched"
  PROVE  Vouches
<1>1. plan' # plan /\ plan' # Idle /\ ~Rest
  BY DEF Rest, Idle
<1>2. \A pc : Goto(pc) => pc = "vouched"
  <2> SUFFICES ASSUME NEW pc, Goto(pc) PROVE pc = "vouched"
    OBVIOUS
  <2>1. plan'.pc = pc
    BY GotoPlan
  <2> QED
    BY <2>1
<1>3. ~PollAnswered
  BY DEF PollAnswered, TypeOK, Plans
<1>4. ~Reconciles /\ ~Passes
  BY <1>1, <1>2, <1>3 DEF Reconciles, Polls, PollTellsNothing, RecordsEvidence, RecordsDoubt, FlagsCampaign,
       DriveSucceeded, DriveFailed, PausesOverrun, RecordsSuspension, MissesDependents,
       Passes, Materializes, SweepsDay, Completes, MissesDependent, Idle
<1>5. ~Preflight /\ ~Submission /\ ~Driving
  BY <1>1, <1>2 DEF Preflight, Dispatches, Claims, PreflightFails, PowersOn, OwnsPower, FindsContradiction,
       PreflightPasses, Submission, Marks, Posts, Acknowledged, SubmissionFails, RecordsAcceptance,
       Driving, CreatesTrip, FindsTrip, VetsStart, StartsTrip, RecordsDrive, Idle
<1>6. ~Operator /\ ~Surroundings
  BY <1>1 DEF Operator, Starts, Pauses, Cancels, Extends, Resolves, Retries,
       StartsPreview, PausesDrive, ResumesDrive, CancelsDrive, Control,
       Surroundings, DriveArrives, DriveIsPaused, Provider, TurnsOff, PhoneTurnsOn, TimePasses, Lapses, Restarts
<1> QED
  BY <1>1, <1>2, <1>4, <1>5, <1>6 DEF Next, Planner, Release, LooksToRelease, LosesPower, ObservesOff, ObservesOn,
     ListsNoTask, AsksOff, OffKeyFails, KeepsPower

\* Calls in which everybody else goes on lie between the planner's counts, its
\* hook, its request and the moment the phone goes off: as long as the
\* planner waits for the answer, what it counted still holds, and, as long as
\* its lease lasts, no trip took the phone.
THEOREM PowerOffSafety == Spec => PowerOffIsSafe
<1>1. ASSUME IInv, [Next]_vars PROVE [PowerOffStep]_vars
  <2> SUFFICES ASSUME Next, ~UNCHANGED vars PROVE PowerOffStep
    BY <1>1
  <2> USE <1>1 DEF IInv
  <2>1. ~AnyBusy => TaskFree
    BY DEF WorkFits, TasksAreOnRecord, TaskFree, AnyBusy, Remote, Runs
  <2>2. plan.pc \in {"vouched", "asking"} =>
          campaign.owned /\ TaskFree /\ (lease = "planner" => ~trip.holds)
    BY <2>1 DEF PlanFits, ReleaseFits, Releasing
  <2>3. Vouches => campaign.owned /\ TaskFree /\ ~trip.holds
    BY <2>1 DEF Vouches, At, PlanFits, ReleaseFits, Releasing
  <2>4. plan'.pc = "vouched" /\ plan.pc # "vouched" => campaign.owned /\ TaskFree /\ ~trip.holds
    BY <2>3, WhoVouches
  <2>5. offs' > offs => campaign.owned /\ TaskFree /\ (lease = "planner" => ~trip.holds)
    BY <2>2, WhoAsksOff DEF AsksOff, At
  <2> QED
    BY <2>2, <2>4, <2>5 DEF PowerOffStep, At
<1> QED
  BY <1>1, Invariance, PTL DEF Spec, PowerOffIsSafe
=============================================================================
