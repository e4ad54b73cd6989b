------------------------------ MODULE SiteJobs ------------------------------
(***************************************************************************)
(* One client site and its tracker jobs: src/src/sites/service.ts and      *)
(* jobs.ts.  The operator edits, prepares and applies a profile; the       *)
(* planner's worker (one at a time) takes a queued job through its         *)
(* preflight and hands it to the provider as an RPA task; the task's       *)
(* result comes back by a callback or by hand, or does not come.           *)
(*                                                                         *)
(* "worker" and "operator" hold the lease of the phone over their calls;   *)
(* it may lapse under them.  A result is saved under no lease.             *)
(***************************************************************************)
EXTENDS Integers, FiniteSets

CONSTANTS
  Jobs, NoJob,    \* the tracker jobs of the site
  MaxProfiles,    \* bound on the profiles prepared
  MaxSiteFaults   \* bound on restarts and lapsed leases

ASSUME SiteAssumption == NoJob \notin Jobs /\ MaxProfiles \in Nat /\ MaxSiteFaults \in Nat

VARIABLES
  site,        \* the Site row: profile status and revision, enabled, template
  job,         \* the SiteJob rows; rev is the profile revision of the preflight
  result,      \* the jobs that have a SiteResult
  sLease,      \* who holds the lease of the phone
  worker,      \* runSiteJob: where it is, its job, its profile revision, `submitted`
  operator,    \* prepareSite or applySite: where it is, `wrote`, wifiDispatchedAt
  saving,      \* saveSiteResult: the job and the status it was read with
  task,        \* what the provider has: tasks per job
  written,     \* history: GPS and Wi-Fi writes of the site to the phone, per revision
  sFaults, sLapsed

siteVars == <<site, job, result, sLease, worker, operator, saving, task, written, sFaults, sLapsed>>

BusyStates == {"PREFLIGHT", "SUBMITTING", "AWAITING_RESULT", "UNCONFIRMED", "TIMED_OUT"}

SiteIdle == \A j \in Jobs : job[j].status \notin BusyStates   \* requireIdleSite

RunIdle   == [pc |-> "idle", job |-> NoJob, rev |-> 0, submitted |-> FALSE]
OperatorIdle == [pc |-> "idle", rev |-> 0, wrote |-> FALSE, wifi |-> FALSE]
SavingIdle   == [job |-> NoJob, status |-> "QUEUED"]

SiteInit ==
  /\ site = [status |-> "DRAFT", rev |-> 0, enabled |-> FALSE, template |-> FALSE]
  /\ job = [j \in Jobs |-> [status |-> "NONE", rev |-> 0, token |-> FALSE]]
  /\ result = {}
  /\ sLease = "free"
  /\ worker = RunIdle
  /\ operator = OperatorIdle
  /\ saving = SavingIdle
  /\ task = [j \in Jobs |-> 0]
  /\ written = [r \in 0..MaxProfiles |-> [gps |-> 0, wifi |-> 0]]
  /\ sFaults = 0
  /\ sLapsed = FALSE

LeaseFreed(who) == sLease' = IF sLease = who THEN "free" ELSE sLease

-----------------------------------------------------------------------------
(* The operator's short calls: one update under the lease.                 *)

OperatorOnly == UNCHANGED <<result, sLease, worker, operator, saving, task, written, sFaults, sLapsed>>

SiteMatches == site.status = "PROVIDER_MATCH"

EditSite ==
  /\ sLease = "free" /\ SiteIdle
  /\ \E enabled \in BOOLEAN, template \in BOOLEAN :
       /\ enabled => template
       /\ enabled /\ ~site.enabled => SiteMatches
       /\ site' = [site EXCEPT !.enabled = enabled, !.template = template]
  /\ UNCHANGED job /\ OperatorOnly

ScheduleJob(j) ==
  /\ job[j].status = "NONE"
  /\ site.enabled /\ SiteMatches /\ site.template
  /\ job' = [job EXCEPT ![j].status = "QUEUED"]
  /\ UNCHANGED site /\ OperatorOnly

CancelSiteJob(j) ==
  /\ sLease = "free"
  /\ job[j].status = "QUEUED"
  /\ job' = [job EXCEPT ![j].status = "CANCELLED"]
  /\ UNCHANGED site /\ OperatorOnly

\* The operator says that the remote task stopped.
ResolveSiteJob(j) ==
  /\ sLease = "free"
  /\ job[j].status \in {"UNCONFIRMED", "TIMED_OUT"}
  /\ job' = [job EXCEPT ![j].status = "CANCELLED", ![j].token = FALSE]
  /\ UNCHANGED site /\ OperatorOnly

-----------------------------------------------------------------------------
(* prepareSite and applySite.                                              *)

SiteOnly == UNCHANGED <<job, result, worker, saving, task, sFaults, sLapsed>>

OperatorAt(where) == operator.pc = where

OperatorGoes(where) == operator' = [operator EXCEPT !.pc = where]

OperatorLeaves == operator' = OperatorIdle /\ LeaseFreed("operator")

\* The baseline is read from the provider, and then stored without another check.
PrepareBegins ==
  /\ OperatorAt("idle") /\ sLease = "free" /\ SiteIdle
  /\ site.rev < MaxProfiles
  /\ sLease' = "operator"
  /\ OperatorGoes("prepare")
  /\ UNCHANGED <<site, written>> /\ SiteOnly

PrepareEnds ==
  /\ OperatorAt("prepare")
  /\ OperatorLeaves
  /\ \/ \E status \in {"PREPARED", "BLOCKED"} :
          site' = [site EXCEPT !.status = status, !.rev = @ + 1, !.enabled = FALSE]
     \/ UNCHANGED site
  /\ UNCHANGED written /\ SiteOnly

\* The revision the operator reviewed is the one applied.
ApplyBegins ==
  /\ OperatorAt("idle") /\ sLease = "free" /\ SiteIdle
  /\ site.status = "PREPARED"
  /\ sLease' = "operator"
  /\ operator' = [OperatorIdle EXCEPT !.pc = "apply", !.rev = site.rev]
  /\ UNCHANGED <<site, written>> /\ SiteOnly

ApplyStarts ==
  /\ OperatorAt("apply")
  /\ \/ /\ site' = [site EXCEPT !.status = "APPLYING", !.enabled = FALSE]
        /\ OperatorGoes("gps") /\ UNCHANGED sLease
     \/ OperatorLeaves /\ UNCHANGED site
  /\ UNCHANGED written /\ SiteOnly

\* The handler of a failed apply: what may be on the phone decides.
ApplyFails ==
  /\ operator.pc \in {"gps", "wifi", "accepted", "verify"}
  /\ site' = [site EXCEPT !.status = IF operator.wrote THEN "UNCONFIRMED" ELSE "BLOCKED"]
  /\ OperatorLeaves
  /\ UNCHANGED written /\ SiteOnly

\* dispatchGps: `wrote` is set with the stored request, before the point leaves.
ApplyGps ==
  /\ OperatorAt("gps") /\ sLease = "operator"
  /\ operator' = [operator EXCEPT !.pc = "wifi", !.wrote = TRUE]
  /\ written' = [written EXCEPT ![operator.rev].gps = @ + 1]
  /\ UNCHANGED <<site, sLease>> /\ SiteOnly

\* One Wi-Fi update; a key that fails over to another finds it dispatched.
ApplyWifi ==
  /\ OperatorAt("wifi") /\ sLease = "operator" /\ ~operator.wifi
  /\ \E next \in {"wifi", "accepted"} :
       operator' = [operator EXCEPT !.pc = next, !.wifi = TRUE, !.wrote = TRUE]
  /\ written' = [written EXCEPT ![operator.rev].wifi = @ + 1]
  /\ UNCHANGED <<site, sLease>> /\ SiteOnly

ApplyAccepted ==
  /\ OperatorAt("accepted")
  /\ site' = [site EXCEPT !.status = "API_ACCEPTED"]
  /\ OperatorGoes("verify")
  /\ UNCHANGED <<sLease, written>> /\ SiteOnly

ApplyVerifies ==
  /\ OperatorAt("verify")
  /\ \E status \in {"PROVIDER_MATCH", "MISMATCH"} : site' = [site EXCEPT !.status = status]
  /\ OperatorLeaves
  /\ UNCHANGED written /\ SiteOnly

SiteOperator ==
  \/ EditSite \/ PrepareBegins \/ PrepareEnds
  \/ ApplyBegins \/ ApplyStarts \/ ApplyFails \/ ApplyGps \/ ApplyWifi \/ ApplyAccepted \/ ApplyVerifies
  \/ \E j \in Jobs : ScheduleJob(j) \/ CancelSiteJob(j) \/ ResolveSiteJob(j)

-----------------------------------------------------------------------------
(* runSiteJob.                                                             *)

WorkerOnly == UNCHANGED <<site, result, operator, saving, written, sFaults, sLapsed>>

WorkerGoes(where) == worker' = [worker EXCEPT !.pc = where]

WorkerLeaves == worker' = RunIdle /\ LeaseFreed("worker")

SetStatus(j, status) == job' = [job EXCEPT ![j].status = status]

\* The claim of a due job, when no other job of the site is busy.
ClaimJob(j) ==
  /\ worker.pc = "idle" /\ sLease = "free"
  /\ job[j].status = "QUEUED" /\ SiteIdle
  /\ sLease' = "worker"
  /\ worker' = [RunIdle EXCEPT !.pc = "preflight", !.job = j]
  /\ SetStatus(j, "PREFLIGHT")
  /\ UNCHANGED task /\ WorkerOnly

\* Its checks and readbacks, up to the stored preflight and callback token.
PreflightJob ==
  /\ worker.pc = "preflight"
  /\ LET j == worker.job IN
     IF site.enabled /\ SiteMatches /\ site.template
     THEN \/ /\ job' = [job EXCEPT ![j].rev = site.rev, ![j].token = TRUE]
             /\ worker' = [worker EXCEPT !.pc = "trigger", !.rev = site.rev]
          \/ WorkerGoes("catch") /\ UNCHANGED job
     ELSE WorkerGoes("catch") /\ UNCHANGED job
  /\ UNCHANGED <<sLease, task>> /\ WorkerOnly

\* beforeSend, called for every key that triggerRpaTask tries.
BeforeTask ==
  /\ worker.pc = "trigger"
  /\ IF /\ sLease = "worker" /\ ~worker.submitted
        /\ site.enabled /\ site.rev = worker.rev
        /\ job[worker.job].status = "PREFLIGHT"
     THEN SetStatus(worker.job, "SUBMITTING") /\ worker' = [worker EXCEPT !.pc = "send", !.submitted = TRUE]
     ELSE WorkerGoes("catch") /\ UNCHANGED job
  /\ UNCHANGED <<sLease, task>> /\ WorkerOnly

\* The request: accepted, refused for this key, or unanswered with or without effect.
SendTask ==
  /\ worker.pc = "send"
  /\ \E sent \in BOOLEAN, next \in {"accepted", "trigger", "catch"} :
       /\ next = "accepted" => sent
       /\ next = "trigger" => ~sent
       /\ task' = [task EXCEPT ![worker.job] = IF sent THEN @ + 1 ELSE @]
       /\ WorkerGoes(next)
  /\ UNCHANGED <<job, sLease>> /\ WorkerOnly

\* The callback may have come first: only SUBMITTING becomes AWAITING_RESULT.
TaskAccepted ==
  /\ worker.pc = "accepted"
  /\ IF job[worker.job].status = "SUBMITTING" THEN SetStatus(worker.job, "AWAITING_RESULT") ELSE UNCHANGED job
  /\ WorkerLeaves
  /\ UNCHANGED task /\ WorkerOnly

\* Mutant: the handler of a failed job does not ask whether the task may have left.
CatchBlocks ==
  /\ worker.pc = "catch"
  /\ job' = IF job[worker.job].status \notin {"PREFLIGHT", "SUBMITTING"} THEN job
            ELSE [job EXCEPT ![worker.job].status = "BLOCKED", ![worker.job].token = FALSE]
  /\ WorkerLeaves
  /\ UNCHANGED task /\ WorkerOnly

CatchJob ==
  /\ worker.pc = "catch"
  /\ job' = IF job[worker.job].status \notin {"PREFLIGHT", "SUBMITTING"} THEN job
            ELSE IF worker.submitted THEN [job EXCEPT ![worker.job].status = "UNCONFIRMED"]
            ELSE [job EXCEPT ![worker.job].status = "BLOCKED", ![worker.job].token = FALSE]
  /\ WorkerLeaves
  /\ UNCHANGED task /\ WorkerOnly

SiteWorker == (\E j \in Jobs : ClaimJob(j)) \/ PreflightJob \/ BeforeTask \/ SendTask \/ TaskAccepted \/ CatchJob

-----------------------------------------------------------------------------
(* saveSiteResult, the planner's deadline, and the faults.                 *)

\* A callback needs the token the task was given, a manual import only the job.
ReadForResult(j) ==
  /\ saving.job = NoJob
  /\ job[j].status \in {"SUBMITTING", "AWAITING_RESULT", "UNCONFIRMED", "TIMED_OUT"}
  /\ j \notin result
  /\ \/ task[j] > 0 /\ job[j].token
     \/ job[j].rev > 0   \* a manual import: the preflight was stored
  /\ saving' = [job |-> j, status |-> job[j].status]
  /\ UNCHANGED <<site, job, result, sLease, worker, operator, task, written, sFaults, sLapsed>>

\* The transaction: the status it was read with is claimed, and the result created.
SaveResult ==
  /\ saving.job # NoJob
  /\ IF job[saving.job].status = saving.status
     THEN SetStatus(saving.job, "COMPLETED") /\ result' = result \cup {saving.job}
     ELSE UNCHANGED <<job, result>>
  /\ saving' = SavingIdle
  /\ UNCHANGED <<site, sLease, worker, operator, task, written, sFaults, sLapsed>>

DeadlinePasses(j) ==
  /\ job[j].status = "AWAITING_RESULT"
  /\ SetStatus(j, "TIMED_OUT")
  /\ UNCHANGED <<site, result, sLease, worker, operator, saving, task, written, sFaults, sLapsed>>

SiteFault == sFaults < MaxSiteFaults /\ sFaults' = sFaults + 1

SiteLeaseLapses ==
  /\ SiteFault /\ sLease # "free"
  /\ sLease' = "free" /\ sLapsed' = TRUE
  /\ UNCHANGED <<site, job, result, worker, operator, saving, task, written>>

JobRecovered == [PREFLIGHT |-> "BLOCKED", SUBMITTING |-> "UNCONFIRMED"]

\* A restart, and recoverSiteWork.
SiteRestarts ==
  /\ SiteFault
  /\ worker' = RunIdle /\ operator' = OperatorIdle /\ saving' = SavingIdle /\ sLease' = "free"
  /\ site' = IF site.status = "APPLYING" THEN [site EXCEPT !.status = "UNCONFIRMED", !.enabled = FALSE] ELSE site
  /\ job' = [j \in Jobs |-> IF job[j].status \in DOMAIN JobRecovered
                            THEN [job[j] EXCEPT !.status = JobRecovered[@]] ELSE job[j]]
  /\ UNCHANGED <<result, task, written, sLapsed>>

SiteNext ==
  \/ SiteOperator \/ SiteWorker \/ SaveResult \/ SiteLeaseLapses \/ SiteRestarts
  \/ \E j \in Jobs : ReadForResult(j) \/ DeadlinePasses(j)

SiteSpec == SiteInit /\ [][SiteNext]_siteVars

-----------------------------------------------------------------------------

Profiles    == {"DRAFT", "PREPARED", "BLOCKED", "APPLYING", "API_ACCEPTED", "PROVIDER_MATCH", "MISMATCH", "UNCONFIRMED"}
JobStatuses == BusyStates \cup {"NONE", "QUEUED", "BLOCKED", "COMPLETED", "CANCELLED"}
Revisions   == 0..MaxProfiles

SiteRows      == [status : Profiles, rev : Revisions, enabled : BOOLEAN, template : BOOLEAN]
JobRows       == [status : JobStatuses, rev : Revisions, token : BOOLEAN]
WorkerCalls   == [pc : {"idle", "preflight", "trigger", "send", "accepted", "catch"},
                  job : Jobs \cup {NoJob}, rev : Revisions, submitted : BOOLEAN]
OperatorCalls == [pc : {"idle", "prepare", "apply", "gps", "wifi", "accepted", "verify"},
                  rev : Revisions, wrote : BOOLEAN, wifi : BOOLEAN]

SiteTypeOK ==
  /\ site \in SiteRows
  /\ job \in [Jobs -> JobRows]
  /\ result \subseteq Jobs
  /\ sLease \in {"free", "worker", "operator"}
  /\ worker \in WorkerCalls
  /\ operator \in OperatorCalls
  /\ saving \in [job : Jobs \cup {NoJob}, status : JobStatuses]
  /\ task \in [Jobs -> Nat]
  /\ written \in [Revisions -> [gps : Nat, wifi : Nat]]
  /\ sFaults \in 0..MaxSiteFaults /\ sLapsed \in BOOLEAN

\* What a status says of the provider is true, over key failover, restarts, lost
\* leases and results that overtake the reply of their own trigger: a job gives
\* at most one task, a BLOCKED job ("no RPA task was sent") gave none, a job has
\* a result exactly when it is COMPLETED, and a profile that is PREPARED or
\* BLOCKED wrote nothing, no profile more than one point and one Wi-Fi update.
SiteStatusIsTrue ==
  /\ \A j \in Jobs :
       /\ task[j] <= 1
       /\ job[j].status \in {"NONE", "QUEUED", "PREFLIGHT", "BLOCKED"} => task[j] = 0
       /\ j \in result <=> job[j].status = "COMPLETED"
  /\ \A r \in 0..MaxProfiles : written[r].gps <= 1 /\ written[r].wifi <= 1
  /\ site.status \in {"PREPARED", "BLOCKED"} /\ ~sLapsed => written[site.rev] = [gps |-> 0, wifi |-> 0]

\* A job measures the profile it was preflighted with: while its task may run,
\* no other job of the site is busy, and the profile on the phone is the one the
\* preflight recorded.  A lease that lapses during a readback escapes it.
TaskOwnsTheSite ==
  \A j \in Jobs : job[j].status \in BusyStates =>
    /\ \A k \in Jobs \ {j} : job[k].status \notin BusyStates
    /\ job[j].status # "PREFLIGHT" /\ ~sLapsed => SiteMatches /\ site.rev = job[j].rev

\* Neither a site's statuses nor the profile under a job's task can go wrong
\* between sites/service.ts, the worker of jobs.ts and the result route.
SiteWorkIsTrue == SiteStatusIsTrue /\ TaskOwnsTheSite
=============================================================================
