----------------------------- MODULE RpaDelivery -----------------------------
(***************************************************************************)
(* Legacy RPA submissions to one phone: the SQL intent (RpaJob), its       *)
(* delivery to the Redis queue by the request handler and the outbox       *)
(* (queue/rpaDelivery.ts, rpaOutbox.ts, producer.ts), the worker that      *)
(* submits it to the provider under the phone's lease (queue/rpaWorker.ts) *)
(* with failover between the workspace's API keys (api/tenantKeys.ts), and *)
(* the operator who resolves it (queue/rpaLifecycle.ts).                   *)
(*                                                                         *)
(* The queue library runs a job again when its lock is lost, so two        *)
(* handlers may be running the same job; processes die at any point;       *)
(* the queue may lose a job; a request to the provider may be executed     *)
(* after the worker stopped waiting for it.                                *)
(***************************************************************************)
EXTENDS Naturals, FiniteSets

CONSTANTS
  Jobs,         \* RpaJob rows of the phone
  Handlers,     \* runs of the worker's job handler
  Deliverers,   \* the outbox, and requests delivering what they just saved
  Operator,     \* the operator who resolves jobs
  NoHandler,    \* nobody
  NoJob,        \* a handler or deliverer at rest
  MaxAttempts,  \* attempts of rpaQueue's defaultJobOptions
  KeyCount,     \* API keys of the workspace
  MaxFaults     \* bound: crashes, lost locks and lost queue entries

ASSUME Distinct ==
  /\ NoHandler \notin Handlers \cup {Operator}
  /\ Operator \notin Handlers
  /\ NoJob \notin Jobs
ASSUME Counts == MaxAttempts \in Nat \ {0} /\ KeyCount \in Nat \ {0} /\ MaxFaults \in Nat

VARIABLES
  dryRun,      \* config.dryRun
  row,         \* SQL: status of each RpaJob, "absent" before it is created
  seen,        \* SQL: the row is as the resolving operator read it
  job,         \* Redis: state of the queue entry rpa-<id>
  attempts,    \* Redis: attemptsMade
  lock,        \* Redis: the handler whose lock the active entry carries
  lease,       \* who holds the phone's lease
  dpc, djob,   \* deliverers: place and job
  hpc, hjob,   \* handlers: place and job
  keysLeft,    \* handlers: keys withTenantKey has not tried
  err,         \* handlers: lastErr, or the error being handled
  dispatched,  \* handlers: the `dispatched` flag
  flight,      \* handlers: the request to the provider, or its answer
  orphans,     \* requests on their way to the provider, awaited by nobody
  tasks,       \* tasks the provider created
  faults       \* faults so far

sqlVars      == <<row, seen>>
queueVars    == <<job, attempts, lock>>
delivererVars == <<dpc, djob>>
handlerVars  == <<hpc, hjob, keysLeft, err, dispatched, flight>>
providerVars == <<orphans, tasks>>
vars == <<dryRun, sqlVars, queueVars, lease, delivererVars, handlerVars, providerVars, faults>>

Pending    == {"enqueue_pending", "queued"}
Submitted  == {"submitting", "submitted", "unconfirmed"}
Resolved   == {"resolved_completed", "resolved_cancelled"}
Statuses   == {"absent", "failed", "dry_run"} \cup Pending \cup Submitted \cup Resolved
Resolvable == Pending \cup Submitted \cup {"failed", "dry_run"}

JobStates == {"absent", "waiting", "active", "failed", "completed"}
Ended     == {"failed", "completed"}

HandlerPlaces ==
  {"idle", "load", "check", "acquire", "keys", "guard", "claim", "post",
   "posted", "accepted", "catch", "complete", "fail", "retry", "limited"}
Errors == {"none", "rate_limit", "key_dead", "unrecoverable", "other"}

Init ==
  /\ dryRun \in BOOLEAN
  /\ row = [j \in Jobs |-> "absent"]
  /\ seen = [j \in Jobs |-> FALSE]
  /\ job = [j \in Jobs |-> "absent"]
  /\ attempts = [j \in Jobs |-> 0]
  /\ lock = [j \in Jobs |-> NoHandler]
  /\ lease = NoHandler
  /\ dpc = [d \in Deliverers |-> "idle"]
  /\ djob = [d \in Deliverers |-> NoJob]
  /\ hpc = [h \in Handlers |-> "idle"]
  /\ hjob = [h \in Handlers |-> NoJob]
  /\ keysLeft = [h \in Handlers |-> 0]
  /\ err = [h \in Handlers |-> "none"]
  /\ dispatched = [h \in Handlers |-> FALSE]
  /\ flight = [h \in Handlers |-> "none"]
  /\ orphans = [j \in Jobs |-> 0]
  /\ tasks = [j \in Jobs |-> 0]
  /\ faults = 0

\* updateMany on one row: its status changes if it is one of `from`, and with
\* it the updatedAt an operator's resolution must match.
UpdateRow(j, from, to) ==
  IF row[j] \in from
  THEN row' = [row EXCEPT ![j] = to] /\ seen' = [seen EXCEPT ![j] = FALSE]
  ELSE UNCHANGED sqlVars

-----------------------------------------------------------------------------
(* The request and the outbox.                                             *)

\* The intent is saved under the lease (orchestrator/registry.ts).
Create(j) ==
  /\ row[j] = "absent"
  /\ lease = NoHandler
  /\ \A k \in Jobs : row[k] \notin Pending \cup Submitted
  /\ UpdateRow(j, {"absent"}, "enqueue_pending")
  /\ UNCHANGED <<dryRun, queueVars, lease, delivererVars, handlerVars, providerVars, faults>>

DelivererGoes(d, from, to) == dpc[d] = from /\ dpc' = [dpc EXCEPT ![d] = to]

\* A pending row is read for delivery.
Pick(d, j) ==
  /\ row[j] \in Pending
  /\ DelivererGoes(d, "idle", "look")
  /\ djob' = [djob EXCEPT ![d] = j]
  /\ UNCHANGED <<dryRun, sqlVars, queueVars, lease, handlerVars, providerVars, faults>>

\* getJob and getState.
Look(d) ==
  /\ DelivererGoes(d, "look",
       CASE job[djob[d]] = "absent" -> "add"
         [] job[djob[d]] \in Ended  -> "recheck"
         [] OTHER                   -> "mark")
  /\ UNCHANGED <<dryRun, sqlVars, queueVars, lease, djob, handlerVars, providerVars, faults>>

\* stillPending, read from SQL after the queue entry was seen to have ended.
Recheck(d) ==
  /\ DelivererGoes(d, "recheck", IF row[djob[d]] \in Pending THEN "revive" ELSE "mark")
  /\ UNCHANGED <<dryRun, sqlVars, queueVars, lease, djob, handlerVars, providerVars, faults>>

Enter(j) ==
  /\ job' = [job EXCEPT ![j] = "waiting"]
  /\ attempts' = [attempts EXCEPT ![j] = 0]
  /\ lock' = [lock EXCEPT ![j] = NoHandler]

\* rpaQueue.add under a stable id: nothing happens if the entry exists by now.
Add(d) ==
  /\ DelivererGoes(d, "add", "mark")
  /\ IF job[djob[d]] = "absent" THEN Enter(djob[d]) ELSE UNCHANGED queueVars
  /\ UNCHANGED <<dryRun, sqlVars, lease, djob, handlerVars, providerVars, faults>>

\* Mutant: an entry that ended is taken for a delivered one.
ReviveNever(d) ==
  /\ DelivererGoes(d, "revive", "mark")
  /\ UNCHANGED <<dryRun, sqlVars, queueVars, lease, djob, handlerVars, providerVars, faults>>

\* Job.retry with its counters reset; it throws unless the entry is still
\* ended, and "pending" is answered.
Revive(d) ==
  /\ IF dpc[d] = "revive" /\ job[djob[d]] \in Ended
     THEN /\ DelivererGoes(d, "revive", "mark")
          /\ Enter(djob[d])
          /\ UNCHANGED djob
     ELSE /\ DelivererGoes(d, "revive", "idle")
          /\ djob' = [djob EXCEPT ![d] = NoJob]
          /\ UNCHANGED queueVars
  /\ UNCHANGED <<dryRun, sqlVars, lease, handlerVars, providerVars, faults>>

\* markQueued.
Mark(d) ==
  /\ DelivererGoes(d, "mark", "idle")
  /\ djob' = [djob EXCEPT ![d] = NoJob]
  /\ UpdateRow(djob[d], {"enqueue_pending"}, "queued")
  /\ UNCHANGED <<dryRun, queueVars, lease, handlerVars, providerVars, faults>>

\* Redis or SQL is unavailable, or the deliverer's process dies: the delivery
\* is left as it is, and "pending" is answered.
DeliveryFails(d) ==
  /\ dpc[d] # "idle"
  /\ dpc' = [dpc EXCEPT ![d] = "idle"]
  /\ djob' = [djob EXCEPT ![d] = NoJob]
  /\ UNCHANGED <<dryRun, sqlVars, queueVars, lease, handlerVars, providerVars, faults>>

-----------------------------------------------------------------------------
(* The worker.                                                             *)

HandlerGoes(h, from, to) == hpc[h] = from /\ hpc' = [hpc EXCEPT ![h] = to]

LeaveLease(h) == lease' = IF lease = h THEN NoHandler ELSE lease

\* An exception under way to the handler's catch block leaves the lease.
Raise(h, from, e) ==
  /\ HandlerGoes(h, from, "catch")
  /\ err' = [err EXCEPT ![h] = e]
  /\ LeaveLease(h)

\* The queue hands a waiting job to a handler under a new lock.
TakeJob(h, j) ==
  /\ job[j] = "waiting"
  /\ HandlerGoes(h, "idle", "load")
  /\ hjob' = [hjob EXCEPT ![h] = j]
  /\ job' = [job EXCEPT ![j] = "active"]
  /\ lock' = [lock EXCEPT ![j] = h]
  /\ UNCHANGED <<dryRun, sqlVars, attempts, lease, delivererVars, keysLeft, err,
                 dispatched, flight, providerVars, faults>>

\* The row is read before anything else.
Load(h) ==
  /\ HandlerGoes(h, "load",
       CASE row[hjob[h]] \in Pending -> "check"
         [] row[hjob[h]] \in {"submitted", "dry_run"} \cup Resolved -> "complete"
         [] OTHER -> "fail")
  /\ UNCHANGED <<dryRun, sqlVars, queueVars, lease, delivererVars, hjob, keysLeft, err,
                 dispatched, flight, providerVars, faults>>

\* What currentDevice may throw: the phone's identity, power and its other
\* owners are outside this module, its other submissions are not.
DeviceErrors(j) ==
  {"other", "unrecoverable"} \cup
  (IF \A k \in Jobs \ {j} : row[k] \notin Submitted THEN {"none"} ELSE {})

Check(h) ==
  /\ \E e \in DeviceErrors(hjob[h]) :
       IF e = "none" THEN HandlerGoes(h, "check", "acquire") /\ UNCHANGED <<err, lease>>
                     ELSE Raise(h, "check", e)
  /\ UNCHANGED <<dryRun, sqlVars, queueVars, delivererVars, hjob, keysLeft,
                 dispatched, flight, providerVars, faults>>

\* The lease and the environment window are held, the keys are read.
Acquire(h) ==
  /\ lease = NoHandler
  /\ HandlerGoes(h, "acquire", "keys")
  /\ lease' = h
  /\ keysLeft' = [keysLeft EXCEPT ![h] = KeyCount]
  /\ UNCHANGED <<dryRun, sqlVars, queueVars, delivererVars, hjob, err, dispatched,
                 flight, providerVars, faults>>

\* The lease stays busy, the window is taken or the workspace has no key.
AcquireFails(h) ==
  /\ Raise(h, "acquire", "other")
  /\ UNCHANGED <<dryRun, sqlVars, queueVars, delivererVars, hjob, keysLeft,
                 dispatched, flight, providerVars, faults>>

\* withTenantKey: the turn of the next key came, and it can be used.
TryKey(h) ==
  /\ keysLeft[h] > 0
  /\ HandlerGoes(h, "keys", "guard")
  /\ keysLeft' = [keysLeft EXCEPT ![h] = @ - 1]
  /\ UNCHANGED <<dryRun, sqlVars, queueVars, lease, delivererVars, hjob, err,
                 dispatched, flight, providerVars, faults>>

\* The next key is passed over, or is found cooling or gone when its turn comes.
SkipKey(h) ==
  /\ hpc[h] = "keys" /\ keysLeft[h] > 0
  /\ keysLeft' = [keysLeft EXCEPT ![h] = @ - 1]
  /\ \E e \in {err[h], "rate_limit", "key_dead"} : err' = [err EXCEPT ![h] = e]
  /\ UNCHANGED <<dryRun, sqlVars, queueVars, lease, delivererVars, hpc, hjob,
                 dispatched, flight, providerVars, faults>>

KeysExhausted(h) ==
  /\ keysLeft[h] = 0
  /\ Raise(h, "keys", IF err[h] = "none" THEN "rate_limit" ELSE err[h])
  /\ UNCHANGED <<dryRun, sqlVars, queueVars, delivererVars, hjob, keysLeft,
                 dispatched, flight, providerVars, faults>>

\* SQL or the key's decryption fails when its turn comes.
KeyFails(h) ==
  /\ keysLeft[h] > 0
  /\ Raise(h, "keys", "other")
  /\ UNCHANGED <<dryRun, sqlVars, queueVars, delivererVars, hjob, keysLeft,
                 dispatched, flight, providerVars, faults>>

\* beforeSend: assertOwned, then currentDevice.
Guard(h) ==
  /\ \E e \in (IF lease = h THEN DeviceErrors(hjob[h]) ELSE {"other"}) :
       IF e = "none" THEN HandlerGoes(h, "guard", "claim") /\ UNCHANGED <<err, lease>>
                     ELSE Raise(h, "guard", e)
  /\ UNCHANGED <<dryRun, sqlVars, queueVars, delivererVars, hjob, keysLeft,
                 dispatched, flight, providerVars, faults>>

\* beforeSend: the first key's turn claims the row, later ones rely on it.
Claim(h) ==
  /\ hpc[h] = "claim"
  /\ IF dispatched[h] \/ row[hjob[h]] \in Pending
     THEN /\ HandlerGoes(h, "claim", "post")
          /\ dispatched' = [dispatched EXCEPT ![h] = TRUE]
          /\ IF dispatched[h] THEN UNCHANGED sqlVars
                              ELSE UpdateRow(hjob[h], Pending, "submitting")
          /\ UNCHANGED <<err, lease>>
     ELSE /\ Raise(h, "claim", "unrecoverable")
          /\ UNCHANGED <<dispatched, sqlVars>>
  /\ UNCHANGED <<dryRun, queueVars, delivererVars, hjob, keysLeft, flight, providerVars, faults>>

\* SQL fails at the claim, which may have been committed.
ClaimFails(h) ==
  /\ ~dispatched[h]
  /\ Raise(h, "claim", "other")
  /\ \E from \in {{}, Pending} : UpdateRow(hjob[h], from, "submitting")
  /\ UNCHANGED <<dryRun, queueVars, delivererVars, hjob, keysLeft, dispatched,
                 flight, providerVars, faults>>

\* The request leaves; a dry run answers by itself.
Post(h) ==
  /\ HandlerGoes(h, "post", IF dryRun THEN "accepted" ELSE "posted")
  /\ flight' = IF dryRun THEN flight ELSE [flight EXCEPT ![h] = "flying"]
  /\ UNCHANGED <<dryRun, sqlVars, queueVars, lease, delivererVars, hjob, keysLeft, err,
                 dispatched, providerVars, faults>>

\* requestOnKey: acceptance, HTTP or envelope 429, 401 or 403 lead on to the
\* next key, and anything else (or a failed update of the key's row) raises.
Reply(h) ==
  /\ flight[h] \in {"accepted", "rate_limit", "key_dead", "error"}
  /\ flight' = [flight EXCEPT ![h] = "none"]
  /\ CASE flight[h] = "accepted" -> HandlerGoes(h, "posted", "accepted") /\ UNCHANGED <<err, lease>>
       [] flight[h] = "error"    -> Raise(h, "posted", "other")
       [] OTHER -> /\ HandlerGoes(h, "posted", "keys")
                   /\ err' = [err EXCEPT ![h] = flight[h]]
                   /\ UNCHANGED lease
  /\ UNCHANGED <<dryRun, sqlVars, queueVars, delivererVars, hjob, keysLeft, dispatched,
                 providerVars, faults>>

Adrift(h) ==
  orphans' = IF flight[h] = "flying" THEN [orphans EXCEPT ![hjob[h]] = @ + 1] ELSE orphans

\* Mutant: a request without an answer is taken for one the provider refused.
NoReplyIsRefusal(h) ==
  /\ HandlerGoes(h, "posted", "keys")
  /\ err' = [err EXCEPT ![h] = "rate_limit"]
  /\ flight' = [flight EXCEPT ![h] = "none"]
  /\ Adrift(h)
  /\ UNCHANGED <<dryRun, sqlVars, queueVars, lease, delivererVars, hjob, keysLeft,
                 dispatched, tasks, faults>>

\* The request times out or its connection breaks, wherever it is by then.
NoReply(h) ==
  /\ Raise(h, "posted", "other")
  /\ flight' = [flight EXCEPT ![h] = "none"]
  /\ Adrift(h)
  /\ UNCHANGED <<dryRun, sqlVars, queueVars, delivererVars, hjob, keysLeft, dispatched,
                 tasks, faults>>

\* Mutant: the acceptance overwrites whatever status the row has by now.
ConfirmBlindly(h) ==
  /\ HandlerGoes(h, "accepted", "complete")
  /\ UpdateRow(hjob[h], Statuses, IF dryRun THEN "dry_run" ELSE "submitted")
  /\ LeaveLease(h)
  /\ UNCHANGED <<dryRun, queueVars, delivererVars, hjob, keysLeft, err, dispatched,
                 flight, providerVars, faults>>

\* The acceptance is recorded, and the lease is left.
Confirm(h) ==
  /\ HandlerGoes(h, "accepted", "complete")
  /\ UpdateRow(hjob[h], IF dryRun THEN Pending \cup {"submitting"} ELSE {"submitting"},
                        IF dryRun THEN "dry_run" ELSE "submitted")
  /\ LeaveLease(h)
  /\ UNCHANGED <<dryRun, queueVars, delivererVars, hjob, keysLeft, err, dispatched,
                 flight, providerVars, faults>>

\* SQL fails after the acceptance, at the key's row or at the job's.
ConfirmFails(h) ==
  /\ Raise(h, "accepted", "other")
  /\ UNCHANGED <<dryRun, sqlVars, queueVars, delivererVars, hjob, keysLeft, dispatched,
                 flight, providerVars, faults>>

Refusals == {"rate_limit", "key_dead"}

\* The catch block.  Whether this attempt is the last is read from the
\* handler's copy of the job, which is out of date once its lock is lost.
Catch(h) ==
  LET j == hjob[h]
      last == IF lock[j] = h THEN {attempts[j] + 1 >= MaxAttempts} ELSE BOOLEAN
  IN
  /\ IF dispatched[h] /\ err[h] \notin Refusals
     THEN /\ HandlerGoes(h, "catch", "fail")
          /\ UpdateRow(j, {"submitting"}, "unconfirmed")
     ELSE /\ HandlerGoes(h, "catch", CASE err[h] = "rate_limit"    -> "limited"
                                       [] err[h] = "unrecoverable" -> "fail"
                                       [] OTHER                    -> "retry")
          /\ \E exhausted \in (IF err[h] = "unrecoverable" THEN {TRUE} ELSE last) :
               UpdateRow(j, Pending \cup (IF dispatched[h] THEN {"submitting"} ELSE {}),
                 IF err[h] = "rate_limit" \/ ~exhausted THEN "queued" ELSE "failed")
  /\ UNCHANGED <<dryRun, queueVars, lease, delivererVars, hjob, keysLeft, err, dispatched,
                 flight, providerVars, faults>>

Fault == faults < MaxFaults /\ faults' = faults + 1

\* SQL fails in the catch block: its exception is an ordinary one.
CatchFails(h) ==
  /\ Fault
  /\ HandlerGoes(h, "catch", "retry")
  /\ UNCHANGED <<dryRun, sqlVars, queueVars, lease, delivererVars, hjob, keysLeft, err,
                 dispatched, flight, providerVars>>

HandlerRests(h) ==
  /\ hpc' = [hpc EXCEPT ![h] = "idle"]
  /\ hjob' = [hjob EXCEPT ![h] = NoJob]
  /\ keysLeft' = [keysLeft EXCEPT ![h] = 0]
  /\ err' = [err EXCEPT ![h] = "none"]
  /\ dispatched' = [dispatched EXCEPT ![h] = FALSE]
  /\ flight' = [flight EXCEPT ![h] = "none"]

\* The queue settles the entry if the handler still has its lock.
Settle(h) ==
  LET j == hjob[h]
      tries == attempts[j] + 1
      ends == [complete |-> "completed", fail |-> "failed", limited |-> "waiting",
               retry |-> IF tries >= MaxAttempts THEN "failed" ELSE "waiting"]
  IN
  /\ hpc[h] \in {"complete", "fail", "retry", "limited"}
  /\ HandlerRests(h)
  /\ IF lock[j] = h
     THEN /\ job' = [job EXCEPT ![j] = ends[hpc[h]]]
          /\ attempts' = IF hpc[h] = "retry" THEN [attempts EXCEPT ![j] = tries] ELSE attempts
          /\ lock' = [lock EXCEPT ![j] = NoHandler]
     ELSE UNCHANGED queueVars
  /\ UNCHANGED <<dryRun, sqlVars, lease, delivererVars, providerVars, faults>>

-----------------------------------------------------------------------------
(* The provider, the operator, and faults.                                 *)

\* The provider answers; an answer that is neither acceptance nor refusal says
\* nothing of whether a task exists.
Answer(h) ==
  /\ flight[h] = "flying"
  /\ \E a \in {"accepted", "error"} \cup Refusals :
       /\ flight' = [flight EXCEPT ![h] = a]
       /\ \E n \in (CASE a = "accepted" -> {1} [] a = "error" -> {0, 1} [] OTHER -> {0}) :
            tasks' = [tasks EXCEPT ![hjob[h]] = @ + n]
  /\ UNCHANGED <<dryRun, sqlVars, queueVars, lease, delivererVars, hpc, hjob, keysLeft,
                 err, dispatched, orphans, faults>>

\* A request nobody awaits is executed, or is not.
OrphanEnds(j) ==
  /\ orphans[j] > 0
  /\ orphans' = [orphans EXCEPT ![j] = @ - 1]
  /\ \E n \in {0, 1} : tasks' = [tasks EXCEPT ![j] = @ + n]
  /\ UNCHANGED <<dryRun, sqlVars, queueVars, lease, delivererVars, handlerVars, faults>>

\* resolveLegacyRpaJob: under the lease the row is as the operator last saw it.
Review(j) ==
  /\ lease = NoHandler
  /\ row[j] \in Resolvable
  /\ lease' = Operator
  /\ seen' = [seen EXCEPT ![j] = TRUE]
  /\ UNCHANGED <<dryRun, row, queueVars, delivererVars, handlerVars, providerVars, faults>>

\* The transaction: it commits if the row has not changed since, whether or not
\* the lease has lapsed since assertOwned.
Resolve(j) ==
  /\ seen[j]
  /\ \E outcome \in Resolved :
       /\ outcome = "resolved_completed" => row[j] \in Submitted
       /\ UpdateRow(j, Resolvable, outcome)
  /\ lease' = IF lease = Operator THEN NoHandler ELSE lease
  /\ UNCHANGED <<dryRun, queueVars, delivererVars, handlerVars, providerVars, faults>>

\* The holder left without a word, stalled, or could not renew.
LeaseExpires ==
  /\ lease # NoHandler
  /\ lease' = NoHandler
  /\ UNCHANGED <<dryRun, sqlVars, queueVars, delivererVars, handlerVars, providerVars, faults>>

\* The worker's process dies; lease and lock stay until they expire.
Crash(h) ==
  /\ Fault
  /\ hpc[h] # "idle"
  /\ Adrift(h)
  /\ HandlerRests(h)
  /\ UNCHANGED <<dryRun, sqlVars, queueVars, lease, delivererVars, tasks>>

\* The lock of a handler that died, or runs on without renewing it, expires.
LockExpires(j) ==
  /\ lock[j] # NoHandler
  /\ IF hjob[lock[j]] = j THEN Fault ELSE UNCHANGED faults
  /\ lock' = [lock EXCEPT ![j] = NoHandler]
  /\ UNCHANGED <<dryRun, sqlVars, job, attempts, lease, delivererVars, handlerVars, providerVars>>

\* The queue hands a stalled job out again, or fails it.
Stalled(j) ==
  /\ job[j] = "active" /\ lock[j] = NoHandler
  /\ \E s \in {"waiting", "failed"} : job' = [job EXCEPT ![j] = s]
  /\ UNCHANGED <<dryRun, sqlVars, attempts, lock, lease, delivererVars, handlerVars,
                 providerVars, faults>>

\* Redis loses the entry, or drops it among the oldest that ended.
EntryLost(j) ==
  /\ Fault
  /\ job[j] # "absent"
  /\ job' = [job EXCEPT ![j] = "absent"]
  /\ lock' = [lock EXCEPT ![j] = NoHandler]
  /\ UNCHANGED <<dryRun, sqlVars, attempts, lease, delivererVars, handlerVars, providerVars>>

-----------------------------------------------------------------------------
Delivers(d) ==
  \/ \E j \in Jobs : Pick(d, j)
  \/ Look(d) \/ Recheck(d) \/ Add(d) \/ Revive(d) \/ Mark(d)

Works(h) ==
  \/ \E j \in Jobs : TakeJob(h, j)
  \/ Load(h) \/ Check(h)
  \/ Acquire(h) \/ AcquireFails(h)
  \/ TryKey(h) \/ SkipKey(h) \/ KeysExhausted(h) \/ KeyFails(h)
  \/ Guard(h) \/ Claim(h) \/ ClaimFails(h)
  \/ Post(h) \/ Reply(h) \/ NoReply(h)
  \/ Confirm(h) \/ ConfirmFails(h)
  \/ Catch(h) \/ Settle(h)

Next ==
  \/ \E j \in Jobs : Create(j)
  \/ \E d \in Deliverers : Delivers(d) \/ DeliveryFails(d)
  \/ \E h \in Handlers : Works(h) \/ CatchFails(h) \/ Answer(h) \/ Crash(h)
  \/ \E j \in Jobs : OrphanEnds(j) \/ Review(j) \/ Resolve(j)
                    \/ LockExpires(j) \/ Stalled(j) \/ EntryLost(j)
  \/ LeaseExpires

\* Deliverers and handlers run on, locks of dead handlers expire, the outages
\* that interrupt a delivery and the cooling of the keys come to an end.
Fairness ==
  /\ \A d \in Deliverers :
       /\ WF_vars(\E j \in Jobs : Pick(d, j))
       /\ SF_vars(Look(d)) /\ SF_vars(Recheck(d)) /\ SF_vars(Add(d))
       /\ SF_vars(Revive(d)) /\ SF_vars(Mark(d))
  /\ \A h \in Handlers : WF_vars(Works(h)) /\ SF_vars(TryKey(h))
  /\ \A j \in Jobs : WF_vars(LockExpires(j)) /\ WF_vars(Stalled(j))

Spec == Init /\ [][Next]_vars
FairSpec == Spec /\ Fairness

-----------------------------------------------------------------------------
(* Properties.                                                             *)

\* Every variable stays in its range; the queue never runs a job more often
\* than its attempts allow between two deliveries.
TypeOK ==
  /\ dryRun \in BOOLEAN
  /\ row \in [Jobs -> Statuses]
  /\ seen \in [Jobs -> BOOLEAN]
  /\ job \in [Jobs -> JobStates]
  /\ attempts \in [Jobs -> 0 .. MaxAttempts]
  /\ lock \in [Jobs -> Handlers \cup {NoHandler}]
  /\ lease \in Handlers \cup {Operator, NoHandler}
  /\ dpc \in [Deliverers -> {"idle", "look", "recheck", "add", "revive", "mark"}]
  /\ djob \in [Deliverers -> Jobs \cup {NoJob}]
  /\ hpc \in [Handlers -> HandlerPlaces]
  /\ hjob \in [Handlers -> Jobs \cup {NoJob}]
  /\ keysLeft \in [Handlers -> 0 .. KeyCount]
  /\ err \in [Handlers -> Errors]
  /\ dispatched \in [Handlers -> BOOLEAN]
  /\ flight \in [Handlers -> {"none", "flying", "accepted", "error"} \cup Refusals]
  /\ orphans \in [Jobs -> Nat]
  /\ tasks \in [Jobs -> Nat]
  /\ faults \in 0 .. MaxFaults

Flying(j) == {h \in Handlers : hjob[h] = j /\ flight[h] = "flying"}
Landed(j) == tasks[j] + orphans[j] + Cardinality(Flying(j))

\* Whatever is redelivered, retried, lost or run twice, one intent never has
\* two tasks or requests at the provider (rpaWorker.ts, the claim in beforeSend
\* and the catch block).
AtMostOnce == \A j \in Jobs : Landed(j) <= 1

\* While a task of an intent exists or may still come to exist, the row is in
\* a status that blocks other work on the phone (rpaOwnership.ts), unless an
\* operator has attested otherwise.
PossiblySubmittedIsHeld ==
  \A j \in Jobs : Landed(j) > 0 => row[j] \in Submitted \cup Resolved

\* What a submission may not go wrong in: it keeps its shape, it happens at most
\* once, and what may have happened is never treated as if it had not.
SubmissionIsSafe == TypeOK /\ AtMostOnce /\ PossiblySubmittedIsHeld

\* An intent as its caller sees it.
Phase(status) ==
  CASE status \in Pending   -> "pending"
    [] status \in Submitted -> "outstanding"
    [] status \in Resolved  -> "resolved"
    [] status = "absent"    -> "absent"
    [] OTHER                -> "closed"

Phases  == [j \in Jobs |-> Phase(row[j])]
Landing == [j \in Jobs |-> Landed(j)]

Intent == INSTANCE RpaIntent WITH intent <- Phases, landed <- Landing

\* The intent keeps its promise (RpaIntent): it is reopened or closed only with
\* nothing at the provider, and an operator's resolution is never overwritten.
KeepsIntent == Intent!Spec

\* A saved intent does not stay pending for ever: it is claimed, closed or
\* resolved, although its delivery, its lock and its queue entry may be lost.
PendingIsSettled == \A j \in Jobs : row[j] \in Pending ~> row[j] \notin Pending
=============================================================================
