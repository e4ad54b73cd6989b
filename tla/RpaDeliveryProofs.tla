-------------------------- MODULE RpaDeliveryProofs --------------------------
(***************************************************************************)
(* The delivery of RPA intents for any jobs, handlers, deliverers, keys    *)
(* and attempts: types, at most one submission, and the promise of         *)
(* RpaIntent, which every step keeps.                                      *)
(***************************************************************************)
EXTENDS RpaDelivery, FiniteSetTheorems, TLAPS

\* What a handler's place says of its variables.
HandlersFit ==
  \A h \in Handlers :
    /\ hpc[h] # "idle" => hjob[h] \in Jobs
    /\ hpc[h] \in {"idle", "load", "check", "acquire"} => ~dispatched[h]
    /\ hpc[h] \in {"post", "posted", "accepted"} => dispatched[h]
    /\ flight[h] # "none" <=> hpc[h] = "posted"

\* An entry that may still be run has an attempt left.
EntriesFit ==
  \A j \in Jobs :
    /\ lock[j] # NoHandler => job[j] = "active"
    /\ job[j] \in {"waiting", "active"} => attempts[j] < MaxAttempts

\* A deliverer at work has a job.
DeliverersFit == \A d \in Deliverers : dpc[d] # "idle" => djob[d] \in Jobs

\* The handler that claimed a job and has not yet settled what became of it.
Owns(h, j) ==
  /\ hjob[h] = j /\ dispatched[h]
  /\ hpc[h] \in {"keys", "guard", "claim", "post", "posted", "accepted", "catch"}

\* There is one, and while there is, nobody can claim the job again.
OneOwner ==
  \A j \in Jobs, h \in Handlers : Owns(h, j) =>
    /\ row[j] \in {"submitting"} \cup Resolved
    /\ \A g \in Handlers : Owns(g, j) => g = h

\* Until its request is answered by an acceptance or an error, or given up,
\* the owner has left nothing at the provider.
NothingLeft(h) ==
  \/ hpc[h] \in {"keys", "guard", "claim", "post"}
  \/ hpc[h] = "posted" /\ flight[h] \in {"flying"} \cup Refusals
  \/ hpc[h] = "catch" /\ err[h] \in Refusals

OwnersAreClean ==
  \A j \in Jobs, h \in Handlers : Owns(h, j) /\ NothingLeft(h) =>
    tasks[j] = 0 /\ orphans[j] = 0

\* What is at the provider, answered or not.
AtProvider ==
  \A j \in Jobs :
    /\ tasks[j] + orphans[j] <= 1
    /\ tasks[j] + orphans[j] > 0 => row[j] \in Submitted \cup Resolved

\* A dry run sends nothing.
DryRunIsSilent ==
  dryRun => /\ \A j \in Jobs : tasks[j] = 0 /\ orphans[j] = 0
            /\ \A h \in Handlers : hpc[h] # "posted"

Shape == TypeOK /\ HandlersFit /\ EntriesFit /\ DeliverersFit

IInv == Shape /\ OneOwner /\ OwnersAreClean /\ AtProvider /\ DryRunIsSilent

LEMMA InitIInv == Init => IInv
BY Distinct, Counts
   DEF Init, IInv, Shape, TypeOK, HandlersFit, EntriesFit, DeliverersFit, Owns, OneOwner,
       OwnersAreClean, AtProvider, DryRunIsSilent, Statuses, JobStates, HandlerPlaces, Errors

\* What an update of a row leaves behind.
LEMMA RowUpdated ==
  ASSUME NEW j \in Jobs, NEW from, NEW to \in Statuses,
         row \in [Jobs -> Statuses], seen \in [Jobs -> BOOLEAN], UpdateRow(j, from, to)
  PROVE  /\ row' \in [Jobs -> Statuses]
         /\ seen' \in [Jobs -> BOOLEAN]
         /\ \A k \in Jobs : row'[k] = IF k = j /\ row[j] \in from THEN to ELSE row[k]
BY DEF UpdateRow, sqlVars

LEMMA StatusNames ==
  /\ {"absent", "failed", "dry_run", "enqueue_pending", "queued"} \subseteq Statuses
  /\ Submitted \subseteq Statuses
  /\ Resolved \subseteq Statuses
  /\ {"submitting", "submitted", "unconfirmed"} \subseteq Statuses
BY DEF Statuses, Submitted, Resolved, Pending

LEMMA ShapeStep == Shape /\ [Next]_vars => Shape'
<1> SUFFICES ASSUME Shape, [Next]_vars PROVE Shape'
  OBVIOUS
<1> USE DEF Shape, TypeOK, HandlersFit, EntriesFit, DeliverersFit, JobStates, HandlerPlaces, Errors,
            sqlVars, queueVars, delivererVars, handlerVars, providerVars,
            DelivererGoes, HandlerGoes, LeaveLease, Raise
<1>1. CASE UNCHANGED vars
  BY <1>1 DEF vars
<1>2. ASSUME NEW j \in Jobs, Create(j) PROVE Shape'
  BY <1>2, RowUpdated, StatusNames DEF Create
<1>3. ASSUME NEW d \in Deliverers, NEW j \in Jobs, Pick(d, j) PROVE Shape'
  BY <1>3 DEF Pick
<1>4. ASSUME NEW d \in Deliverers, Look(d) \/ Recheck(d) PROVE Shape'
  BY <1>4 DEF Look, Recheck
<1>5. ASSUME NEW d \in Deliverers, Add(d) PROVE Shape'
  BY <1>5, Distinct, Counts DEF Add, Enter
<1>6. ASSUME NEW d \in Deliverers, Revive(d) PROVE Shape'
  BY <1>6, Distinct, Counts DEF Revive, Enter
<1>7. ASSUME NEW d \in Deliverers, Mark(d) \/ DeliveryFails(d) PROVE Shape'
  <2>1. CASE Mark(d)
    <3>1. djob[d] \in Jobs
      BY <2>1 DEF Mark
    <3> QED
      BY <2>1, <3>1, RowUpdated, StatusNames DEF Mark
  <2>2. CASE DeliveryFails(d)
    BY <2>2 DEF DeliveryFails
  <2> QED
    BY <1>7, <2>1, <2>2
<1>8. ASSUME NEW h \in Handlers, NEW j \in Jobs, TakeJob(h, j) PROVE Shape'
  BY <1>8 DEF TakeJob
<1>9. ASSUME NEW h \in Handlers, Load(h) PROVE Shape'
  BY <1>9 DEF Load
<1>10. ASSUME NEW h \in Handlers, Check(h) \/ Guard(h) PROVE Shape'
  BY <1>10 DEF Check, Guard, DeviceErrors
<1>11. ASSUME NEW h \in Handlers, Acquire(h) \/ AcquireFails(h) PROVE Shape'
  BY <1>11, Counts DEF Acquire, AcquireFails
<1>12. ASSUME NEW h \in Handlers, TryKey(h) \/ SkipKey(h) PROVE Shape'
  BY <1>12, Counts DEF TryKey, SkipKey
<1>13. ASSUME NEW h \in Handlers, KeysExhausted(h) \/ KeyFails(h) PROVE Shape'
  BY <1>13, Counts DEF KeysExhausted, KeyFails
<1>14. ASSUME NEW h \in Handlers, Claim(h) PROVE Shape'
  <2>1. hjob[h] \in Jobs
    BY <1>14 DEF Claim
  <2>2. row' \in [Jobs -> Statuses] /\ seen' \in [Jobs -> BOOLEAN]
    BY <1>14, <2>1, RowUpdated, StatusNames DEF Claim
  <2>3. CASE dispatched[h] \/ row[hjob[h]] \in Pending
    <3>1. /\ HandlerGoes(h, "claim", "post")
          /\ dispatched' = [dispatched EXCEPT ![h] = TRUE]
          /\ UNCHANGED <<dryRun, queueVars, lease, delivererVars, hjob, keysLeft, err, flight,
                         providerVars, faults>>
      BY <1>14, <2>3 DEF Claim
    <3> QED
      BY <2>1, <2>2, <3>1
  <2>4. CASE ~(dispatched[h] \/ row[hjob[h]] \in Pending)
    BY <1>14, <2>2, <2>4 DEF Claim
  <2> QED
    BY <2>3, <2>4
<1>15. ASSUME NEW h \in Handlers, ClaimFails(h) PROVE Shape'
  <2>1. hjob[h] \in Jobs
    BY <1>15 DEF ClaimFails
  <2>2. row' \in [Jobs -> Statuses] /\ seen' \in [Jobs -> BOOLEAN]
    BY <1>15, <2>1, RowUpdated, StatusNames DEF ClaimFails
  <2> QED
    BY <1>15, <2>2 DEF ClaimFails
<1>16. ASSUME NEW h \in Handlers, Post(h) PROVE Shape'
  BY <1>16 DEF Post
<1>17. ASSUME NEW h \in Handlers, Reply(h) PROVE Shape'
  BY <1>17 DEF Reply, Refusals
<1>18. ASSUME NEW h \in Handlers, NoReply(h) PROVE Shape'
  BY <1>18 DEF NoReply, Adrift
<1>19. ASSUME NEW h \in Handlers, Confirm(h) \/ ConfirmFails(h) PROVE Shape'
  <2>1. hjob[h] \in Jobs
    BY <1>19 DEF Confirm, ConfirmFails
  <2>2. row' \in [Jobs -> Statuses] /\ seen' \in [Jobs -> BOOLEAN]
    BY <1>19, <2>1, RowUpdated, StatusNames DEF Confirm, ConfirmFails
  <2> QED
    BY <1>19, <2>2 DEF Confirm, ConfirmFails
<1>20. ASSUME NEW h \in Handlers, Catch(h) PROVE Shape'
  <2>1. hjob[h] \in Jobs
    BY <1>20 DEF Catch
  <2>2. row' \in [Jobs -> Statuses] /\ seen' \in [Jobs -> BOOLEAN]
    BY <1>20, <2>1, RowUpdated, StatusNames DEF Catch
  <2>3. \E to \in {"fail", "limited", "retry"} : HandlerGoes(h, "catch", to)
    BY <1>20 DEF Catch
  <2> QED
    BY <1>20, <2>2, <2>3 DEF Catch
<1>21. ASSUME NEW h \in Handlers, CatchFails(h) PROVE Shape'
  BY <1>21, Counts DEF CatchFails, Fault
<1>22. ASSUME NEW h \in Handlers, Settle(h) PROVE Shape'
  BY <1>22, Distinct, Counts DEF Settle, HandlerRests
<1>23. ASSUME NEW h \in Handlers, Answer(h) PROVE Shape'
  BY <1>23 DEF Answer, Refusals
<1>24. ASSUME NEW h \in Handlers, Crash(h) PROVE Shape'
  BY <1>24, Counts DEF Crash, Fault, HandlerRests, Adrift
<1>25. ASSUME NEW j \in Jobs, OrphanEnds(j) PROVE Shape'
  BY <1>25 DEF OrphanEnds
<1>26. ASSUME NEW j \in Jobs, Review(j) \/ Resolve(j) PROVE Shape'
  <2>1. CASE Review(j)
    BY <2>1 DEF Review
  <2>2. CASE Resolve(j)
    <3>1. row' \in [Jobs -> Statuses] /\ seen' \in [Jobs -> BOOLEAN]
      BY <2>2, RowUpdated, StatusNames DEF Resolve
    <3> QED
      BY <2>2, <3>1 DEF Resolve
  <2> QED
    BY <1>26, <2>1, <2>2
<1>27. ASSUME NEW j \in Jobs, LockExpires(j) \/ Stalled(j) \/ EntryLost(j) PROVE Shape'
  BY <1>27, Distinct, Counts DEF LockExpires, Stalled, EntryLost, Fault
<1>28. CASE LeaseExpires
  BY <1>28 DEF LeaseExpires
<1>29. QED
  BY <1>1, <1>2, <1>3, <1>4, <1>5, <1>6, <1>7, <1>8, <1>9, <1>10, <1>11, <1>12, <1>13, <1>14, <1>15,
     <1>16, <1>17, <1>18, <1>19, <1>20, <1>21, <1>22, <1>23, <1>24, <1>25, <1>26, <1>27, <1>28
     DEF Next, Delivers, Works

-----------------------------------------------------------------------------
\* What an owned, and an unowned, row can be.
LEMMA OwnersAndRows ==
  ASSUME IInv, NEW j \in Jobs
  PROVE  /\ row[j] \notin Submitted \cup Resolved => tasks[j] = 0 /\ orphans[j] = 0
         /\ row[j] \in Pending \cup {"absent"} =>
              row[j] \notin Submitted \cup Resolved /\ \A h \in Handlers : ~Owns(h, j)
<1>1. tasks[j] \in Nat /\ orphans[j] \in Nat
  BY DEF IInv, Shape, TypeOK
<1>2. row[j] \notin Submitted \cup Resolved => tasks[j] = 0 /\ orphans[j] = 0
  BY <1>1 DEF IInv, AtProvider
<1>3. \A h \in Handlers : Owns(h, j) => row[j] \in {"submitting"} \cup Resolved
  BY DEF IInv, OneOwner
<1> QED
  BY <1>2, <1>3 DEF Pending, Submitted, Resolved

\* A step that sends nothing, makes no owner and takes nothing that may have
\* been submitted for something that was not.
Quiet ==
  /\ UNCHANGED <<dryRun, tasks, orphans>>
  /\ \A h \in Handlers, j \in Jobs :
       Owns(h, j)' => Owns(h, j) /\ (NothingLeft(h)' => NothingLeft(h))
  /\ \A j \in Jobs : row'[j] # row[j] =>
       \/ row'[j] \in Resolved
       \/ /\ \A h \in Handlers : ~Owns(h, j)'
          /\ row'[j] \in Submitted \/ (tasks[j] = 0 /\ orphans[j] = 0)
  /\ \A h \in Handlers : hpc'[h] = "posted" => hpc[h] = "posted" \/ ~dryRun

Claims == OneOwner /\ OwnersAreClean /\ AtProvider /\ DryRunIsSilent

LEMMA QuietStep == IInv /\ Quiet => Claims'
<1> SUFFICES ASSUME IInv, Quiet PROVE Claims'
  OBVIOUS
<1>1. OneOwner'
  <2> SUFFICES ASSUME NEW j \in Jobs, NEW h \in Handlers, Owns(h, j)'
               PROVE  /\ row'[j] \in {"submitting"} \cup Resolved
                      /\ \A g \in Handlers : Owns(g, j)' => g = h
    BY DEF OneOwner
  <2>1. /\ row[j] \in {"submitting"} \cup Resolved
        /\ \A g \in Handlers : Owns(g, j) => g = h
    BY DEF IInv, Quiet, OneOwner
  <2> QED
    BY <2>1 DEF Quiet
<1>2. OwnersAreClean'
  BY DEF IInv, Quiet, OwnersAreClean
<1>3. AtProvider'
  BY DEF IInv, Shape, TypeOK, Quiet, AtProvider
<1>4. DryRunIsSilent'
  BY DEF IInv, Quiet, DryRunIsSilent
<1> QED
  BY <1>1, <1>2, <1>3, <1>4 DEF Claims

\* The steps of anyone but a handler.
LEMMA OthersAreQuiet ==
  ASSUME IInv, UNCHANGED <<dryRun, handlerVars, providerVars>>,
         \A j \in Jobs : row'[j] # row[j] =>
           row'[j] \in Resolved \/ row[j] \in Pending \cup {"absent"}
  PROVE  Quiet
<1>1. \A h \in Handlers, j \in Jobs : (Owns(h, j)' <=> Owns(h, j)) /\ (NothingLeft(h)' <=> NothingLeft(h))
  BY DEF handlerVars, Owns, NothingLeft
<1> QED
  BY <1>1, OwnersAndRows DEF Quiet, handlerVars, providerVars

\* The steps of a handler that leave the row and the provider alone.
LEMMA HandlerIsQuiet ==
  ASSUME IInv, NEW h \in Handlers, UNCHANGED <<dryRun, row, providerVars>>,
         \A g \in Handlers \ {h} :
           /\ hpc'[g] = hpc[g] /\ hjob'[g] = hjob[g] /\ err'[g] = err[g]
           /\ dispatched'[g] = dispatched[g] /\ flight'[g] = flight[g],
         \A j \in Jobs : Owns(h, j)' => Owns(h, j) /\ (NothingLeft(h)' => NothingLeft(h)),
         hpc'[h] = "posted" => hpc[h] = "posted" \/ ~dryRun
  PROVE  Quiet
<1>1. \A g \in Handlers \ {h}, j \in Jobs : (Owns(g, j)' <=> Owns(g, j)) /\ (NothingLeft(g)' <=> NothingLeft(g))
  BY DEF Owns, NothingLeft
<1> QED
  BY <1>1 DEF Quiet, providerVars

\* The steps of a handler that updates its row: it claims nothing, and a row
\* that leaves the submitted ones has nothing at the provider.
LEMMA UpdateIsQuiet ==
  ASSUME IInv, NEW h \in Handlers, UNCHANGED <<dryRun, providerVars>>,
         NEW from, NEW to \in Statuses, hjob[h] \in Jobs, UpdateRow(hjob[h], from, to),
         \A g \in Handlers \ {h} :
           /\ hpc'[g] = hpc[g] /\ hjob'[g] = hjob[g] /\ err'[g] = err[g]
           /\ dispatched'[g] = dispatched[g] /\ flight'[g] = flight[g],
         \A j \in Jobs : ~Owns(h, j)',
         hpc'[h] # "posted",
         row[hjob[h]] \in from =>
           \/ row[hjob[h]] \in Pending
           \/ /\ Owns(h, hjob[h])
              /\ to \in Submitted \/ (tasks[hjob[h]] = 0 /\ orphans[hjob[h]] = 0)
  PROVE  Quiet
<1>1. \A g \in Handlers \ {h}, j \in Jobs : (Owns(g, j)' <=> Owns(g, j)) /\ (NothingLeft(g)' <=> NothingLeft(g))
  BY DEF Owns, NothingLeft
<1>2. \A j \in Jobs : row'[j] # row[j] => j = hjob[h] /\ row[j] \in from /\ row'[j] = to
  BY RowUpdated DEF IInv, Shape, TypeOK
<1>3. ASSUME NEW j \in Jobs, row'[j] # row[j]
      PROVE  /\ \A g \in Handlers : ~Owns(g, j)'
             /\ row'[j] \in Submitted \/ (tasks[j] = 0 /\ orphans[j] = 0)
  <2>1. CASE row[j] \in Pending
    BY <1>1, <1>2, <1>3, <2>1, OwnersAndRows
  <2>2. CASE Owns(h, j) /\ (to \in Submitted \/ (tasks[j] = 0 /\ orphans[j] = 0))
    BY <1>1, <1>2, <1>3, <2>2 DEF IInv, OneOwner
  <2> QED
    BY <1>2, <1>3, <2>1, <2>2
<1> QED
  BY <1>1, <1>3 DEF Quiet, providerVars

\* What becomes of the one request of an owner: what it leaves at the provider
\* is the first thing there, and the owner is not clean any more.
LEMMA OwnerSends ==
  ASSUME IInv, NEW h \in Handlers, NEW j \in Jobs, Owns(h, j), NothingLeft(h),
         hpc[h] = "posted", UNCHANGED <<dryRun, row>>,
         \A g \in Handlers \ {h} :
           /\ hpc'[g] = hpc[g] /\ hjob'[g] = hjob[g] /\ err'[g] = err[g]
           /\ dispatched'[g] = dispatched[g] /\ flight'[g] = flight[g],
         \A k \in Jobs \ {j} : tasks'[k] = tasks[k] /\ orphans'[k] = orphans[k],
         tasks'[j] + orphans'[j] <= 1,
         \A k \in Jobs : Owns(h, k)' => k = j,
         Owns(h, j)' /\ NothingLeft(h)' => tasks'[j] = 0 /\ orphans'[j] = 0
  PROVE  Claims'
<1>1. \A g \in Handlers \ {h}, k \in Jobs : (Owns(g, k)' <=> Owns(g, k)) /\ (NothingLeft(g)' <=> NothingLeft(g))
  BY DEF Owns, NothingLeft
<1>2. row[j] \in {"submitting"} \cup Resolved /\ \A g \in Handlers : Owns(g, j) => g = h
  BY DEF IInv, OneOwner
<1>3. ~dryRun
  BY DEF IInv, DryRunIsSilent
<1>4. \A g \in Handlers, k \in Jobs : Owns(g, k)' => Owns(g, k)
  BY <1>1
<1>5. OneOwner'
  BY <1>4 DEF IInv, OneOwner
<1>6. OwnersAreClean'
  BY <1>1, <1>2 DEF IInv, OwnersAreClean
<1>7. AtProvider'
  BY <1>2 DEF IInv, AtProvider, Submitted
<1> QED
  BY <1>3, <1>5, <1>6, <1>7 DEF Claims, DryRunIsSilent

\* An answer, and the task it does or does not stand for.
LEMMA AnswerSays ==
  ASSUME NEW h \in Handlers, Answer(h)
  PROVE  \E a \in {"accepted", "error"} \cup Refusals, n \in {0, 1} :
           /\ flight' = [flight EXCEPT ![h] = a]
           /\ tasks' = [tasks EXCEPT ![hjob[h]] = @ + n]
           /\ n = 1 => a \notin Refusals
<1>1. PICK a \in {"accepted", "error"} \cup Refusals :
        /\ flight' = [flight EXCEPT ![h] = a]
        /\ \E n \in (CASE a = "accepted" -> {1} [] a = "error" -> {0, 1} [] OTHER -> {0}) :
             tasks' = [tasks EXCEPT ![hjob[h]] = @ + n]
  BY DEF Answer
<1>2. CASE a = "accepted"
  BY <1>1, <1>2 DEF Refusals
<1>3. CASE a = "error"
  BY <1>1, <1>3 DEF Refusals
<1>4. CASE a \in Refusals
  <2>1. a # "accepted" /\ a # "error"
    BY <1>4 DEF Refusals
  <2>2. tasks' = [tasks EXCEPT ![hjob[h]] = @ + 0]
    BY <1>1, <2>1
  <2>3. 0 \in {0, 1} /\ 0 # 1
    OBVIOUS
  <2> WITNESS a \in {"accepted", "error"} \cup Refusals, 0 \in {0, 1}
  <2> QED
    BY <1>1, <2>2, <2>3
<1> QED
  BY <1>2, <1>3, <1>4

-----------------------------------------------------------------------------
\* The claims, step by step.
LEMMA ClaimsStep == IInv /\ [Next]_vars => Claims'
<1> SUFFICES ASSUME IInv, [Next]_vars PROVE Claims'
  OBVIOUS
<1>0. TypeOK /\ HandlersFit /\ EntriesFit /\ DeliverersFit /\ Claims
  BY DEF IInv, Shape, Claims
<1> USE DEF handlerVars, providerVars, sqlVars
<1>1. CASE UNCHANGED vars
  BY <1>1, OthersAreQuiet, QuietStep DEF vars
<1>2. ASSUME NEW j \in Jobs, Create(j) PROVE Claims'
  BY <1>0, <1>2, RowUpdated, StatusNames, OthersAreQuiet, QuietStep DEF Create, TypeOK
<1>3. ASSUME NEW d \in Deliverers, \E j \in Jobs : Pick(d, j) PROVE Claims'
  BY <1>3, OthersAreQuiet, QuietStep DEF Pick
<1>4. ASSUME NEW d \in Deliverers, Look(d) \/ Recheck(d) \/ Add(d) \/ Revive(d) \/ DeliveryFails(d)
      PROVE  Claims'
  BY <1>4, OthersAreQuiet, QuietStep DEF Look, Recheck, Add, Revive, DeliveryFails
<1>5. ASSUME NEW d \in Deliverers, Mark(d) PROVE Claims'
  <2>1. djob[d] \in Jobs
    BY <1>0, <1>5 DEF Mark, DelivererGoes, DeliverersFit
  <2> QED
    BY <1>0, <1>5, <2>1, RowUpdated, StatusNames, OthersAreQuiet, QuietStep DEF Mark, TypeOK, Pending
<1>6. ASSUME NEW h \in Handlers, (\E j \in Jobs : TakeJob(h, j)) \/ Load(h) \/ Acquire(h) \/ CatchFails(h)
      PROVE  Claims'
  BY <1>0, <1>6, HandlerIsQuiet, QuietStep
     DEF TakeJob, Load, Acquire, CatchFails, HandlerGoes, TypeOK, HandlersFit, Owns
<1>7. ASSUME NEW h \in Handlers, Check(h) \/ AcquireFails(h) PROVE Claims'
  BY <1>0, <1>7, HandlerIsQuiet, QuietStep
     DEF Check, AcquireFails, HandlerGoes, Raise, TypeOK, HandlersFit, Owns
<1>8. ASSUME NEW h \in Handlers, TryKey(h) \/ SkipKey(h) \/ KeysExhausted(h) \/ KeyFails(h) \/ Guard(h)
      PROVE  Claims'
  BY <1>0, <1>8, HandlerIsQuiet, QuietStep
     DEF TryKey, SkipKey, KeysExhausted, KeyFails, Guard, HandlerGoes, Raise, TypeOK, HandlersFit, Owns, NothingLeft
<1>9. ASSUME NEW h \in Handlers, Post(h) \/ Reply(h) \/ ConfirmFails(h) PROVE Claims'
  BY <1>0, <1>9, HandlerIsQuiet, QuietStep
     DEF Post, Reply, ConfirmFails, HandlerGoes, Raise, TypeOK, HandlersFit, Owns, NothingLeft, Refusals
<1>10. ASSUME NEW h \in Handlers, Settle(h) PROVE Claims'
  BY <1>0, <1>10, HandlerIsQuiet, QuietStep DEF Settle, HandlerRests, TypeOK, HandlersFit, Owns
<1>20. ASSUME NEW j \in Jobs, Review(j) \/ LockExpires(j) \/ Stalled(j) \/ EntryLost(j) PROVE Claims'
  BY <1>20, OthersAreQuiet, QuietStep DEF Review, LockExpires, Stalled, EntryLost
<1>21. ASSUME NEW j \in Jobs, Resolve(j) PROVE Claims'
  BY <1>0, <1>21, RowUpdated, StatusNames, OthersAreQuiet, QuietStep DEF Resolve, TypeOK
<1>22. CASE LeaseExpires
  BY <1>22, OthersAreQuiet, QuietStep DEF LeaseExpires
<1>11. ASSUME NEW h \in Handlers, Claim(h) PROVE Claims'
  <2> DEFINE j == hjob[h]
  <2>1. j \in Jobs /\ hpc[h] = "claim"
    BY <1>0, <1>11 DEF Claim, HandlersFit
  <2>2. CASE dispatched[h]
    BY <1>0, <1>11, <2>1, <2>2, HandlerIsQuiet, QuietStep
       DEF Claim, HandlerGoes, TypeOK, Owns, NothingLeft
  <2>3. CASE ~dispatched[h] /\ row[j] \notin Pending
    BY <1>0, <1>11, <2>1, <2>3, HandlerIsQuiet, QuietStep
       DEF Claim, HandlerGoes, Raise, TypeOK, Owns, NothingLeft
  <2>4. CASE ~dispatched[h] /\ row[j] \in Pending
    <3>1. UpdateRow(j, Pending, "submitting") /\ UNCHANGED <<dryRun, tasks, orphans>>
      BY <1>11, <2>4 DEF Claim
    <3>2. \A k \in Jobs : row'[k] = IF k = j THEN "submitting" ELSE row[k]
      BY <1>0, <2>1, <2>4, <3>1, RowUpdated, StatusNames DEF TypeOK
    <3>3. \A g \in Handlers \ {h}, k \in Jobs :
            (Owns(g, k)' <=> Owns(g, k)) /\ (NothingLeft(g)' <=> NothingLeft(g))
      BY <1>0, <1>11, <2>4 DEF Claim, HandlerGoes, TypeOK, Owns, NothingLeft
    <3>4. \A k \in Jobs : Owns(h, k)' => k = j
      BY <1>0, <1>11, <2>4 DEF Claim, Owns
    <3>5. tasks[j] = 0 /\ orphans[j] = 0 /\ \A g \in Handlers : ~Owns(g, j)
      BY <2>1, <2>4, OwnersAndRows
    <3>6. OneOwner'
      BY <1>0, <3>2, <3>3, <3>4, <3>5 DEF Claims, OneOwner
    <3>7. OwnersAreClean'
      BY <1>0, <3>1, <3>3, <3>4, <3>5 DEF Claims, OwnersAreClean
    <3>8. AtProvider'
      BY <1>0, <3>1, <3>2, <3>5 DEF Claims, AtProvider, Submitted
    <3>9. DryRunIsSilent'
      BY <1>0, <1>11, <3>1, <2>4 DEF Claim, HandlerGoes, TypeOK, Claims, DryRunIsSilent
    <3> QED
      BY <3>6, <3>7, <3>8, <3>9 DEF Claims
  <2> QED
    BY <2>2, <2>3, <2>4
<1>12. ASSUME NEW h \in Handlers, ClaimFails(h) PROVE Claims'
  <2>1. PICK from \in {{}, Pending} : UpdateRow(hjob[h], from, "submitting")
    BY <1>12 DEF ClaimFails
  <2>2. hjob[h] \in Jobs
    BY <1>0, <1>12 DEF ClaimFails, Raise, HandlerGoes, HandlersFit
  <2> QED
    BY <1>0, <1>12, <2>1, <2>2, StatusNames, UpdateIsQuiet, QuietStep
       DEF ClaimFails, Raise, HandlerGoes, TypeOK, Owns
<1>13. ASSUME NEW h \in Handlers, Confirm(h) PROVE Claims'
  <2>1. hjob[h] \in Jobs /\ Owns(h, hjob[h])
    BY <1>0, <1>13 DEF Confirm, HandlerGoes, HandlersFit, TypeOK, Owns
  <2>2. dryRun => tasks[hjob[h]] = 0 /\ orphans[hjob[h]] = 0
    BY <1>0, <2>1 DEF Claims, DryRunIsSilent
  <2> QED
    BY <1>0, <1>13, <2>1, <2>2, StatusNames, UpdateIsQuiet, QuietStep
       DEF Confirm, HandlerGoes, TypeOK, Owns, Submitted
<1>14. ASSUME NEW h \in Handlers, Catch(h) PROVE Claims'
  <2>1. hjob[h] \in Jobs /\ (dispatched[h] => Owns(h, hjob[h]))
    BY <1>0, <1>14 DEF Catch, HandlerGoes, HandlersFit, TypeOK, Owns
  <2>2. dispatched[h] /\ err[h] \in Refusals => tasks[hjob[h]] = 0 /\ orphans[hjob[h]] = 0
    BY <1>0, <1>14, <2>1 DEF Catch, HandlerGoes, Claims, OwnersAreClean, NothingLeft
  <2>3. \E to \in {"fail", "limited", "retry"} : HandlerGoes(h, "catch", to)
    BY <1>14 DEF Catch
  <2>4. PICK from \in SUBSET Statuses, to \in Statuses :
          /\ UpdateRow(hjob[h], from, to)
          /\ row[hjob[h]] \in from =>
               \/ row[hjob[h]] \in Pending
               \/ dispatched[h] /\ (to = "unconfirmed" \/ err[h] \in Refusals)
    <3>1. CASE dispatched[h] /\ err[h] \notin Refusals
      BY <1>14, <3>1, StatusNames DEF Catch
    <3>2. CASE ~(dispatched[h] /\ err[h] \notin Refusals)
      <4> DEFINE from == Pending \cup (IF dispatched[h] THEN {"submitting"} ELSE {})
      <4>1. \E to \in {"queued", "failed"} : UpdateRow(hjob[h], from, to)
        BY <1>14, <3>2 DEF Catch
      <4>2. row[hjob[h]] \in from => row[hjob[h]] \in Pending \/ dispatched[h]
        OBVIOUS
      <4> HIDE DEF from
      <4> QED
        BY <3>2, <4>1, <4>2, StatusNames DEF from, Pending
    <3> QED
      BY <3>1, <3>2
  <2> QED
    BY <1>0, <1>14, <2>1, <2>2, <2>3, <2>4, UpdateIsQuiet, QuietStep
       DEF Catch, HandlerGoes, TypeOK, Owns, Submitted
<1>15. ASSUME NEW h \in Handlers, NoReply(h) PROVE Claims'
  <2>1. hjob[h] \in Jobs /\ Owns(h, hjob[h])
    BY <1>0, <1>15 DEF NoReply, Raise, HandlerGoes, HandlersFit, TypeOK, Owns
  <2>2. CASE flight[h] = "flying"
    <3>1. NothingLeft(h)
      BY <1>15, <2>2 DEF NothingLeft, NoReply, Raise, HandlerGoes
    <3>2. tasks[hjob[h]] = 0 /\ orphans[hjob[h]] = 0
      BY <1>0, <2>1, <3>1 DEF Claims, OwnersAreClean
    <3> QED
      BY <1>0, <1>15, <2>1, <2>2, <3>1, <3>2, OwnerSends
         DEF NoReply, Raise, HandlerGoes, Adrift, TypeOK, Owns, NothingLeft, Refusals
  <2>3. CASE flight[h] # "flying"
    BY <1>0, <1>15, <2>1, <2>3, HandlerIsQuiet, QuietStep
       DEF NoReply, Raise, HandlerGoes, Adrift, TypeOK, Owns, NothingLeft, Refusals
  <2> QED
    BY <2>2, <2>3
<1>16. ASSUME NEW h \in Handlers, Answer(h) PROVE Claims'
  <2>1. hjob[h] \in Jobs /\ Owns(h, hjob[h]) /\ NothingLeft(h) /\ hpc[h] = "posted"
    BY <1>0, <1>16 DEF Answer, HandlersFit, TypeOK, Owns, NothingLeft
  <2>2. tasks[hjob[h]] = 0 /\ orphans[hjob[h]] = 0
    BY <1>0, <2>1 DEF Claims, OwnersAreClean
  <2>3. PICK a \in {"accepted", "error"} \cup Refusals, n \in {0, 1} :
          /\ flight' = [flight EXCEPT ![h] = a]
          /\ tasks' = [tasks EXCEPT ![hjob[h]] = @ + n]
          /\ n = 1 => a \notin Refusals
    BY <1>16, AnswerSays
  <2> QED
    BY <1>0, <1>16, <2>1, <2>2, <2>3, OwnerSends DEF Answer, TypeOK, Owns, NothingLeft, Refusals
<1>17. ASSUME NEW h \in Handlers, Crash(h) PROVE Claims'
  <2>1. CASE flight[h] = "flying"
    <3>1. hjob[h] \in Jobs /\ Owns(h, hjob[h]) /\ NothingLeft(h) /\ hpc[h] = "posted"
      BY <1>0, <2>1 DEF HandlersFit, TypeOK, Owns, NothingLeft
    <3>2. tasks[hjob[h]] = 0 /\ orphans[hjob[h]] = 0
      BY <1>0, <3>1 DEF Claims, OwnersAreClean
    <3>3. orphans' = [orphans EXCEPT ![hjob[h]] = 1] /\ UNCHANGED <<dryRun, row, tasks>>
      BY <1>0, <1>17, <2>1, <3>1, <3>2 DEF Crash, Adrift, TypeOK
    <3>4. \A k \in Jobs : ~Owns(h, k)'
      BY <1>0, <1>17 DEF Crash, HandlerRests, TypeOK, Owns
    <3>5. \A g \in Handlers \ {h} :
            /\ hpc'[g] = hpc[g] /\ hjob'[g] = hjob[g] /\ err'[g] = err[g]
            /\ dispatched'[g] = dispatched[g] /\ flight'[g] = flight[g]
      BY <1>0, <1>17 DEF Crash, HandlerRests, TypeOK
    <3> QED
      BY <1>0, <3>1, <3>2, <3>3, <3>4, <3>5, OwnerSends DEF TypeOK
  <2>2. CASE flight[h] # "flying"
    BY <1>0, <1>17, <2>2, HandlerIsQuiet, QuietStep DEF Crash, HandlerRests, Adrift, TypeOK, Owns
  <2> QED
    BY <2>1, <2>2
<1>18. ASSUME NEW j \in Jobs, OrphanEnds(j) PROVE Claims'
  <2>1. orphans[j] = 1 /\ tasks[j] = 0 /\ row[j] \in Submitted \cup Resolved
    <3>1. orphans[j] \in Nat /\ tasks[j] \in Nat /\ orphans[j] > 0
      BY <1>0, <1>18 DEF OrphanEnds, TypeOK
    <3>2. tasks[j] + orphans[j] <= 1
      BY <1>0 DEF Claims, AtProvider
    <3> QED
      BY <1>0, <3>1, <3>2 DEF Claims, AtProvider
  <2>2. /\ \A k \in Jobs \ {j} : tasks'[k] = tasks[k] /\ orphans'[k] = orphans[k]
        /\ tasks'[j] \in {0, 1} /\ orphans'[j] = 0 /\ row' = row
    BY <1>0, <1>18, <2>1 DEF OrphanEnds, TypeOK
  <2>3. \A g \in Handlers, k \in Jobs : (Owns(g, k)' <=> Owns(g, k)) /\ (NothingLeft(g)' <=> NothingLeft(g))
    BY <1>18 DEF OrphanEnds, Owns, NothingLeft
  <2>4. ~dryRun /\ \A g \in Handlers : Owns(g, j) => ~NothingLeft(g)
    BY <1>0, <2>1 DEF Claims, DryRunIsSilent, OwnersAreClean
  <2>5. OneOwner'
    BY <1>0, <2>2, <2>3 DEF Claims, OneOwner
  <2>6. OwnersAreClean'
    BY <1>0, <2>2, <2>3, <2>4 DEF Claims, OwnersAreClean
  <2>7. AtProvider'
    BY <1>0, <2>1, <2>2 DEF Claims, AtProvider
  <2> QED
    BY <1>18, <2>4, <2>5, <2>6, <2>7 DEF Claims, DryRunIsSilent, OrphanEnds
<1>30. QED
  BY <1>1, <1>2, <1>3, <1>4, <1>5, <1>6, <1>7, <1>8, <1>9, <1>10, <1>11, <1>12, <1>13, <1>14, <1>15,
     <1>16, <1>17, <1>18, <1>20, <1>21, <1>22 DEF Next, Delivers, Works

LEMMA IInvStep == IInv /\ [Next]_vars => IInv'
BY ShapeStep, ClaimsStep DEF IInv, Claims

LEMMA Invariance == Spec => []IInv
BY InitIInv, IInvStep, PTL DEF Spec

-----------------------------------------------------------------------------
\* What has landed, counted: the one request in flight, or what it left.
LEMMA NoneFlying ==
  ASSUME NEW j \in Jobs, Flying(j) = {}, tasks[j] \in Nat, orphans[j] \in Nat
  PROVE  Landed(j) = tasks[j] + orphans[j]
BY FS_EmptySet DEF Landed

LEMMA OneFlying ==
  ASSUME IInv, NEW j \in Jobs, NEW h \in Flying(j)
  PROVE  /\ Flying(j) = {h} /\ Landed(j) = 1
         /\ tasks[j] = 0 /\ orphans[j] = 0
         /\ row[j] \in Submitted \cup Resolved
<1>1. \A g \in Flying(j) : g \in Handlers /\ Owns(g, j) /\ NothingLeft(g)
  BY DEF Flying, IInv, Shape, HandlersFit, Owns, NothingLeft
<1>2. Flying(j) = {h} /\ row[j] \in {"submitting"} \cup Resolved
  BY <1>1 DEF IInv, OneOwner
<1>3. tasks[j] = 0 /\ orphans[j] = 0
  BY <1>1 DEF IInv, OwnersAreClean
<1>4. Cardinality(Flying(j)) = 1
  BY <1>2, FS_Singleton
<1> QED
  BY <1>2, <1>3, <1>4 DEF Landed, Submitted

LEMMA LandedBound ==
  ASSUME IInv, NEW j \in Jobs
  PROVE  /\ Landed(j) \in {0, 1}
         /\ Landed(j) > 0 => row[j] \in Submitted \cup Resolved
<1>1. tasks[j] \in Nat /\ orphans[j] \in Nat /\ tasks[j] + orphans[j] <= 1
  BY DEF IInv, Shape, TypeOK, AtProvider
<1>2. CASE Flying(j) = {}
  BY <1>1, <1>2, NoneFlying DEF IInv, AtProvider
<1>3. ASSUME NEW h \in Flying(j) PROVE Landed(j) = 1 /\ row[j] \in Submitted \cup Resolved
  BY OneFlying
<1> QED
  BY <1>2, <1>3

\* Types: every variable of a delivery keeps its range, whatever the number of
\* jobs, handlers and deliverers (RpaDelivery as a whole).
THEOREM TypeCorrect == Spec => []TypeOK
<1>1. IInv => TypeOK
  BY DEF IInv, Shape
<1> QED
  BY <1>1, Invariance, PTL

\* However often a job is redelivered, retried, lost or run by two handlers at
\* once, its intent has at most one task or request at the provider, and while
\* it may have one the row says so (rpaWorker.ts).
THEOREM SubmissionSafety == Spec => []SubmissionIsSafe
<1>1. IInv => SubmissionIsSafe
  <2> SUFFICES ASSUME IInv PROVE SubmissionIsSafe
    OBVIOUS
  <2>1. TypeOK
    BY DEF IInv, Shape
  <2>2. AtMostOnce /\ PossiblySubmittedIsHeld
    BY LandedBound DEF AtMostOnce, PossiblySubmittedIsHeld
  <2> QED
    BY <2>1, <2>2 DEF SubmissionIsSafe
<1> QED
  BY <1>1, Invariance, PTL

-----------------------------------------------------------------------------
\* A step of one intent as RpaIntent counts them: from phase p, with n landed,
\* to phase q, with m landed.
Move(p, n, q, m) ==
  \/ q = p /\ m = n
  \/ /\ m = n
     /\ \/ p = "absent" /\ q = "pending"
        \/ p = "pending" /\ q = "outstanding"
        \/ n = 0 /\ p = "outstanding" /\ q = "pending"
        \/ n = 0 /\ p \in {"pending", "outstanding"} /\ q = "closed"
        \/ p \in {"pending", "outstanding", "closed"} /\ q = "resolved"
  \/ /\ q = p
     /\ \/ p \in {"outstanding", "resolved"} /\ n = 0 /\ m = 1
        \/ n = 1 /\ m = 0

LEMMA MoveIsIntentStep ==
  ASSUME NEW j \in Jobs,
         \A k \in Jobs \ {j} : row'[k] = row[k] /\ Landed(k)' = Landed(k),
         Move(Phase(row[j]), Landed(j), Phase(row'[j]), Landed(j)')
  PROVE  [Intent!Next]_Intent!vars
<1> DEFINE p == Phase(row[j])
           q == Phase(row'[j])
           n == Landed(j)
           m == Landed(j)'
<1>1. Phases' = [Phases EXCEPT ![j] = q] /\ Phases[j] = p
  BY DEF Phases
<1>2. Landing' = [Landing EXCEPT ![j] = m] /\ Landing[j] = n
  BY DEF Landing
<1>3. q = p => Phases' = Phases
  BY <1>1 DEF Phases
<1>4. m = n => Landing' = Landing
  BY <1>2 DEF Landing
<1>5. Move(p, n, q, m)
  OBVIOUS
<1> HIDE DEF p, q, n, m
<1> QED
  BY <1>1, <1>2, <1>3, <1>4, <1>5
     DEF Move, Intent!Next, Intent!vars, Intent!Accept, Intent!Claim, Intent!Send, Intent!Refuse,
         Intent!Reopen, Intent!Close, Intent!Resolve

LEMMA PhaseNames ==
  /\ \A s \in Pending : Phase(s) = "pending"
  /\ \A s \in Submitted : Phase(s) = "outstanding"
  /\ \A s \in Resolved : Phase(s) = "resolved"
  /\ Phase("absent") = "absent" /\ Phase("failed") = "closed" /\ Phase("dry_run") = "closed"
BY DEF Phase, Pending, Submitted, Resolved

\* The requests in flight stay where they are.
Afloat(k) == \A g \in Handlers : (hjob'[g] = k /\ flight'[g] = "flying") <=> (hjob[g] = k /\ flight[g] = "flying")

LEMMA LandedKept ==
  ASSUME NEW k \in Jobs, tasks'[k] = tasks[k], orphans'[k] = orphans[k], Afloat(k)
  PROVE  Landed(k)' = Landed(k)
<1>1. Flying(k)' = Flying(k)
  BY DEF Afloat, Flying
<1> QED
  BY <1>1 DEF Landed

LEMMA Stutters ==
  ASSUME UNCHANGED <<row, tasks, orphans>>, \A k \in Jobs : Afloat(k)
  PROVE  [Intent!Next]_Intent!vars
<1>1. \A k \in Jobs : Landed(k)' = Landed(k)
  BY LandedKept
<1> QED
  BY <1>1 DEF Phases, Landing, Intent!vars

\* A step that only moves one row.
LEMMA RowMoves ==
  ASSUME UNCHANGED <<tasks, orphans>>, \A k \in Jobs : Afloat(k),
         NEW j \in Jobs, \A k \in Jobs \ {j} : row'[k] = row[k],
         Move(Phase(row[j]), Landed(j), Phase(row'[j]), Landed(j))
  PROVE  [Intent!Next]_Intent!vars
<1>1. \A k \in Jobs : Landed(k)' = Landed(k)
  BY LandedKept
<1> QED
  BY <1>1, MoveIsIntentStep

\* What has landed when a pending row fails, or its owner was refused.
LEMMA NothingLanded ==
  ASSUME IInv, NEW j \in Jobs,
         \/ row[j] \notin Submitted \cup Resolved
         \/ \E h \in Handlers : Owns(h, j) /\ NothingLeft(h) /\ flight[h] # "flying"
         \/ dryRun
  PROVE  Landed(j) = 0
<1>1. CASE row[j] \notin Submitted \cup Resolved
  BY <1>1, LandedBound
<1>2. ASSUME NEW h \in Handlers, Owns(h, j), NothingLeft(h), flight[h] # "flying" PROVE Landed(j) = 0
  <2>1. \A g \in Flying(j) : g \in Handlers /\ Owns(g, j) /\ flight[g] = "flying"
    BY DEF Flying, IInv, Shape, HandlersFit, Owns
  <2>2. Flying(j) = {}
    BY <1>2, <2>1 DEF IInv, OneOwner
  <2>3. tasks[j] = 0 /\ orphans[j] = 0
    BY <1>2 DEF IInv, OwnersAreClean
  <2> QED
    BY <2>2, <2>3, NoneFlying
<1>3. CASE dryRun
  <2>1. Flying(j) = {}
    BY <1>3 DEF Flying, IInv, DryRunIsSilent, Shape, HandlersFit
  <2>2. tasks[j] = 0 /\ orphans[j] = 0
    BY <1>3 DEF IInv, DryRunIsSilent
  <2> QED
    BY <2>1, <2>2, NoneFlying
<1> QED
  BY <1>1, <1>2, <1>3

\* What has landed after a step of an owner, or of an orphan.
LEMMA LandedAfter ==
  ASSUME NEW j \in Jobs, tasks'[j] \in Nat, orphans'[j] \in Nat, Flying(j)' = {}
  PROVE  Landed(j)' = tasks'[j] + orphans'[j]
BY FS_EmptySet DEF Landed

LEMMA InFlightAfter ==
  ASSUME NEW j \in Jobs, NEW h, tasks'[j] = 0, orphans'[j] = 0, Flying(j)' = {h}
  PROVE  Landed(j)' = 1
<1>1. Cardinality(Flying(j)') = 1
  BY FS_Singleton
<1> QED
  BY <1>1 DEF Landed

\* A step of the owner whose request is in flight.
LEMMA InFlightMoves ==
  ASSUME IInv, NEW h \in Handlers, hpc[h] = "posted", flight[h] = "flying",
         UNCHANGED row, tasks' \in [Jobs -> Nat], orphans' \in [Jobs -> Nat],
         \A g \in Handlers \ {h} : hjob'[g] = hjob[g] /\ flight'[g] = flight[g],
         flight'[h] # "flying",
         \A k \in Jobs \ {hjob[h]} : tasks'[k] = tasks[k] /\ orphans'[k] = orphans[k],
         tasks'[hjob[h]] + orphans'[hjob[h]] \in {0, 1}
  PROVE  [Intent!Next]_Intent!vars
<1>1. PICK j \in Jobs : j = hjob[h] /\ h \in Flying(j)
  BY DEF IInv, Shape, HandlersFit, Flying
<1>2. Flying(j) = {h} /\ Landed(j) = 1
  BY <1>1, OneFlying
<1>3. Flying(j)' = {}
  <2>1. \A g \in Handlers : hjob[g] = j /\ flight[g] = "flying" => g = h
    BY <1>2 DEF Flying
  <2> QED
    BY <2>1 DEF Flying
<1>4. Landed(j)' \in {0, 1}
  BY <1>1, <1>3, LandedAfter
<1>5. \A k \in Jobs \ {j} : Landed(k)' = Landed(k)
  BY <1>1, LandedKept DEF Afloat, IInv, Shape, HandlersFit
<1> QED
  BY <1>1, <1>2, <1>4, <1>5, MoveIsIntentStep DEF Move

-----------------------------------------------------------------------------
\* The promise of RpaIntent, step by step.
LEMMA IntentStep == IInv /\ [Next]_vars => [Intent!Next]_Intent!vars
<1> SUFFICES ASSUME IInv, [Next]_vars PROVE [Intent!Next]_Intent!vars
  OBVIOUS
<1>0. TypeOK /\ HandlersFit /\ DeliverersFit
  BY DEF IInv, Shape
<1> USE DEF handlerVars, providerVars, sqlVars
<1>1. CASE UNCHANGED vars
  BY <1>1, Stutters DEF vars, Afloat
<1>2. ASSUME NEW j \in Jobs, Create(j) PROVE [Intent!Next]_Intent!vars
  <2>1. /\ row[j] = "absent" /\ row'[j] = "enqueue_pending"
        /\ \A k \in Jobs \ {j} : row'[k] = row[k]
    BY <1>0, <1>2, RowUpdated, StatusNames DEF Create, TypeOK
  <2>2. Move(Phase(row[j]), Landed(j), Phase(row'[j]), Landed(j))
    BY <2>1, PhaseNames DEF Move, Pending
  <2> QED
    BY <1>2, <2>1, <2>2, RowMoves DEF Create, Afloat
<1>3. ASSUME NEW d \in Deliverers,
             (\E j \in Jobs : Pick(d, j)) \/ Look(d) \/ Recheck(d) \/ Add(d) \/ Revive(d) \/ DeliveryFails(d)
      PROVE  [Intent!Next]_Intent!vars
  BY <1>3, Stutters DEF Pick, Look, Recheck, Add, Revive, DeliveryFails, Afloat
<1>4. ASSUME NEW d \in Deliverers, Mark(d) PROVE [Intent!Next]_Intent!vars
  <2> DEFINE j == djob[d]
  <2>1. j \in Jobs
    BY <1>0, <1>4 DEF Mark, DelivererGoes, DeliverersFit
  <2>2. /\ row'[j] # row[j] => row[j] \in Pending /\ row'[j] \in Pending
        /\ \A k \in Jobs \ {j} : row'[k] = row[k]
    BY <1>0, <1>4, <2>1, RowUpdated, StatusNames DEF Mark, TypeOK, Pending
  <2>3. Move(Phase(row[j]), Landed(j), Phase(row'[j]), Landed(j))
    BY <2>2, PhaseNames DEF Move
  <2> QED
    BY <1>4, <2>1, <2>2, <2>3, RowMoves DEF Mark, Afloat
<1>5. ASSUME NEW h \in Handlers, \E j \in Jobs : TakeJob(h, j) PROVE [Intent!Next]_Intent!vars
  BY <1>0, <1>5, Stutters DEF TakeJob, HandlerGoes, TypeOK, HandlersFit, Afloat
<1>6. ASSUME NEW h \in Handlers,
             \/ Load(h) \/ Check(h) \/ Acquire(h) \/ AcquireFails(h) \/ TryKey(h) \/ SkipKey(h)
             \/ KeysExhausted(h) \/ KeyFails(h) \/ Guard(h) \/ ConfirmFails(h) \/ CatchFails(h)
      PROVE  [Intent!Next]_Intent!vars
  BY <1>6, Stutters
     DEF Load, Check, Acquire, AcquireFails, TryKey, SkipKey, KeysExhausted, KeyFails, Guard,
         ConfirmFails, CatchFails, Afloat
<1>7. ASSUME NEW h \in Handlers, Reply(h) \/ Settle(h) PROVE [Intent!Next]_Intent!vars
  BY <1>0, <1>7, Stutters DEF Reply, Settle, HandlerRests, TypeOK, HandlersFit, Afloat
<1>8. ASSUME NEW h \in Handlers, Claim(h) \/ ClaimFails(h) PROVE [Intent!Next]_Intent!vars
  <2> DEFINE j == hjob[h]
  <2>1. j \in Jobs
    BY <1>0, <1>8 DEF Claim, ClaimFails, Raise, HandlerGoes, HandlersFit
  <2>2. \/ row' = row
        \/ \E from \in {{}, Pending} : UpdateRow(j, from, "submitting")
    BY <1>8 DEF Claim, ClaimFails
  <2>3. /\ row'[j] # row[j] => row[j] \in Pending /\ row'[j] = "submitting"
        /\ \A k \in Jobs \ {j} : row'[k] = row[k]
    BY <1>0, <2>1, <2>2, RowUpdated, StatusNames DEF TypeOK
  <2>4. Move(Phase(row[j]), Landed(j), Phase(row'[j]), Landed(j))
    BY <2>3, PhaseNames DEF Move, Submitted
  <2> QED
    BY <1>8, <2>1, <2>3, <2>4, RowMoves DEF Claim, ClaimFails, Afloat
<1>9. ASSUME NEW h \in Handlers, Post(h) PROVE [Intent!Next]_Intent!vars
  <2> DEFINE j == hjob[h]
  <2>1. CASE dryRun
    BY <1>9, <2>1, Stutters DEF Post, Afloat
  <2>2. CASE ~dryRun
    <3>1. j \in Jobs /\ Owns(h, j) /\ NothingLeft(h) /\ flight[h] # "flying"
      BY <1>0, <1>9 DEF Post, HandlerGoes, HandlersFit, Owns, NothingLeft
    <3>2. Landed(j) = 0 /\ row[j] \in {"submitting"} \cup Resolved
      BY <3>1, NothingLanded DEF IInv, OneOwner
    <3>3. tasks[j] = 0 /\ orphans[j] = 0 /\ \A g \in Handlers : Owns(g, j) => g = h
      BY <3>1 DEF IInv, OneOwner, OwnersAreClean
    <3>4. flight' = [flight EXCEPT ![h] = "flying"] /\ UNCHANGED <<row, hjob, tasks, orphans>>
      BY <1>9, <2>2 DEF Post
    <3>5. Flying(j)' = {h}
      <4>1. \A g \in Flying(j) : g = h
        BY <1>0, <3>3 DEF Flying, HandlersFit, Owns
      <4> QED
        BY <1>0, <3>4, <4>1 DEF Flying, TypeOK
    <3>6. Landed(j)' = 1
      BY <3>1, <3>3, <3>4, <3>5, InFlightAfter
    <3>7. \A k \in Jobs \ {j} : Landed(k)' = Landed(k)
      BY <1>0, <3>4, LandedKept DEF Afloat, TypeOK
    <3>8. Phase(row[j]) \in {"outstanding", "resolved"}
      BY <3>2, PhaseNames DEF Submitted
    <3> QED
      BY <3>1, <3>2, <3>4, <3>6, <3>7, <3>8, MoveIsIntentStep DEF Move
  <2> QED
    BY <2>1, <2>2
<1>10. ASSUME NEW h \in Handlers, NoReply(h) \/ Crash(h) PROVE [Intent!Next]_Intent!vars
  <2>1. CASE flight[h] = "flying"
    <3>1. hjob[h] \in Jobs /\ hpc[h] = "posted" /\ tasks[hjob[h]] = 0 /\ orphans[hjob[h]] = 0
      BY <1>0, <2>1, OneFlying DEF HandlersFit, Flying
    <3>2. orphans' = [orphans EXCEPT ![hjob[h]] = 1] /\ UNCHANGED <<row, tasks>>
      BY <1>0, <1>10, <2>1, <3>1 DEF NoReply, Crash, Adrift, TypeOK
    <3>3. /\ \A g \in Handlers \ {h} : hjob'[g] = hjob[g] /\ flight'[g] = flight[g]
          /\ flight'[h] # "flying"
      BY <1>0, <1>10 DEF NoReply, Crash, HandlerRests, TypeOK
    <3> QED
      BY <1>0, <2>1, <3>1, <3>2, <3>3, InFlightMoves DEF TypeOK
  <2>2. CASE flight[h] # "flying"
    BY <1>0, <1>10, <2>2, Stutters DEF NoReply, Crash, HandlerRests, Adrift, TypeOK, Afloat
  <2> QED
    BY <2>1, <2>2
<1>11. ASSUME NEW h \in Handlers, Answer(h) PROVE [Intent!Next]_Intent!vars
  <2>1. hjob[h] \in Jobs /\ hpc[h] = "posted" /\ tasks[hjob[h]] = 0 /\ orphans[hjob[h]] = 0
    BY <1>0, <1>11, OneFlying DEF Answer, HandlersFit, Flying
  <2>2. PICK a \in {"accepted", "error"} \cup Refusals, n \in {0, 1} :
          /\ flight' = [flight EXCEPT ![h] = a]
          /\ tasks' = [tasks EXCEPT ![hjob[h]] = @ + n]
    BY <1>11, AnswerSays
  <2> QED
    BY <1>0, <1>11, <2>1, <2>2, InFlightMoves DEF Answer, TypeOK, Refusals
<1>12. ASSUME NEW h \in Handlers, Confirm(h) PROVE [Intent!Next]_Intent!vars
  <2> DEFINE j == hjob[h]
  <2>1. j \in Jobs
    BY <1>0, <1>12 DEF Confirm, HandlerGoes, HandlersFit
  <2>2. /\ row'[j] # row[j] =>
             \/ row[j] = "submitting" /\ row'[j] = "submitted"
             \/ dryRun /\ row[j] \in Pending \cup {"submitting"} /\ row'[j] = "dry_run"
        /\ \A k \in Jobs \ {j} : row'[k] = row[k]
    <3>1. CASE dryRun
      BY <1>0, <1>12, <2>1, <3>1, RowUpdated, StatusNames DEF Confirm, TypeOK
    <3>2. CASE ~dryRun
      BY <1>0, <1>12, <2>1, <3>2, RowUpdated, StatusNames DEF Confirm, TypeOK
    <3> QED
      BY <3>1, <3>2
  <2>3. dryRun => Landed(j) = 0
    BY <2>1, NothingLanded
  <2>4. Move(Phase(row[j]), Landed(j), Phase(row'[j]), Landed(j))
    BY <2>2, <2>3, PhaseNames DEF Move, Submitted
  <2> QED
    BY <1>12, <2>1, <2>2, <2>4, RowMoves DEF Confirm, Afloat
<1>13. ASSUME NEW h \in Handlers, Catch(h) PROVE [Intent!Next]_Intent!vars
  <2> DEFINE j == hjob[h]
  <2>1. j \in Jobs /\ hpc[h] = "catch" /\ flight[h] # "flying" /\ (dispatched[h] => Owns(h, j))
    BY <1>0, <1>13 DEF Catch, HandlerGoes, HandlersFit, Owns
  <2>2. /\ row'[j] # row[j] =>
             \/ row[j] = "submitting" /\ row'[j] = "unconfirmed"
             \/ row[j] \in Pending /\ row'[j] \in {"queued", "failed"}
             \/ /\ row[j] = "submitting" /\ row'[j] \in {"queued", "failed"}
                /\ dispatched[h] /\ err[h] \in Refusals
        /\ \A k \in Jobs \ {j} : row'[k] = row[k]
    <3>1. CASE dispatched[h] /\ err[h] \notin Refusals
      BY <1>0, <1>13, <2>1, <3>1, RowUpdated, StatusNames DEF Catch, TypeOK
    <3>2. CASE ~(dispatched[h] /\ err[h] \notin Refusals)
      <4> DEFINE from == Pending \cup (IF dispatched[h] THEN {"submitting"} ELSE {})
      <4>1. PICK to \in {"queued", "failed"} : UpdateRow(j, from, to)
        BY <1>13, <3>2 DEF Catch
      <4>2. \A k \in Jobs : row'[k] = IF k = j /\ row[j] \in from THEN to ELSE row[k]
        BY <1>0, <2>1, <4>1, RowUpdated, StatusNames DEF TypeOK
      <4> QED
        BY <2>1, <3>2, <4>2
    <3> QED
      BY <3>1, <3>2
  <2>3. row[j] \in Pending => Landed(j) = 0
    BY <2>1, NothingLanded DEF Pending, Submitted, Resolved
  <2>4. dispatched[h] /\ err[h] \in Refusals => Landed(j) = 0
    BY <2>1, NothingLanded DEF NothingLeft
  <2>5. Move(Phase(row[j]), Landed(j), Phase(row'[j]), Landed(j))
    BY <2>2, <2>3, <2>4, PhaseNames DEF Move, Submitted, Pending
  <2> QED
    BY <1>13, <2>1, <2>2, <2>5, RowMoves DEF Catch, Afloat
<1>14. ASSUME NEW j \in Jobs, OrphanEnds(j) PROVE [Intent!Next]_Intent!vars
  <2>1. orphans[j] = 1 /\ tasks[j] = 0
    <3>1. orphans[j] \in Nat /\ tasks[j] \in Nat /\ orphans[j] > 0
      BY <1>0, <1>14 DEF OrphanEnds, TypeOK
    <3> QED
      BY <3>1 DEF IInv, AtProvider
  <2>2. Flying(j) = {} /\ Flying(j)' = {}
    <3>1. Flying(j) = {}
      BY <2>1, OneFlying
    <3> QED
      BY <1>14, <3>1 DEF OrphanEnds, Flying
  <2>3. PICK n \in {0, 1} : tasks' = [tasks EXCEPT ![j] = @ + n] /\ orphans' = [orphans EXCEPT ![j] = @ - 1]
    BY <1>14 DEF OrphanEnds
  <2>4. Landed(j) = 1 /\ Landed(j)' = n
    BY <1>0, <2>1, <2>2, <2>3, NoneFlying, LandedAfter DEF TypeOK
  <2>5. \A k \in Jobs \ {j} : Landed(k)' = Landed(k) /\ row'[k] = row[k]
    BY <1>0, <1>14, <2>3, LandedKept DEF OrphanEnds, Afloat, TypeOK
  <2> QED
    BY <1>14, <2>4, <2>5, MoveIsIntentStep DEF Move, OrphanEnds
<1>15. ASSUME NEW j \in Jobs, Review(j) \/ LockExpires(j) \/ Stalled(j) \/ EntryLost(j)
       PROVE  [Intent!Next]_Intent!vars
  BY <1>15, Stutters DEF Review, LockExpires, Stalled, EntryLost, Afloat
<1>16. ASSUME NEW j \in Jobs, Resolve(j) PROVE [Intent!Next]_Intent!vars
  <2>1. /\ row'[j] # row[j] => row[j] \in Resolvable /\ row'[j] \in Resolved
        /\ \A k \in Jobs \ {j} : row'[k] = row[k]
    BY <1>0, <1>16, RowUpdated, StatusNames DEF Resolve, TypeOK
  <2>2. Move(Phase(row[j]), Landed(j), Phase(row'[j]), Landed(j))
    BY <2>1, PhaseNames DEF Move, Resolvable
  <2> QED
    BY <1>16, <2>1, <2>2, RowMoves DEF Resolve, Afloat
<1>17. CASE LeaseExpires
  BY <1>17, Stutters DEF LeaseExpires, Afloat
<1>20. QED
  BY <1>1, <1>2, <1>3, <1>4, <1>5, <1>6, <1>7, <1>8, <1>9, <1>10, <1>11, <1>12, <1>13, <1>14, <1>15,
     <1>16, <1>17 DEF Next, Delivers, Works

\* The delivery keeps what RpaIntent promises the caller of an intent: it is
\* reopened or closed only with nothing at the provider, and an operator's
\* resolution is never overwritten (rpaWorker.ts, rpaLifecycle.ts).
THEOREM IntentIsKept == Spec => KeepsIntent
<1>1. Init => Intent!Init
  <2> SUFFICES ASSUME Init PROVE Intent!Init
    OBVIOUS
  <2>1. \A j \in Jobs : Flying(j) = {}
    BY DEF Init, Flying
  <2>2. \A j \in Jobs : Landed(j) = 0
    BY <2>1, NoneFlying DEF Init
  <2> QED
    BY <2>2, PhaseNames DEF Init, Intent!Init, Phases, Landing
<1> QED
  BY <1>1, Invariance, IntentStep, PTL DEF Spec, KeepsIntent, Intent!Spec
=============================================================================
