----------------------------- MODULE TripTrigger -----------------------------
(***************************************************************************)
(* The trigger of a trip (http/trips.ts, trips/service.ts): a request with *)
(* an Idempotency-Key prepares a trip of the phone and starts it; it can   *)
(* be repeated, also while the first one is still at work, and after a     *)
(* restart.  All requests here have the same key; a request with another   *)
(* content, or for another phone, has another hash.                        *)
(*                                                                         *)
(* "UNDERWAY" stands for RUNNING, PAUSED and ARRIVING, "OVER" for the rest.*)
(***************************************************************************)
EXTENDS Integers

CONSTANTS
  Triggers,       \* requests of this process
  Hashes,         \* of what they ask for
  MaxTripChanges  \* bound on changes of the trip

ASSUME TriggerAssumption == MaxTripChanges \in Nat /\ "nobody" \notin Triggers

VARIABLES
  tgRow,      \* SQL: the key's trip
  tgOther,    \* SQL: the phone has another trip under way
  tgLease,    \* Redis: who owns the phone
  tgWindow,   \* process: who holds the device's environment window
  tgPending,  \* process: the request whose trip is being made (pendingCreates)
  tgCalls,    \* the requests
  tgStarts    \* (history) how often the trip was started

triggerVars == <<tgRow, tgOther, tgLease, tgWindow, tgPending, tgCalls, tgStarts>>

NoRequest == "nobody"
NoneMade  == [hash |-> "none", status |-> "NONE", rev |-> 0]
IdleCall  == [pc |-> "idle", hash |-> "none", seen |-> NoneMade, ok |-> FALSE]

TriggerInit ==
  /\ tgRow = NoneMade
  /\ tgOther \in BOOLEAN
  /\ tgLease = NoRequest /\ tgWindow = NoRequest
  /\ tgPending = NoRequest
  /\ tgCalls = [r \in Triggers |-> IdleCall]
  /\ tgStarts = 0

Rows  == <<tgRow, tgOther, tgStarts>>
Locks == <<tgLease, tgWindow>>

CallAt(r, place)  == tgCalls[r].pc = place
CallGoes(r, place) == tgCalls' = [tgCalls EXCEPT ![r].pc = place]

\* A request is over, with the trip it answers with, or refused.
CallOver(call, row) == [call EXCEPT !.pc = "done", !.seen = row, !.ok = row # NoneMade]
CallEnds(r, row) == tgCalls' = [tgCalls EXCEPT ![r] = CallOver(@, row)]

FreeLocks(r) ==
  /\ tgLease' = IF tgLease = r THEN NoRequest ELSE tgLease
  /\ tgWindow' = IF tgWindow = r THEN NoRequest ELSE tgWindow

\* Mutant: whatever was asked for under this key before is the answer.
ExistingOfKey(hash) == IF tgRow = NoneMade THEN "none" ELSE "same"

\* existing(): the trip of the key, of the same request or of another one.
Existing(hash) == IF tgRow = NoneMade THEN "none" ELSE IF tgRow.hash = hash THEN "same" ELSE "other"

-----------------------------------------------------------------------------
(* createTrip                                                              *)

Triggered(r) ==
  /\ CallAt(r, "idle")
  /\ \E hash \in Hashes : tgCalls' = [tgCalls EXCEPT ![r] = [IdleCall EXCEPT !.pc = "look", !.hash = hash]]
  /\ UNCHANGED <<Rows, Locks, tgPending>>

LookUp(r) ==
  /\ CallAt(r, "look")
  /\ CASE Existing(tgCalls[r].hash) = "none" -> CallGoes(r, "join")
       [] Existing(tgCalls[r].hash) = "same" -> tgCalls' = [tgCalls EXCEPT ![r].pc = "start", ![r].seen = tgRow]
       [] OTHER -> CallEnds(r, NoneMade)
  /\ UNCHANGED <<Rows, Locks, tgPending>>

\* What was read may be old by now; a trip that is being made is shared.
Join(r) ==
  /\ CallAt(r, "join")
  /\ IF tgPending = NoRequest THEN CallGoes(r, "build") /\ tgPending' = r
     ELSE /\ IF tgCalls[tgPending].hash = tgCalls[r].hash THEN CallGoes(r, "wait") ELSE CallEnds(r, NoneMade)
          /\ UNCHANGED tgPending
  /\ UNCHANGED <<Rows, Locks>>

\* The requests that wait for the trip get what became of it, as it was then.
Made(r, row) ==
  /\ tgPending' = IF tgPending = r THEN NoRequest ELSE tgPending
  /\ tgCalls' = [q \in Triggers |->
       IF q = r \/ (tgPending = r /\ CallAt(q, "wait"))
       THEN IF row = NoneMade THEN CallOver(tgCalls[q], row) ELSE [tgCalls[q] EXCEPT !.pc = "start", !.seen = row]
       ELSE tgCalls[q]]
  /\ FreeLocks(r)

Build(r) ==
  /\ CallAt(r, "build")
  /\ IF tgLease = NoRequest /\ tgWindow = NoRequest
     THEN tgLease' = r /\ tgWindow' = r /\ CallGoes(r, "again") /\ UNCHANGED tgPending
     ELSE Made(r, NoneMade)
  /\ UNCHANGED Rows

\* With the phone held, the key is looked up once more, then the route asked for.
LookAgain(r) ==
  /\ CallAt(r, "again")
  /\ CASE Existing(tgCalls[r].hash) = "same" -> Made(r, tgRow)
       [] Existing(tgCalls[r].hash) = "none" /\ ~tgOther -> CallGoes(r, "route") /\ UNCHANGED <<Locks, tgPending>>
       [] OTHER -> Made(r, NoneMade)
  /\ UNCHANGED Rows

RouteAnswers(r) ==
  /\ CallAt(r, "route")
  /\ \/ tgLease = r /\ CallGoes(r, "insert") /\ UNCHANGED <<Locks, tgPending>>
     \/ Made(r, NoneMade)    \* no route, or the lease is lost
  /\ UNCHANGED Rows

\* The key is unique: if its trip is there after all, that is the answer.
Insert(r) ==
  LET new == [hash |-> tgCalls[r].hash, status |-> "PREVIEW", rev |-> 1] IN
  /\ CallAt(r, "insert")
  /\ IF tgRow = NoneMade /\ ~tgOther THEN tgRow' = new /\ Made(r, new)
     ELSE Made(r, IF Existing(tgCalls[r].hash) = "same" THEN tgRow ELSE NoneMade) /\ UNCHANGED tgRow
  /\ UNCHANGED <<tgOther, tgStarts>>

-----------------------------------------------------------------------------
(* startTrip, for a trip that is a preview.                                *)

BeginStart(r) ==
  /\ CallAt(r, "start")
  /\ IF tgCalls[r].seen.status # "PREVIEW" THEN CallEnds(r, tgCalls[r].seen) /\ UNCHANGED Locks
     ELSE IF tgLease = NoRequest /\ tgWindow = NoRequest THEN tgLease' = r /\ tgWindow' = r /\ CallGoes(r, "check")
     ELSE CallGoes(r, "recheck") /\ UNCHANGED Locks
  /\ UNCHANGED <<Rows, tgPending>>

StillAsSeen(r) == tgRow.rev = tgCalls[r].seen.rev /\ ~tgOther

\* mutate: the revision is compared, then the phone and the player are prepared.
CheckStart(r) ==
  /\ CallAt(r, "check")
  /\ \/ StillAsSeen(r) /\ CallGoes(r, "write") /\ UNCHANGED Locks
     \/ ~StillAsSeen(r) /\ CallGoes(r, "recheck") /\ FreeLocks(r)
     \/ CallEnds(r, NoneMade) /\ FreeLocks(r)    \* the provider or the player fails
  /\ UNCHANGED <<Rows, tgPending>>

\* The transaction, after the lease was asserted; the caller may be told of an
\* error even if it took place.
WriteStart(r) ==
  /\ CallAt(r, "write")
  /\ \/ /\ StillAsSeen(r)
        /\ tgRow' = [tgRow EXCEPT !.status = "UNDERWAY", !.rev = @ + 1] /\ tgStarts' = tgStarts + 1
        /\ CallEnds(r, tgRow') \/ CallEnds(r, NoneMade)
     \/ /\ ~StillAsSeen(r) \/ tgLease # r
        /\ CallGoes(r, "recheck") /\ UNCHANGED <<tgRow, tgStarts>>
     \/ CallEnds(r, NoneMade) /\ UNCHANGED <<tgRow, tgStarts>>
  /\ FreeLocks(r)
  /\ UNCHANGED <<tgOther, tgPending>>

\* After a conflict: the trip is the answer if it is not a preview any more.
Recheck(r) ==
  /\ CallAt(r, "recheck")
  /\ CallEnds(r, IF tgRow.status = "PREVIEW" THEN NoneMade ELSE tgRow)
  /\ UNCHANGED <<Rows, Locks, tgPending>>

\* The caller has its answer, or not, and may repeat its request.
TriggerAnswered(r) ==
  /\ CallAt(r, "done")
  /\ tgCalls' = [tgCalls EXCEPT ![r] = IdleCall]
  /\ UNCHANGED <<Rows, Locks, tgPending>>

-----------------------------------------------------------------------------
(* What else happens to the trip and the phone, each of it under the lease.*)

\* Another instance of the controller, or another client of this one.
TripChangesElsewhere ==
  /\ tgLease = NoRequest /\ tgRow.rev < MaxTripChanges
  /\ \/ \E hash \in Hashes :
          tgRow = NoneMade /\ tgRow' = [hash |-> hash, status |-> "PREVIEW", rev |-> 1] /\ UNCHANGED <<tgOther, tgStarts>>
     \/ /\ tgRow.status = "PREVIEW"
        /\ \/ ~tgOther /\ tgRow' = [tgRow EXCEPT !.status = "UNDERWAY", !.rev = @ + 1] /\ tgStarts' = tgStarts + 1
           \/ tgRow' = [tgRow EXCEPT !.rev = @ + 1] /\ UNCHANGED tgStarts
        /\ UNCHANGED tgOther
     \/ /\ tgRow.status \in {"PREVIEW", "UNDERWAY"} /\ tgRow' = [tgRow EXCEPT !.status = "OVER", !.rev = @ + 1]
        /\ UNCHANGED <<tgOther, tgStarts>>
     \/ tgRow.status # "UNDERWAY" /\ tgOther' = ~tgOther /\ UNCHANGED <<tgRow, tgStarts>>
  /\ UNCHANGED <<Locks, tgPending, tgCalls>>

LeaseLapses ==
  /\ tgLease # NoRequest /\ tgLease' = NoRequest
  /\ UNCHANGED <<Rows, tgWindow, tgPending, tgCalls>>

\* The process ends: its requests fail, its lease is left to lapse.
TriggerRestarts ==
  /\ tgCalls' = [r \in Triggers |-> IdleCall]
  /\ tgPending' = NoRequest /\ tgWindow' = NoRequest
  /\ UNCHANGED <<Rows, tgLease>>

TriggerNext ==
  \/ \E r \in Triggers :
       \/ Triggered(r) \/ LookUp(r) \/ Join(r) \/ Build(r) \/ LookAgain(r) \/ RouteAnswers(r) \/ Insert(r)
       \/ BeginStart(r) \/ CheckStart(r) \/ WriteStart(r) \/ Recheck(r) \/ TriggerAnswered(r)
  \/ TripChangesElsewhere \/ LeaseLapses \/ TriggerRestarts

TriggerSpec == TriggerInit /\ [][TriggerNext]_triggerVars

-----------------------------------------------------------------------------
\* However a trigger is repeated, its trip is started at most once, and not
\* again after it ended; every request that is accepted was answered with a
\* trip that is its own and no preview, and a trip that is made is handed only
\* to requests that asked for it.
TriggerDrivesOnce ==
  /\ tgStarts <= 1
  /\ \A r \in Triggers : CallAt(r, "done") /\ tgCalls[r].ok =>
       tgCalls[r].seen.hash = tgCalls[r].hash /\ tgCalls[r].seen.status # "PREVIEW"
=============================================================================
