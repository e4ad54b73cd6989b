---------------------------- MODULE DrivingPanel ----------------------------
(***************************************************************************)
(* The driving panel of the console (public/driving.js) for one device:    *)
(* the draft of a trip, the commands it sends, the snapshots it is given,  *)
(* and the trips of the controller, which other clients command as well.   *)
(* An answer may be late, or lost after the command was carried out; a new *)
(* login forgets every draft but not the answers still under way.          *)
(*                                                                         *)
(* A trip is its identity, revision, time of change and status, and the    *)
(* version of the form it was made from (Foreign: another client's).       *)
(***************************************************************************)
EXTENDS Integers, Sequences, FiniteSets

CONSTANTS
  MaxTrips,        \* bound on trips made
  MaxWrites,       \* bound on changes of trips
  MaxVersion,      \* bound on edits of the form
  MaxLogins,       \* bound on logins
  MaxLost          \* bound on answers lost and on acts of other clients

ASSUME DrivingPanelAssumption ==
  MaxTrips \in Nat /\ MaxWrites \in Nat /\ MaxVersion \in Nat /\ MaxLogins \in Nat /\ MaxLost \in Nat

VARIABLES
  dpTrips,      \* the controller's trips, by identity (the order of creation)
  dpWrites,     \* its clock: the number of changes so far
  dpDraft,      \* the panel's draft
  dpLogin,      \* generation
  dpSelected,   \* the device is the current one
  dpCalls,      \* calls under way, and their answers
  dpSnapshot,   \* the trip of a snapshot under way
  dpLost,
  dpDone,       \* (history) commands carried out whose answer was lost, and what they led to
  dpStray       \* (history) calls that should not have gone out

panelVars == <<dpTrips, dpWrites, dpDraft, dpLogin, dpSelected, dpCalls, dpSnapshot, dpLost, dpDone, dpStray>>

Foreign == -1
NoTrip  == [id |-> 0, rev |-> 0, at |-> 0, status |-> "NONE", form |-> Foreign, login |-> 0]
NoDraft == [version |-> 0, previewed |-> -1, pending |-> "", arrival |-> FALSE, trip |-> NoTrip,
            superseded |-> {}, retry |-> ""]

Commands == {"start", "pause", "resume", "cancel", "adopt-anchor"}

\* The statuses a command is offered in, and the status it leads to.
Allowed(name) ==
  CASE name = "start"  -> {"PREVIEW"}
    [] name = "pause"  -> {"RUNNING"}
    [] name = "resume" -> {"PAUSED"}
    [] name = "cancel" -> {"PREVIEW", "RUNNING", "PAUSED", "ARRIVING"}
    [] OTHER -> {"ARRIVED"}

Led(name, status) ==
  CASE name \in {"start", "resume"} -> "RUNNING"
    [] name = "pause"  -> "PAUSED"
    [] name = "cancel" -> "CANCELLED"
    [] OTHER -> status

ActiveTrip(trip) == trip.status \in {"RUNNING", "PAUSED", "ARRIVING"}

PanelInit ==
  /\ dpTrips = <<>>
  /\ dpWrites = 0
  /\ dpDraft = NoDraft
  /\ dpLogin = 1
  /\ dpSelected = TRUE
  /\ dpCalls = {}
  /\ dpSnapshot = NoTrip
  /\ dpLost = 0
  /\ dpDone = {}
  /\ dpStray = {}

-----------------------------------------------------------------------------
(* The controller (external to the panel).                                 *)

NewTrip(form, login) ==
  [id |-> Len(dpTrips) + 1, rev |-> dpWrites + 1, at |-> dpWrites + 1, status |-> "PREVIEW", form |-> form, login |-> login]

Changed(trip, status) == [trip EXCEPT !.status = status, !.rev = dpWrites + 1, !.at = dpWrites + 1]

Write(trips) == dpWrites < MaxWrites /\ dpWrites' = dpWrites + 1 /\ dpTrips' = trips

\* A command is carried out if it has the trip's revision and status, and a GET answers.
CarriesOut(call) ==
  LET trip == dpTrips[call.trip.id] IN
  \/ /\ call.name = "preview" /\ Len(dpTrips) < MaxTrips
     /\ Write(Append(dpTrips, NewTrip(call.version, call.login)))
  \/ /\ call.name \in Commands \cup {"route", "wifi"} /\ trip.rev = call.trip.rev
     /\ call.name \in Commands => trip.status \in Allowed(call.name)
     /\ call.name \in {"route", "wifi"} => trip.status = "PREVIEW"
     /\ Write([dpTrips EXCEPT ![trip.id] = Changed(trip, IF call.name \in Commands THEN Led(call.name, trip.status) ELSE trip.status)])
  \/ call.name = "read" /\ UNCHANGED <<dpTrips, dpWrites>>

Refused(call) ==
  LET trip == dpTrips[call.trip.id] IN
  /\ call.name \notin {"preview", "read"}
  /\ \/ trip.rev # call.trip.rev
     \/ call.name \in Commands /\ trip.status \notin Allowed(call.name)

AnswerFor(call) == IF call.name = "preview" THEN dpTrips'[Len(dpTrips')] ELSE dpTrips'[call.trip.id]

\* A call reaches the controller; its answer may be lost, whether it did or not.
Serve(call) ==
  /\ call \in dpCalls /\ call.answer = "none"
  /\ \/ /\ CarriesOut(call)
        /\ dpCalls' = (dpCalls \ {call}) \cup {[call EXCEPT !.answer = "trip", !.result = AnswerFor(call)]}
        /\ UNCHANGED <<dpLost, dpDone>>
     \/ /\ Refused(call)
        /\ dpCalls' = (dpCalls \ {call}) \cup {[call EXCEPT !.answer = "error"]}
        /\ UNCHANGED <<dpTrips, dpWrites, dpLost, dpDone>>
     \/ /\ dpLost < MaxLost /\ dpLost' = dpLost + 1
        /\ \/ CarriesOut(call) /\ dpDone' = dpDone \cup {<<call.name, AnswerFor(call).id, AnswerFor(call).rev>>}
           \/ UNCHANGED <<dpTrips, dpWrites, dpDone>>
        /\ dpCalls' = (dpCalls \ {call}) \cup {[call EXCEPT !.answer = "error"]}
  /\ UNCHANGED <<dpDraft, dpLogin, dpSelected, dpSnapshot, dpStray>>

\* Another client makes a trip or commands one.
Others ==
  /\ dpLost < MaxLost /\ dpLost' = dpLost + 1
  /\ \/ Len(dpTrips) < MaxTrips /\ Write(Append(dpTrips, NewTrip(Foreign, 0)))
     \/ \E i \in DOMAIN dpTrips, name \in Commands :
          dpTrips[i].status \in Allowed(name) /\ Write([dpTrips EXCEPT ![i] = Changed(@, Led(name, @.status))])
  /\ UNCHANGED <<dpDraft, dpLogin, dpSelected, dpCalls, dpSnapshot, dpDone, dpStray>>

\* The runner moves the trip on: progress alone keeps the revision.
Runs ==
  /\ \E i \in DOMAIN dpTrips :
       /\ dpTrips[i].status \in {"RUNNING", "ARRIVING"}
       /\ Write([dpTrips EXCEPT ![i].at = dpWrites + 1, ![i].status = IF @ = "RUNNING" THEN "ARRIVING" ELSE "ARRIVED"])
  /\ UNCHANGED <<dpDraft, dpLogin, dpSelected, dpCalls, dpSnapshot, dpLost, dpDone, dpStray>>

\* A snapshot is made of the device's newest trip; polling is single flight.
MakeSnapshot ==
  /\ dpSnapshot = NoTrip /\ dpTrips # <<>>
  /\ dpSnapshot' = dpTrips[Len(dpTrips)]
  /\ UNCHANGED <<dpTrips, dpWrites, dpDraft, dpLogin, dpSelected, dpCalls, dpLost, dpDone, dpStray>>

-----------------------------------------------------------------------------
(* What is shown.                                                          *)

\* Mutant: only a revision that was replaced is old.
StaleByRevision(trip) == <<trip.id, trip.rev>> \in dpDraft.superseded

\* A trip that was shown before, or changed before the one shown did.
StaleTrip(trip) == <<trip.id, trip.rev>> \in dpDraft.superseded \/ trip.at < dpDraft.trip.at

\* storeTrip, on a draft.
StoreTrip(draft, trip) ==
  IF StaleTrip(trip) THEN draft
  ELSE LET old == draft.trip IN
       [draft EXCEPT !.trip = trip,
          !.superseded = @ \cup (IF old # NoTrip /\ <<old.id, old.rev>> # <<trip.id, trip.rev>> THEN {<<old.id, old.rev>>} ELSE {})]

Busy == dpDraft.pending # "" \/ dpDraft.arrival

Dirty == dpDraft.version # dpDraft.previewed

\* The buttons that can be clicked, and the guards behind them.
Offered(name) ==
  /\ dpSelected /\ ~Busy
  /\ dpDraft.trip # NoTrip /\ dpDraft.trip.status \in Allowed(name)
  /\ name = "start" => ~Dirty

-----------------------------------------------------------------------------
(* The form, and the calls of the panel.                                   *)

PanelOnly == UNCHANGED <<dpTrips, dpWrites, dpLost, dpDone>>

\* setDraft
SetDraft ==
  /\ dpSelected /\ ~Busy /\ ~ActiveTrip(dpDraft.trip)
  /\ dpDraft.version < MaxVersion
  /\ dpDraft' = [dpDraft EXCEPT !.version = @ + 1, !.retry = ""]
  /\ PanelOnly /\ UNCHANGED <<dpLogin, dpSelected, dpCalls, dpSnapshot, dpStray>>

\* The field of a waypoint is changed past setDraft, and leaves what could be retried.
EditStop ==
  /\ dpSelected /\ ~Busy /\ ~ActiveTrip(dpDraft.trip)
  /\ dpDraft.version < MaxVersion
  /\ dpDraft' = [dpDraft EXCEPT !.version = @ + 1]
  /\ PanelOnly /\ UNCHANGED <<dpLogin, dpSelected, dpCalls, dpSnapshot, dpStray>>

\* A call goes out for the trip shown; stray notes one that should not have.
Send(name, draft, stray) ==
  /\ dpDraft' = draft
  /\ dpCalls' = dpCalls \cup {[name |-> name, trip |-> [id |-> dpDraft.trip.id, rev |-> dpDraft.trip.rev], version |-> dpDraft.version, login |-> dpLogin,
                               answer |-> "none", result |-> NoTrip]}
  /\ dpStray' = dpStray \cup stray
  /\ PanelOnly /\ UNCHANGED <<dpLogin, dpSelected, dpSnapshot>>

AskPreview ==
  /\ dpSelected /\ ~Busy /\ ~ActiveTrip(dpDraft.trip)
  /\ dpDraft.version > 0 \/ dpDraft.trip # NoTrip    \* a destination is entered
  /\ Send("preview", [dpDraft EXCEPT !.retry = "", !.pending = "preview"], {})

\* A trip of this form's, started, is the one the form describes now.
Astray(name) ==
  IF name = "start" /\ dpDraft.trip.login = dpLogin /\ dpDraft.trip.form \notin {Foreign, dpDraft.version}
  THEN {"start of another form"} ELSE {}

Act(name) ==
  /\ Offered(name)
  /\ Send(name, [dpDraft EXCEPT !.retry = "", !.pending = name], Astray(name))

\* retryOperation: the trip is read before a command is repeated.
Retry ==
  /\ dpSelected /\ ~Busy /\ dpDraft.retry \in Commands /\ dpDraft.trip # NoTrip
  /\ Send("read", [dpDraft EXCEPT !.pending = "retry"], {})

\* selectRoute, and arrivalAction with a choice of access point.
SelectRoute ==
  /\ dpSelected /\ ~Busy /\ dpDraft.trip.status = "PREVIEW" /\ ~Dirty
  /\ \/ Send("route", [dpDraft EXCEPT !.pending = "route"], {})
     \/ Send("wifi", [dpDraft EXCEPT !.arrival = TRUE], {})

-----------------------------------------------------------------------------
(* Answers.                                                                *)

\* stillValid: the draft is the one the call was made for.
StillValid(call) == call.login = dpLogin

\* The draft once the call is over, with its trip stored or not.
Over(call) ==
  LET done == [dpDraft EXCEPT !.pending = IF call.name = "wifi" THEN @ ELSE "", !.arrival = IF call.name = "wifi" THEN FALSE ELSE @] IN
  IF call.answer = "error" THEN
         [done EXCEPT !.retry = IF call.name \in Commands \cup {"preview"} THEN call.name ELSE @]
  ELSE IF call.name = "preview" /\ dpDraft.version # call.version THEN done
  ELSE IF call.name = "preview" THEN [StoreTrip(done, call.result) EXCEPT !.previewed = call.version]
  ELSE IF call.name \in {"read", "wifi"} /\ dpDraft.trip.id # call.trip.id THEN done
  ELSE IF call.name = "read" THEN [StoreTrip(done, call.result) EXCEPT !.retry = ""]
  ELSE StoreTrip(done, call.result)

\* The command is repeated if the trip, read again, still allows it.
Repeats(call, trip) ==
  call.name = "read" /\ call.answer = "trip" /\ dpDraft.retry \in Commands \ {"adopt-anchor"} /\ trip.status \in Allowed(dpDraft.retry)

Answer(call) ==
  /\ call \in dpCalls /\ call.answer # "none"
  /\ LET after == IF StillValid(call) THEN Over(call) ELSE dpDraft
         left  == dpCalls \ {call}
         again == [call EXCEPT !.name = dpDraft.retry, !.trip = [id |-> after.trip.id, rev |-> after.trip.rev], !.version = dpDraft.version, !.answer = "none", !.result = NoTrip]
     IN IF StillValid(call) /\ Repeats(call, after.trip) /\ dpSelected /\ (dpDraft.retry = "start" => ~Dirty)
        THEN /\ dpDraft' = [after EXCEPT !.pending = dpDraft.retry]
             /\ dpCalls' = left \cup {again}
             /\ dpStray' = dpStray \cup (IF <<dpDraft.retry, after.trip.id, after.trip.rev>> \in dpDone THEN {"repeated"} ELSE {})
        ELSE dpDraft' = after /\ dpCalls' = left /\ UNCHANGED dpStray
  /\ PanelOnly /\ UNCHANGED <<dpLogin, dpSelected, dpSnapshot>>

\* update: the snapshot's trip is adopted, unless a call is under way, it is
\* stale, or it is another trip that is not newer.
Adopts(trip) ==
  /\ ~Busy /\ ~StaleTrip(trip)
  /\ dpDraft.trip = NoTrip \/ trip.id >= dpDraft.trip.id

TakeSnapshot ==
  /\ dpSnapshot # NoTrip
  /\ dpSnapshot' = NoTrip
  /\ dpDraft' = IF ~Adopts(dpSnapshot) THEN dpDraft
                ELSE [StoreTrip(dpDraft, dpSnapshot) EXCEPT
                        !.previewed = IF dpDraft.trip = NoTrip /\ dpDraft.version = 0 THEN 0 ELSE @]
  /\ PanelOnly /\ UNCHANGED <<dpLogin, dpSelected, dpCalls, dpStray>>

\* Another device is chosen, or this one again.
Select == /\ dpSelected' = ~dpSelected
          /\ PanelOnly /\ UNCHANGED <<dpDraft, dpLogin, dpCalls, dpSnapshot, dpStray>>

\* clear: the drafts are forgotten, and the snapshot under way is dropped with them (app.js).
Login ==
  /\ dpLogin < MaxLogins
  /\ dpLogin' = dpLogin + 1
  /\ dpDraft' = NoDraft
  /\ dpSnapshot' = NoTrip
  /\ PanelOnly /\ UNCHANGED <<dpSelected, dpCalls, dpStray>>

PanelNext ==
  \/ \E call \in dpCalls : Serve(call) \/ Answer(call)
  \/ Others \/ Runs \/ MakeSnapshot \/ TakeSnapshot
  \/ SetDraft \/ EditStop \/ AskPreview \/ Retry \/ SelectRoute \/ Select \/ Login
  \/ \E name \in Commands : Act(name)

-----------------------------------------------------------------------------
PanelTypeOK ==
  /\ dpDraft.pending \in {"", "preview", "retry", "route"} \cup Commands
  /\ dpDraft.trip = NoTrip \/ dpDraft.trip.id \in DOMAIN dpTrips
  /\ dpStray \subseteq {"start of another form", "repeated"}

\* The panel waits exactly as long as a call of this login is under way.
WaitsForItsCall == (dpDraft.pending # "" \/ dpDraft.arrival) <=> \E call \in dpCalls : call.login = dpLogin

\* The panel never returns to an older trip, or to an older state of a trip,
\* however answers and snapshots are ordered; it waits for its own calls and
\* for no others; it starts no trip of its own that the form has left behind;
\* and a retry repeats no command that was carried out and left its mark.
PanelStays ==
  /\ dpLogin' = dpLogin => dpDraft'.trip.id > dpDraft.trip.id \/ (dpDraft'.trip.id = dpDraft.trip.id /\ dpDraft'.trip.at >= dpDraft.trip.at)
  /\ WaitsForItsCall'
  /\ dpStray' = {}
=============================================================================
