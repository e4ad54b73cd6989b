------------------------- MODULE BrowserPagesProofs -------------------------
(***************************************************************************)
(* The pages of the console, for any number of trips, workspaces, calls,   *)
(* logins and events, and answers in whatever order.                       *)
(***************************************************************************)
EXTENDS BrowserPages, SequenceTheorems, TLAPS

(***************************************************************************)
(* The driving panel.                                                      *)
(***************************************************************************)

Trips  == [id : Nat, rev : Nat, at : Nat, status : {"PREVIEW", "RUNNING", "PAUSED", "ARRIVING", "ARRIVED", "CANCELLED"},
           form : Nat \cup {Foreign}, login : Nat]
Asks   == Commands \cup {"preview", "read", "route", "wifi"}
Drafts == [version : Nat, previewed : Nat \cup {-1}, pending : {"", "preview", "retry", "route"} \cup Commands,
           arrival : BOOLEAN, trip : Trips \cup {NoTrip}, superseded : SUBSET (Nat \X Nat),
           retry : {"", "preview"} \cup Commands]
Requests == [name : Asks, trip : [id : Nat, rev : Nat], version : Nat, login : Nat,
             answer : {"none", "trip", "error"}, result : Trips \cup {NoTrip}]

PanelTyped ==
  /\ dpWrites \in Nat /\ dpLogin \in Nat /\ dpLost \in Nat
  /\ dpTrips \in Seq(Trips) /\ dpDraft \in Drafts /\ dpSnapshot \in Trips \cup {NoTrip}
  /\ \A call \in dpCalls : call \in Requests
  /\ \A done \in dpDone : done \in Asks \X Nat \X Nat /\ done[3] <= dpWrites

\* A command that has been carried out, and has left its mark, is not allowed again.
Marked(trip) ==
  \A name \in Commands \ {"adopt-anchor"} :
    <<name, trip.id, trip.rev>> \in dpDone => trip.status \notin Allowed(name)

\* A state of one of the controller's trips, now or at an earlier time.
Copy(trip) ==
  /\ trip \in Trips /\ trip.id \in DOMAIN dpTrips
  /\ trip.form = dpTrips[trip.id].form /\ trip.login = dpTrips[trip.id].login
  /\ trip.rev <= dpWrites /\ trip.at <= dpWrites
  /\ Marked(trip)

CopiesFit ==
  /\ \A i \in DOMAIN dpTrips : dpTrips[i].id = i /\ Copy(dpTrips[i])
  /\ dpDraft.trip = NoTrip \/ Copy(dpDraft.trip)
  /\ dpSnapshot = NoTrip \/ Copy(dpSnapshot)
  /\ \A call \in dpCalls : call.answer = "trip" => Copy(call.result)

\* The panel waits for at most one call of its login, one about the trip shown.
OneAwaited ==
  /\ \A call, other \in dpCalls : call.login = dpLogin /\ other.login = dpLogin => call = other
  /\ \A call \in dpCalls :
       /\ call.login <= dpLogin
       /\ call.name # "preview" => call.trip.id \in DOMAIN dpTrips
       /\ call.login = dpLogin =>
            /\ IF call.name = "wifi" THEN dpDraft.pending = "" /\ dpDraft.arrival ELSE dpDraft.pending # "" /\ ~dpDraft.arrival
            /\ call.version = dpDraft.version /\ call.trip.id = dpDraft.trip.id
  /\ Busy => \E call \in dpCalls : call.login = dpLogin

Own(i) == dpTrips[i].login = dpLogin /\ dpTrips[i].form # Foreign

\* An answer is of the trip that was asked about, or of a trip made since, and then the newest of this form.
AnswersFit ==
  \A call \in dpCalls : call.answer = "trip" =>
    /\ call.name # "preview" => call.result.id = call.trip.id
    /\ call.login = dpLogin /\ call.name = "preview" =>
         /\ call.result.id > dpDraft.trip.id /\ call.result.at >= dpDraft.trip.at
         /\ \A i \in DOMAIN dpTrips : i >= call.result.id /\ Own(i) => dpTrips[i].form >= call.version

\* A trip made from this form, and not before the one shown, is of no version before the previewed one.
FormsFit ==
  /\ dpDraft.previewed <= dpDraft.version
  /\ \A i \in DOMAIN dpTrips :
       /\ dpTrips[i].login <= dpLogin
       /\ Own(i) => dpTrips[i].form <= dpDraft.version
       /\ Own(i) /\ i >= dpDraft.trip.id => dpTrips[i].form >= dpDraft.previewed
  /\ \A pair \in dpDraft.superseded : pair[1] <= dpDraft.trip.id

PanelInv == PanelTyped /\ CopiesFit /\ OneAwaited /\ AnswersFit /\ FormsFit /\ dpStray = {}

\* What is shown is not taken back.
ShowsOn ==
  dpLogin' = dpLogin => dpDraft'.trip.id > dpDraft.trip.id \/ (dpDraft'.trip.id = dpDraft.trip.id /\ dpDraft'.trip.at >= dpDraft.trip.at)

-----------------------------------------------------------------------------
LEMMA PanelReads ==
  ASSUME PanelInv
  PROVE  /\ dpWrites \in Nat /\ dpLogin \in Nat /\ dpTrips \in Seq(Trips) /\ Len(dpTrips) \in Nat /\ DOMAIN dpTrips = 1..Len(dpTrips)
         /\ dpDraft \in Drafts /\ dpDraft.version \in Nat /\ dpDraft.previewed \in Nat \cup {-1} /\ dpDraft.trip.id \in Nat /\ dpDraft.trip.at \in Nat
         /\ dpDraft.trip.id <= Len(dpTrips) /\ dpDraft.trip.at <= dpWrites
         /\ \A i \in DOMAIN dpTrips : dpTrips[i] \in Trips /\ i \in Nat /\ dpTrips[i].login \in Nat /\ dpTrips[i].form \in Nat \cup {-1}
<1>1. dpWrites \in Nat /\ dpLogin \in Nat /\ dpTrips \in Seq(Trips) /\ dpDraft \in Drafts
  BY DEF PanelInv, PanelTyped
<1>2. Len(dpTrips) \in Nat /\ DOMAIN dpTrips = 1..Len(dpTrips) /\ \A i \in DOMAIN dpTrips : dpTrips[i] \in Trips /\ i \in Nat
  BY <1>1
<1>3. dpDraft.version \in Nat /\ dpDraft.previewed \in Nat \cup {-1} /\ dpDraft.trip \in Trips \cup {NoTrip}
  BY <1>1 DEF Drafts
<1>4. dpDraft.trip.id \in Nat /\ dpDraft.trip.at \in Nat
  BY <1>3 DEF Trips, NoTrip
<1>5. dpDraft.trip = NoTrip \/ Copy(dpDraft.trip)
  BY DEF PanelInv, CopiesFit
<1>6. dpDraft.trip.id <= Len(dpTrips) /\ dpDraft.trip.at <= dpWrites
  BY <1>1, <1>2, <1>5 DEF Copy, NoTrip
<1> QED
  BY <1>1, <1>2, <1>3, <1>4, <1>6 DEF Trips, Foreign

\* The panel waits exactly for its call, and shows a trip of the controller's.
LEMMA InvShows ==
  ASSUME PanelInv
  PROVE  PanelTypeOK /\ WaitsForItsCall
<1>1. dpDraft.trip = NoTrip \/ dpDraft.trip.id \in DOMAIN dpTrips
  BY DEF PanelInv, CopiesFit, Copy
<1>2. WaitsForItsCall
  BY DEF PanelInv, OneAwaited, WaitsForItsCall, Busy
<1> QED
  BY <1>1, <1>2, PanelReads DEF PanelTypeOK, PanelInv, Drafts

LEMMA FreeAwaitsNone ==
  ASSUME PanelInv, ~Busy
  PROVE  \A call \in dpCalls : call.login # dpLogin
BY DEF PanelInv, OneAwaited, Busy

-----------------------------------------------------------------------------
(* The controller's trips.                                                 *)

\* Copy, of what the step leads to.
CopyAfter(trip) ==
  /\ trip \in Trips /\ trip.id \in DOMAIN dpTrips'
  /\ trip.form = dpTrips'[trip.id].form /\ trip.login = dpTrips'[trip.id].login
  /\ trip.rev <= dpWrites' /\ trip.at <= dpWrites'
  /\ \A name \in Commands \ {"adopt-anchor"} : <<name, trip.id, trip.rev>> \in dpDone' => trip.status \notin Allowed(name)

\* The controller's trips change, and no copy of one is wrong for it.
Moves ==
  /\ dpTrips' \in Seq(Trips) /\ dpWrites' \in Nat
  /\ \A done \in dpDone' : done \in Asks \X Nat \X Nat /\ done[3] <= dpWrites'
  /\ \A i \in DOMAIN dpTrips' : dpTrips'[i].id = i /\ CopyAfter(dpTrips'[i])
  /\ \A trip \in Trips : Copy(trip) => CopyAfter(trip)
  /\ \A i \in DOMAIN dpTrips : i \in DOMAIN dpTrips' /\ dpTrips'[i].form = dpTrips[i].form /\ dpTrips'[i].login = dpTrips[i].login

\* A lost answer is noted for the trip that it was about.
Notes(trip) ==
  \A done \in dpDone' :
    \/ done \in dpDone
    \/ /\ done \in Asks \X Nat \X Nat /\ done[3] <= dpWrites'
       /\ done[1] \in Commands \ {"adopt-anchor"} => done[3] > dpWrites /\ done[2] = trip.id /\ trip.status \notin Allowed(done[1])

LEMMA CopyStays ==
  ASSUME PanelInv, dpWrites' \in Nat, dpWrites' >= dpWrites, NEW new, Notes(new), NEW trip \in Trips, Copy(trip),
         \A i \in DOMAIN dpTrips : i \in DOMAIN dpTrips' /\ dpTrips'[i].form = dpTrips[i].form /\ dpTrips'[i].login = dpTrips[i].login
  PROVE  CopyAfter(trip)
<1>1. trip.rev \in Nat /\ trip.at \in Nat /\ dpWrites \in Nat /\ trip.rev <= dpWrites /\ trip.at <= dpWrites
  BY PanelReads DEF Trips, Copy
<1>2. trip.rev <= dpWrites' /\ trip.at <= dpWrites'
  BY <1>1
<1>3. ASSUME NEW name \in Commands \ {"adopt-anchor"}, <<name, trip.id, trip.rev>> \in dpDone'
      PROVE  trip.status \notin Allowed(name)
  <2>1. CASE <<name, trip.id, trip.rev>> \in dpDone
    BY <1>3, <2>1 DEF Copy, Marked
  <2>2. CASE <<name, trip.id, trip.rev>> \notin dpDone
    <3>1. trip.rev > dpWrites
      BY <1>3, <2>2 DEF Notes
    <3> QED
      BY <1>1, <3>1
  <2> QED
    BY <2>1, <2>2
<1> QED
  BY <1>2, <1>3 DEF Copy, CopyAfter

LEMMA MakeMoves ==
  ASSUME PanelInv, NEW form \in Nat \cup {Foreign}, NEW login \in Nat, Write(Append(dpTrips, NewTrip(form, login))),
         \A done \in dpDone' : done \in dpDone \/ (done \in Asks \X Nat \X Nat /\ done[1] = "preview" /\ done[3] = dpWrites + 1)
  PROVE  /\ Moves /\ DOMAIN dpTrips' = 1..(Len(dpTrips) + 1) /\ dpWrites' = dpWrites + 1 /\ Len(dpTrips') = Len(dpTrips) + 1
         /\ dpTrips'[Len(dpTrips) + 1] = NewTrip(form, login)
         /\ \A i \in DOMAIN dpTrips : dpTrips'[i] = dpTrips[i]
<1> DEFINE n == Len(dpTrips) + 1
<1>1. PICK new : new = NewTrip(form, login)
  OBVIOUS
<1>2. n \in Nat /\ dpWrites + 1 \in Nat /\ dpTrips \in Seq(Trips) /\ DOMAIN dpTrips = 1..Len(dpTrips) /\ Len(dpTrips) \in Nat
  BY PanelReads
<1>3. new \in Trips /\ new.id = n /\ new.rev = dpWrites + 1 /\ new.at = dpWrites + 1 /\ new.status = "PREVIEW" /\ new.form = form /\ new.login = login
  BY <1>1, <1>2 DEF NewTrip, Trips
<1>4. dpTrips' = Append(dpTrips, new) /\ dpWrites' = dpWrites + 1
  BY <1>1 DEF Write
<1>5. /\ dpTrips' \in Seq(Trips) /\ Len(dpTrips') = n /\ DOMAIN dpTrips' = 1..n /\ dpTrips'[n] = new
      /\ \A i \in DOMAIN dpTrips : dpTrips'[i] = dpTrips[i]
  BY <1>2, <1>3, <1>4
<1> HIDE DEF n
<1>6. \A i \in DOMAIN dpTrips : i \in DOMAIN dpTrips' /\ dpTrips'[i].form = dpTrips[i].form /\ dpTrips'[i].login = dpTrips[i].login
  <2>1. 1..Len(dpTrips) \subseteq 1..n
    BY <1>2 DEF n
  <2> QED
    BY <1>2, <1>5, <2>1
<1>7. Notes(new)
  BY <1>2, <1>4 DEF Notes, Commands
<1>8. dpWrites' \in Nat /\ dpWrites' >= dpWrites /\ dpWrites' > dpWrites
  BY <1>2, <1>4, PanelReads
<1>9. \A trip \in Trips : Copy(trip) => CopyAfter(trip)
  BY <1>6, <1>7, <1>8, CopyStays
<1>10. \A done \in dpDone' : done \in Asks \X Nat \X Nat /\ done[3] <= dpWrites'
  <2> SUFFICES ASSUME NEW done \in dpDone' PROVE done \in Asks \X Nat \X Nat /\ done[3] <= dpWrites'
    OBVIOUS
  <2>1. CASE done \in dpDone
    <3>1. done \in Asks \X Nat \X Nat /\ done[3] <= dpWrites
      BY <2>1 DEF PanelInv, PanelTyped
    <3> QED
      BY <1>8, <3>1, PanelReads
  <2>2. CASE done \notin dpDone
    BY <1>4, <1>8, <2>2
  <2> QED
    BY <2>1, <2>2
<1>11. CopyAfter(new)
  <2>1. n \in DOMAIN dpTrips'
    <3>1. n \in 1..n
      BY <1>2 DEF n
    <3> QED
      BY <1>5, <3>1
  <2>2. \A name \in Commands \ {"adopt-anchor"} : <<name, new.id, new.rev>> \notin dpDone'
    <3> SUFFICES ASSUME NEW name \in Commands \ {"adopt-anchor"}, <<name, new.id, new.rev>> \in dpDone' PROVE FALSE
      OBVIOUS
    <3>1. name # "preview"
      BY DEF Commands
    <3>2. <<name, new.id, new.rev>> \in dpDone
      BY <3>1
    <3>3. new.rev <= dpWrites
      BY <3>2 DEF PanelInv, PanelTyped
    <3> QED
      BY <1>3, <3>3, PanelReads
  <2> QED
    BY <1>3, <1>4, <1>5, <1>8, <2>1, <2>2 DEF CopyAfter
<1>12. \A i \in DOMAIN dpTrips' : dpTrips'[i].id = i /\ CopyAfter(dpTrips'[i])
  <2> SUFFICES ASSUME NEW i \in DOMAIN dpTrips' PROVE dpTrips'[i].id = i /\ CopyAfter(dpTrips'[i])
    OBVIOUS
  <2>1. i \in DOMAIN dpTrips \/ i = n
    BY <1>2, <1>5 DEF n
  <2>2. CASE i \in DOMAIN dpTrips
    BY <1>5, <1>9, <2>2, PanelReads DEF PanelInv, CopiesFit
  <2>3. CASE i = n
    BY <1>3, <1>5, <1>11, <2>3
  <2> QED
    BY <2>1, <2>2, <2>3
<1>13. Moves
  BY <1>5, <1>6, <1>8, <1>9, <1>10, <1>12 DEF Moves
<1> QED
  BY <1>1, <1>4, <1>5, <1>13 DEF n

LEMMA ChangeMoves ==
  ASSUME PanelInv, NEW i \in DOMAIN dpTrips, NEW trip \in Trips, dpWrites' = dpWrites + 1, dpTrips' = [dpTrips EXCEPT ![i] = trip],
         trip.id = i, trip.form = dpTrips[i].form, trip.login = dpTrips[i].login, trip.rev <= dpWrites + 1, trip.at <= dpWrites + 1,
         Notes(trip),
         \A name \in Commands \ {"adopt-anchor"} : <<name, trip.id, trip.rev>> \in dpDone' => trip.status \notin Allowed(name)
  PROVE  /\ Moves /\ DOMAIN dpTrips' = DOMAIN dpTrips /\ dpTrips'[i] = trip
         /\ \A j \in DOMAIN dpTrips : dpTrips'[j].form = dpTrips[j].form /\ dpTrips'[j].login = dpTrips[j].login
<1>1. dpTrips \in Seq(Trips) /\ dpWrites' \in Nat /\ dpWrites' >= dpWrites /\ dpWrites' > dpWrites
  BY PanelReads
<1>2. dpTrips' \in Seq(Trips) /\ DOMAIN dpTrips' = DOMAIN dpTrips /\ dpTrips'[i] = trip
      /\ \A j \in DOMAIN dpTrips : j # i => dpTrips'[j] = dpTrips[j]
  BY <1>1
<1>3. \A j \in DOMAIN dpTrips : j \in DOMAIN dpTrips' /\ dpTrips'[j].form = dpTrips[j].form /\ dpTrips'[j].login = dpTrips[j].login
  BY <1>2
<1>4. \A old \in Trips : Copy(old) => CopyAfter(old)
  BY <1>1, <1>3, CopyStays
<1>5. CopyAfter(trip)
  BY <1>2 DEF CopyAfter
<1>6. \A j \in DOMAIN dpTrips' : dpTrips'[j].id = j /\ CopyAfter(dpTrips'[j])
  <2> SUFFICES ASSUME NEW j \in DOMAIN dpTrips' PROVE dpTrips'[j].id = j /\ CopyAfter(dpTrips'[j])
    OBVIOUS
  <2>1. CASE j = i
    BY <1>2, <1>5, <2>1
  <2>2. CASE j # i
    <3>1. dpTrips'[j] = dpTrips[j] /\ j \in DOMAIN dpTrips
      BY <1>2, <2>2
    <3> QED
      BY <1>4, <3>1, PanelReads DEF PanelInv, CopiesFit
  <2> QED
    BY <2>1, <2>2
<1>7. \A done \in dpDone' : done \in Asks \X Nat \X Nat /\ done[3] <= dpWrites'
  <2> SUFFICES ASSUME NEW done \in dpDone' PROVE done \in Asks \X Nat \X Nat /\ done[3] <= dpWrites'
    OBVIOUS
  <2>1. CASE done \in dpDone
    <3>1. done \in Asks \X Nat \X Nat /\ done[3] <= dpWrites
      BY <2>1 DEF PanelInv, PanelTyped
    <3> QED
      BY <1>1, <3>1, PanelReads
  <2>2. CASE done \notin dpDone
    BY <2>2 DEF Notes
  <2> QED
    BY <2>1, <2>2
<1> QED
  BY <1>1, <1>2, <1>3, <1>4, <1>6, <1>7 DEF Moves

\* Where a command is carried out it is not allowed again, except the adoption of an anchor.
LEMMA LedNotAllowed ==
  ASSUME NEW name \in Commands \ {"adopt-anchor"}, NEW status
  PROVE  Led(name, status) \notin Allowed(name)
BY DEF Commands, Led, Allowed

LEMMA StatusesFit ==
  /\ \A name \in Commands, status \in {"PREVIEW", "RUNNING", "PAUSED", "ARRIVING", "ARRIVED", "CANCELLED"} :
       Led(name, status) \in {"PREVIEW", "RUNNING", "PAUSED", "ARRIVING", "ARRIVED", "CANCELLED"}
  /\ \A name \in Commands : "NONE" \notin Allowed(name)
BY DEF Commands, Led, Allowed

\* What a change leaves: a new revision, so that nothing has been noted of it yet.
LEMMA ChangedFits ==
  ASSUME PanelInv, NEW i \in DOMAIN dpTrips, NEW status \in {"PREVIEW", "RUNNING", "PAUSED", "ARRIVING", "ARRIVED", "CANCELLED"},
         NEW trip, trip = Changed(dpTrips[i], status)
  PROVE  /\ trip \in Trips /\ trip.id = i /\ trip.form = dpTrips[i].form /\ trip.login = dpTrips[i].login
         /\ trip.rev = dpWrites + 1 /\ trip.at = dpWrites + 1 /\ trip.status = status
         /\ \A name : <<name, trip.id, trip.rev>> \notin dpDone
<1>1. dpTrips[i] \in Trips /\ dpTrips[i].id = i /\ dpWrites + 1 \in Nat
  BY PanelReads DEF PanelInv, CopiesFit
<1>2. trip \in Trips /\ trip.id = i /\ trip.form = dpTrips[i].form /\ trip.login = dpTrips[i].login
      /\ trip.rev = dpWrites + 1 /\ trip.at = dpWrites + 1 /\ trip.status = status
  BY <1>1 DEF Changed, Trips
<1>3. ASSUME NEW name, <<name, trip.id, trip.rev>> \in dpDone PROVE FALSE
  <2>1. trip.rev <= dpWrites
    BY <1>3 DEF PanelInv, PanelTyped
  <2> QED
    BY <1>2, <2>1, PanelReads
<1> QED
  BY <1>2, <1>3

\* A call that is carried out: the trips move, and the answer is a state of the trip it is about.
LEMMA CarryMoves ==
  ASSUME PanelInv, NEW call \in dpCalls, CarriesOut(call),
         dpDone' \in {dpDone, dpDone \cup {<<call.name, AnswerFor(call).id, AnswerFor(call).rev>>}}
  PROVE  /\ Moves /\ CopyAfter(AnswerFor(call))
         /\ call.name # "preview" => DOMAIN dpTrips' = DOMAIN dpTrips /\ AnswerFor(call).id = call.trip.id
         /\ call.name = "preview" => /\ DOMAIN dpTrips' = 1..(Len(dpTrips) + 1) /\ AnswerFor(call) = dpTrips'[Len(dpTrips) + 1]
                                     /\ AnswerFor(call) = NewTrip(call.version, call.login)
<1>1. call \in Requests /\ call.name \in Asks /\ call.version \in Nat /\ call.login \in Nat
  BY DEF PanelInv, PanelTyped, Requests
<1>2. ASSUME NEW done \in dpDone', done \notin dpDone
      PROVE  done = <<call.name, AnswerFor(call).id, AnswerFor(call).rev>>
  BY <1>2
<1>3. CASE call.name = "preview"
  <2>1. Write(Append(dpTrips, NewTrip(call.version, call.login)))
    BY <1>3 DEF CarriesOut, Commands
  <2>2. dpTrips' = Append(dpTrips, NewTrip(call.version, call.login)) /\ dpTrips \in Seq(Trips) /\ Len(dpTrips) + 1 \in Nat /\ dpWrites + 1 \in Nat
    BY <2>1, PanelReads DEF Write
  <2>3. NewTrip(call.version, call.login) \in Trips
    BY <1>1, <2>2, PanelReads DEF NewTrip, Trips
  <2>4. AnswerFor(call) = NewTrip(call.version, call.login)
    BY <1>3, <2>2, <2>3 DEF AnswerFor
  <2>5. AnswerFor(call).id = Len(dpTrips) + 1 /\ AnswerFor(call).rev = dpWrites + 1
    BY <2>4 DEF NewTrip
  <2>6. \A done \in dpDone' : done \in dpDone \/ (done \in Asks \X Nat \X Nat /\ done[1] = "preview" /\ done[3] = dpWrites + 1)
    BY <1>1, <1>2, <1>3, <2>2, <2>5
  <2>7. Moves /\ DOMAIN dpTrips' = 1..(Len(dpTrips) + 1) /\ dpTrips'[Len(dpTrips) + 1] = NewTrip(call.version, call.login)
    BY <1>1, <2>1, <2>6, MakeMoves
  <2>8. Len(dpTrips) + 1 \in DOMAIN dpTrips'
    BY <2>7, PanelReads
  <2> QED
    BY <1>3, <2>4, <2>7, <2>8 DEF Moves
<1>4. CASE call.name \in Commands \cup {"route", "wifi"} /\ call.name # "preview" /\ call.name # "read"
  <2>1. PICK i \in DOMAIN dpTrips : i = call.trip.id
    BY <1>4 DEF PanelInv, OneAwaited
  <2>2. PICK status : status = IF call.name \in Commands THEN Led(call.name, dpTrips[i].status) ELSE dpTrips[i].status
    OBVIOUS
  <2>3. dpTrips[i] \in Trips /\ dpTrips[i].id = i /\ status \in {"PREVIEW", "RUNNING", "PAUSED", "ARRIVING", "ARRIVED", "CANCELLED"}
    BY <2>2, PanelReads, StatusesFit DEF PanelInv, CopiesFit, Trips
  <2>4. PICK trip : trip = Changed(dpTrips[i], status)
    OBVIOUS
  <2>5. dpWrites' = dpWrites + 1 /\ dpTrips' = [dpTrips EXCEPT ![i] = trip]
    BY <1>4, <2>1, <2>2, <2>3, <2>4 DEF CarriesOut, Write
  <2>6. /\ trip \in Trips /\ trip.id = i /\ trip.form = dpTrips[i].form /\ trip.login = dpTrips[i].login
        /\ trip.rev = dpWrites + 1 /\ trip.at = dpWrites + 1 /\ trip.status = status
        /\ \A name : <<name, trip.id, trip.rev>> \notin dpDone
    BY <2>3, <2>4, ChangedFits
  <2>7. AnswerFor(call) = trip
    BY <1>4, <2>1, <2>5 DEF AnswerFor
  <2>8. call.name \in Commands \ {"adopt-anchor"} => status \notin Allowed(call.name)
    BY <2>2, LedNotAllowed
  <2>9. dpWrites \in Nat /\ i \in Nat
    BY PanelReads
  <2>10. Notes(trip)
    BY <1>1, <1>2, <2>5, <2>6, <2>7, <2>8, <2>9 DEF Notes
  <2>11. \A name \in Commands \ {"adopt-anchor"} : <<name, trip.id, trip.rev>> \in dpDone' => trip.status \notin Allowed(name)
    BY <1>2, <2>6, <2>7, <2>8
  <2>12. trip.rev <= dpWrites + 1 /\ trip.at <= dpWrites + 1
    BY <2>6, <2>9
  <2>13. Moves /\ DOMAIN dpTrips' = DOMAIN dpTrips /\ dpTrips'[i] = trip
    BY <2>5, <2>6, <2>10, <2>11, <2>12, ChangeMoves
  <2> QED
    BY <1>4, <2>1, <2>6, <2>7, <2>13 DEF Moves
<1>5. CASE call.name = "read"
  <2>1. PICK i \in DOMAIN dpTrips : i = call.trip.id
    BY <1>5 DEF PanelInv, OneAwaited
  <2>2. dpTrips' = dpTrips /\ dpWrites' = dpWrites /\ AnswerFor(call) = dpTrips[i]
    BY <1>5, <2>1 DEF CarriesOut, AnswerFor, Commands
  <2>3. dpTrips[i] \in Trips /\ dpTrips[i].id = i /\ Copy(dpTrips[i]) /\ dpTrips[i].rev \in Nat /\ i \in Nat
    BY PanelReads DEF PanelInv, CopiesFit, Trips
  <2>4. Notes(dpTrips[i])
    BY <1>2, <1>5, <2>2, <2>3 DEF Notes, Commands, Asks, Copy
  <2>5. dpWrites' \in Nat /\ dpWrites' >= dpWrites
    BY <2>2, PanelReads
  <2>6. \A trip \in Trips : Copy(trip) => CopyAfter(trip)
    BY <2>2, <2>4, <2>5, CopyStays
  <2>7. \A done \in dpDone' : done \in Asks \X Nat \X Nat /\ done[3] <= dpWrites'
    BY <2>2, <2>4 DEF Notes, PanelInv, PanelTyped
  <2>8. \A j \in DOMAIN dpTrips' : dpTrips'[j].id = j /\ CopyAfter(dpTrips'[j])
    BY <2>2, <2>6, PanelReads DEF PanelInv, CopiesFit
  <2>9. Moves
    BY <2>2, <2>5, <2>6, <2>7, <2>8, PanelReads DEF Moves
  <2> QED
    BY <1>5, <2>1, <2>2, <2>3, <2>6, <2>9
<1> QED
  BY <1>1, <1>3, <1>4, <1>5 DEF Asks, Commands

\* The controller's steps leave the panel alone.
PanelRests == UNCHANGED <<dpDraft, dpLogin, dpSelected, dpSnapshot, dpStray>>

LEMMA RestShowsOn ==
  ASSUME PanelInv, dpDraft'.trip = dpDraft.trip
  PROVE  ShowsOn
<1>1. dpDraft.trip.id \in Nat /\ dpDraft.trip.at \in Nat
  BY PanelReads
<1> QED
  BY <1>1 DEF ShowsOn

\* A new trip is another client's, another login's, or that of the form as it is.
LEMMA MovesKeep ==
  ASSUME PanelInv, Moves, PanelRests, dpLost' \in Nat,
         \A i \in DOMAIN dpTrips' \ DOMAIN dpTrips :
           dpTrips'[i].login <= dpLogin /\ (dpTrips'[i].login = dpLogin => dpTrips'[i].form \in {Foreign, dpDraft.version})
  PROVE  /\ FormsFit' /\ ShowsOn /\ dpStray' = {}
         /\ dpDraft'.trip = NoTrip \/ Copy(dpDraft.trip)'
         /\ dpSnapshot' = NoTrip \/ Copy(dpSnapshot)'
         /\ \A i \in DOMAIN dpTrips' : dpTrips'[i].id = i /\ Copy(dpTrips[i])'
         /\ \A call \in dpCalls : call.answer = "trip" => CopyAfter(call.result)
<1>1. dpDraft' = dpDraft /\ dpLogin' = dpLogin /\ dpSnapshot' = dpSnapshot /\ dpStray' = dpStray
  BY DEF PanelRests
<1>2. \A trip \in Trips : Copy(trip) => CopyAfter(trip)
  BY DEF Moves
<1>3. (dpDraft.trip = NoTrip \/ CopyAfter(dpDraft.trip)) /\ (dpSnapshot = NoTrip \/ CopyAfter(dpSnapshot))
  BY <1>2 DEF PanelInv, CopiesFit, Copy
<1>4. (dpDraft'.trip = NoTrip \/ Copy(dpDraft.trip)') /\ (dpSnapshot' = NoTrip \/ Copy(dpSnapshot)')
  BY <1>1, <1>3 DEF CopyAfter, Copy, Marked
<1>5. \A i \in DOMAIN dpTrips' : dpTrips'[i].id = i /\ Copy(dpTrips[i])'
  BY DEF Moves, CopyAfter, Copy, Marked
<1>6. \A call \in dpCalls : call.answer = "trip" => CopyAfter(call.result)
  BY <1>2 DEF PanelInv, CopiesFit, Copy
<1>7. ASSUME NEW i \in DOMAIN dpTrips'
      PROVE  /\ dpTrips'[i].login <= dpLogin
             /\ dpTrips'[i].login = dpLogin /\ dpTrips'[i].form # Foreign => dpTrips'[i].form <= dpDraft.version
             /\ dpTrips'[i].login = dpLogin /\ dpTrips'[i].form # Foreign /\ i >= dpDraft.trip.id => dpTrips'[i].form >= dpDraft.previewed
  <2>1. CASE i \in DOMAIN dpTrips
    <3>1. dpTrips'[i].form = dpTrips[i].form /\ dpTrips'[i].login = dpTrips[i].login
      BY <2>1 DEF Moves
    <3> QED
      BY <2>1, <3>1 DEF PanelInv, FormsFit, Own
  <2>2. CASE i \notin DOMAIN dpTrips
    <3>1. dpDraft.version \in Nat /\ dpDraft.previewed \in Nat \cup {-1} /\ dpDraft.previewed <= dpDraft.version
      BY PanelReads DEF PanelInv, FormsFit
    <3> QED
      BY <2>2, <3>1
  <2> QED
    BY <2>1, <2>2
<1>8. FormsFit'
  BY <1>1, <1>7 DEF PanelInv, FormsFit, Own
<1>9. ShowsOn
  BY <1>1, RestShowsOn
<1> QED
  BY <1>1, <1>4, <1>5, <1>6, <1>8, <1>9 DEF PanelInv

LEMMA ClientsKeep ==
  ASSUME PanelInv, Moves, PanelRests, dpLost' \in Nat, dpCalls' = dpCalls,
         \A i \in DOMAIN dpTrips' \ DOMAIN dpTrips : dpTrips'[i].login <= dpLogin /\ dpTrips'[i].form = Foreign
  PROVE  PanelInv' /\ ShowsOn
<1>1. dpDraft' = dpDraft /\ dpLogin' = dpLogin /\ dpSnapshot' = dpSnapshot
  BY DEF PanelRests
<1>2. PanelTyped'
  BY <1>1 DEF PanelInv, PanelTyped, Moves
<1>3. FormsFit' /\ ShowsOn /\ dpStray' = {} /\ CopiesFit'
  <2>1. \A call \in dpCalls' : call.answer = "trip" => Copy(call.result)'
    <3>1. \A call \in dpCalls : call.answer = "trip" => CopyAfter(call.result)
      BY MovesKeep
    <3> QED
      BY <3>1 DEF CopyAfter, Copy, Marked
  <2> QED
    BY <2>1, MovesKeep DEF CopiesFit
<1>4. OneAwaited'
  BY <1>1 DEF PanelInv, OneAwaited, Moves, Busy
<1>5. AnswersFit'
  BY <1>1 DEF PanelInv, AnswersFit, Moves, Own
<1> QED
  BY <1>2, <1>3, <1>4, <1>5 DEF PanelInv

LEMMA OthersKeep == PanelInv /\ Others => PanelInv' /\ ShowsOn
<1> SUFFICES ASSUME PanelInv, Others PROVE PanelInv' /\ ShowsOn
  OBVIOUS
<1>1. dpLost' \in Nat /\ PanelRests /\ dpCalls' = dpCalls /\ dpDone' = dpDone
  BY DEF Others, PanelRests, PanelInv, PanelTyped
<1>2. CASE Write(Append(dpTrips, NewTrip(Foreign, 0)))
  <2>1. Moves /\ DOMAIN dpTrips' = 1..(Len(dpTrips) + 1) /\ dpTrips'[Len(dpTrips) + 1] = NewTrip(Foreign, 0)
    BY <1>1, <1>2, MakeMoves
  <2>2. \A i \in DOMAIN dpTrips' \ DOMAIN dpTrips : i = Len(dpTrips) + 1
    BY <2>1, PanelReads
  <2>3. NewTrip(Foreign, 0).login = 0 /\ NewTrip(Foreign, 0).form = Foreign /\ 0 <= dpLogin
    BY PanelReads DEF NewTrip
  <2> QED
    BY <1>1, <2>1, <2>2, <2>3, ClientsKeep
<1>3. ASSUME NEW i \in DOMAIN dpTrips, NEW name \in Commands, dpTrips[i].status \in Allowed(name),
             Write([dpTrips EXCEPT ![i] = Changed(@, Led(name, @.status))])
      PROVE  PanelInv' /\ ShowsOn
  <2>1. PICK status : status = Led(name, dpTrips[i].status)
    OBVIOUS
  <2>2. status \in {"PREVIEW", "RUNNING", "PAUSED", "ARRIVING", "ARRIVED", "CANCELLED"}
    BY <2>1, PanelReads, StatusesFit DEF Trips
  <2>3. PICK trip : trip = Changed(dpTrips[i], status)
    OBVIOUS
  <2>4. /\ trip \in Trips /\ trip.id = i /\ trip.form = dpTrips[i].form /\ trip.login = dpTrips[i].login
        /\ trip.rev = dpWrites + 1 /\ trip.at = dpWrites + 1 /\ \A n : <<n, trip.id, trip.rev>> \notin dpDone
    BY <2>2, <2>3, ChangedFits
  <2>5. dpWrites' = dpWrites + 1 /\ dpTrips' = [dpTrips EXCEPT ![i] = trip]
    BY <1>3, <2>1, <2>3, PanelReads DEF Write
  <2>6. Notes(trip) /\ trip.rev <= dpWrites + 1 /\ trip.at <= dpWrites + 1
    BY <1>1, <2>4, PanelReads DEF Notes
  <2>7. Moves /\ DOMAIN dpTrips' = DOMAIN dpTrips
    BY <1>1, <2>4, <2>5, <2>6, ChangeMoves
  <2> QED
    BY <1>1, <2>7, ClientsKeep
<1> QED
  BY <1>2, <1>3 DEF Others

LEMMA RunsKeep == PanelInv /\ Runs => PanelInv' /\ ShowsOn
<1> SUFFICES ASSUME PanelInv, Runs PROVE PanelInv' /\ ShowsOn
  OBVIOUS
<1>1. dpLost' \in Nat /\ PanelRests /\ dpCalls' = dpCalls /\ dpDone' = dpDone
  BY DEF Runs, PanelRests, PanelInv, PanelTyped
<1>2. PICK i \in DOMAIN dpTrips :
        /\ dpTrips[i].status \in {"RUNNING", "ARRIVING"}
        /\ Write([dpTrips EXCEPT ![i].at = dpWrites + 1, ![i].status = IF @ = "RUNNING" THEN "ARRIVING" ELSE "ARRIVED"])
  BY DEF Runs
<1>3. PICK status : status = IF dpTrips[i].status = "RUNNING" THEN "ARRIVING" ELSE "ARRIVED"
  OBVIOUS
<1>4. dpTrips[i] \in Trips /\ dpTrips[i].id = i /\ Copy(dpTrips[i]) /\ dpWrites \in Nat
  BY PanelReads DEF PanelInv, CopiesFit
<1>5. PICK trip : trip = [dpTrips[i] EXCEPT !.at = dpWrites + 1, !.status = status]
  OBVIOUS
<1>6. trip \in Trips /\ trip.id = i /\ trip.form = dpTrips[i].form /\ trip.login = dpTrips[i].login /\ trip.rev = dpTrips[i].rev
      /\ trip.at = dpWrites + 1 /\ trip.status = status
  <2>1. dpWrites + 1 \in Nat /\ status \in {"ARRIVING", "ARRIVED"}
    BY <1>3, <1>4
  <2> QED
    BY <1>4, <1>5, <2>1 DEF Trips
<1>7. dpWrites' = dpWrites + 1 /\ dpTrips' = [dpTrips EXCEPT ![i] = trip]
  <2>1. dpTrips \in Seq(Trips)
    BY PanelReads
  <2> QED
    BY <1>2, <1>3, <1>4, <1>5, <2>1 DEF Write, Trips
<1>8. trip.rev <= dpWrites + 1 /\ trip.at <= dpWrites + 1
  <2>1. dpTrips[i].rev \in Nat /\ dpTrips[i].rev <= dpWrites
    BY <1>4 DEF Copy, Trips
  <2> QED
    BY <1>4, <1>6, <2>1
<1>9. Notes(trip)
  BY <1>1 DEF Notes
<1>10. \A name \in Commands \ {"adopt-anchor"} : <<name, trip.id, trip.rev>> \in dpDone' => trip.status \notin Allowed(name)
  <2> SUFFICES ASSUME NEW name \in Commands \ {"adopt-anchor"}, <<name, trip.id, trip.rev>> \in dpDone' PROVE trip.status \notin Allowed(name)
    OBVIOUS
  <2>1. dpTrips[i].status \notin Allowed(name)
    BY <1>1, <1>4, <1>6 DEF Copy, Marked
  <2> QED
    BY <1>2, <1>3, <1>6, <2>1 DEF Allowed, Commands
<1>11. Moves /\ DOMAIN dpTrips' = DOMAIN dpTrips
  BY <1>6, <1>7, <1>8, <1>9, <1>10, ChangeMoves
<1> QED
  BY <1>1, <1>11, ClientsKeep

\* A call that the controller has seen keeps its place with the panel.
LEMMA ServedKeeps ==
  ASSUME PanelInv, Moves, PanelRests, dpLost' \in Nat, NEW call \in dpCalls, call.answer = "none", NEW answer \in {"trip", "error"},
         NEW result \in Trips \cup {NoTrip},
         dpCalls' = (dpCalls \ {call}) \cup {[call EXCEPT !.answer = answer, !.result = result]},
         answer = "trip" => /\ CopyAfter(result)
                            /\ call.name # "preview" => result.id = call.trip.id
                            /\ call.name = "preview" => result.id = Len(dpTrips) + 1 /\ result.at > dpWrites,
         \A i \in DOMAIN dpTrips' \ DOMAIN dpTrips :
           dpTrips'[i].login = call.login /\ dpTrips'[i].form = call.version /\ i = Len(dpTrips) + 1
  PROVE  PanelInv' /\ ShowsOn
<1>1. dpDraft' = dpDraft /\ dpLogin' = dpLogin /\ dpSnapshot' = dpSnapshot /\ call \in Requests
  BY DEF PanelRests, PanelInv, PanelTyped
<1>2. PICK new : new = [call EXCEPT !.answer = answer, !.result = result]
  OBVIOUS
<1>3. new \in Requests /\ new.name = call.name /\ new.trip = call.trip /\ new.version = call.version /\ new.login = call.login
      /\ new.answer = answer /\ new.result = result
  BY <1>1, <1>2 DEF Requests
<1>4. dpCalls' = (dpCalls \ {call}) \cup {new}
  BY <1>2
<1>5. call.login <= dpLogin /\ (call.login = dpLogin => call.version = dpDraft.version /\ \A c \in dpCalls : c.login = dpLogin => c = call)
  BY DEF PanelInv, OneAwaited
<1>6. \A i \in DOMAIN dpTrips' \ DOMAIN dpTrips :
        dpTrips'[i].login <= dpLogin /\ (dpTrips'[i].login = dpLogin => dpTrips'[i].form \in {Foreign, dpDraft.version})
  BY <1>5
<1>7. PanelTyped'
  BY <1>1, <1>3, <1>4 DEF PanelInv, PanelTyped, Moves
<1>8. FormsFit' /\ ShowsOn /\ dpStray' = {} /\ CopiesFit'
  <2>1. \A c \in dpCalls' : c.answer = "trip" => CopyAfter(c.result)
    BY <1>3, <1>4, <1>6, MovesKeep
  <2>2. \A c \in dpCalls' : c.answer = "trip" => Copy(c.result)'
    BY <2>1 DEF CopyAfter, Copy, Marked
  <2> QED
    BY <1>6, <2>2, MovesKeep DEF CopiesFit
<1>9. OneAwaited'
  <2>1. \A c \in dpCalls' : c = new \/ c \in dpCalls
    BY <1>4
  <2>2. ASSUME NEW c \in dpCalls', NEW other \in dpCalls', c.login = dpLogin, other.login = dpLogin PROVE c = other
    <3>1. c \in dpCalls /\ other \in dpCalls => c = other
      BY <2>2 DEF PanelInv, OneAwaited
    <3>2. ASSUME NEW d \in dpCalls', d \in dpCalls, d # new, d.login = dpLogin PROVE call.login # dpLogin
      BY <1>4, <1>5, <3>2
    <3> QED
      BY <1>3, <2>1, <2>2, <3>1, <3>2
  <2>3. ASSUME NEW c \in dpCalls'
        PROVE  /\ c.login <= dpLogin
               /\ c.name # "preview" => c.trip.id \in DOMAIN dpTrips'
               /\ c.login = dpLogin =>
                    /\ IF c.name = "wifi" THEN dpDraft.pending = "" /\ dpDraft.arrival ELSE dpDraft.pending # "" /\ ~dpDraft.arrival
                    /\ c.version = dpDraft.version /\ c.trip.id = dpDraft.trip.id
    <3>1. PICK old \in dpCalls : c.login = old.login /\ c.name = old.name /\ c.trip = old.trip /\ c.version = old.version
      BY <1>3, <2>1
    <3> QED
      BY <3>1 DEF PanelInv, OneAwaited, Moves
  <2>4. Busy' => \E c \in dpCalls' : c.login = dpLogin'
    <3> SUFFICES ASSUME Busy PROVE \E c \in dpCalls' : c.login = dpLogin
      BY <1>1 DEF Busy
    <3>1. PICK c \in dpCalls : c.login = dpLogin
      BY DEF PanelInv, OneAwaited
    <3> QED
      BY <1>3, <1>4, <3>1
  <2> QED
    BY <1>1, <2>2, <2>3, <2>4 DEF OneAwaited
<1>10. AnswersFit'
  <2> SUFFICES ASSUME NEW c \in dpCalls', c.answer = "trip"
               PROVE  /\ c.name # "preview" => c.result.id = c.trip.id
                      /\ c.login = dpLogin /\ c.name = "preview" =>
                           /\ c.result.id > dpDraft.trip.id /\ c.result.at >= dpDraft.trip.at
                           /\ \A i \in DOMAIN dpTrips' : i >= c.result.id /\ dpTrips'[i].login = dpLogin /\ dpTrips'[i].form # Foreign =>
                                dpTrips'[i].form >= c.version
    BY <1>1 DEF AnswersFit, Own
  <2>1. CASE c = new
    <3>1. c.name # "preview" => c.result.id = c.trip.id
      BY <1>3, <2>1
    <3>2. ASSUME c.name = "preview", c.login = dpLogin
          PROVE  c.result.id > dpDraft.trip.id /\ c.result.at >= dpDraft.trip.at
      <4>1. c.result.id = Len(dpTrips) + 1 /\ c.result.at > dpWrites /\ c.result.at \in Nat
        BY <1>3, <2>1, <3>2 DEF CopyAfter, Trips
      <4> QED
        BY <4>1, PanelReads
    <3>3. ASSUME c.name = "preview", c.login = dpLogin, NEW i \in DOMAIN dpTrips', i >= c.result.id
          PROVE  dpTrips'[i].form >= c.version
      <4>1. c.result.id = Len(dpTrips) + 1
        BY <1>3, <2>1, <3>3
      <4>2. i \notin DOMAIN dpTrips
        BY <3>3, <4>1, PanelReads
      <4>3. c.version \in Nat /\ dpTrips'[i].form = c.version
        BY <1>3, <2>1, <4>2 DEF Requests
      <4> QED
        BY <4>3
    <3> QED
      BY <3>1, <3>2, <3>3
  <2>2. CASE c # new
    <3>1. c \in dpCalls /\ c # call
      BY <1>4, <2>2
    <3>2. ASSUME c.login = dpLogin, c.name = "preview", NEW i \in DOMAIN dpTrips', i >= c.result.id, dpTrips'[i].login = dpLogin, dpTrips'[i].form # Foreign
          PROVE  dpTrips'[i].form >= c.version
      <4>1. call.login # dpLogin
        BY <1>5, <3>1, <3>2
      <4>2. i \in DOMAIN dpTrips
        BY <3>2, <4>1
      <4>3. dpTrips'[i].form = dpTrips[i].form /\ dpTrips'[i].login = dpTrips[i].login
        BY <4>2 DEF Moves
      <4> QED
        BY <3>1, <3>2, <4>2, <4>3 DEF PanelInv, AnswersFit, Own
    <3> QED
      BY <3>1, <3>2 DEF PanelInv, AnswersFit
  <2> QED
    BY <2>1, <2>2
<1> QED
  BY <1>7, <1>8, <1>9, <1>10 DEF PanelInv

LEMMA ServeKeeps ==
  ASSUME PanelInv, NEW call \in dpCalls, Serve(call)
  PROVE  PanelInv' /\ ShowsOn
<1>1. call.answer = "none" /\ PanelRests /\ call \in Requests /\ dpLost' \in Nat
  BY DEF Serve, PanelRests, PanelInv, PanelTyped
<1>2. call.version \in Nat /\ call.login \in Nat /\ call.result \in Trips \cup {NoTrip} /\ call.name \in Asks
  BY <1>1 DEF Requests
<1>3. ASSUME CarriesOut(call), dpDone' \in {dpDone, dpDone \cup {<<call.name, AnswerFor(call).id, AnswerFor(call).rev>>}}
      PROVE  /\ Moves /\ CopyAfter(AnswerFor(call))
             /\ call.name # "preview" => AnswerFor(call).id = call.trip.id
             /\ call.name = "preview" => AnswerFor(call).id = Len(dpTrips) + 1 /\ AnswerFor(call).at > dpWrites
             /\ \A i \in DOMAIN dpTrips' \ DOMAIN dpTrips :
                  dpTrips'[i].login = call.login /\ dpTrips'[i].form = call.version /\ i = Len(dpTrips) + 1
  <2>1. /\ Moves /\ CopyAfter(AnswerFor(call))
        /\ call.name # "preview" => DOMAIN dpTrips' = DOMAIN dpTrips /\ AnswerFor(call).id = call.trip.id
        /\ call.name = "preview" => /\ DOMAIN dpTrips' = 1..(Len(dpTrips) + 1) /\ AnswerFor(call) = dpTrips'[Len(dpTrips) + 1]
                                    /\ AnswerFor(call) = NewTrip(call.version, call.login)
    BY <1>3, CarryMoves
  <2>2. NewTrip(call.version, call.login).id = Len(dpTrips) + 1 /\ NewTrip(call.version, call.login).at = dpWrites + 1
        /\ NewTrip(call.version, call.login).login = call.login /\ NewTrip(call.version, call.login).form = call.version
    BY DEF NewTrip
  <2>3. call.name = "preview" => \A i \in DOMAIN dpTrips' \ DOMAIN dpTrips : i = Len(dpTrips) + 1
    BY <2>1, PanelReads
  <2>4. dpWrites + 1 > dpWrites
    BY PanelReads
  <2> QED
    BY <2>1, <2>2, <2>3, <2>4
<1>4. CASE /\ CarriesOut(call) /\ UNCHANGED <<dpLost, dpDone>>
           /\ dpCalls' = (dpCalls \ {call}) \cup {[call EXCEPT !.answer = "trip", !.result = AnswerFor(call)]}
  <2>1. AnswerFor(call) \in Trips \cup {NoTrip}
    BY <1>3, <1>4 DEF CopyAfter
  <2>2. PICK result \in Trips \cup {NoTrip} : result = AnswerFor(call)
    BY <2>1
  <2>3. /\ Moves /\ CopyAfter(result)
        /\ call.name # "preview" => result.id = call.trip.id
        /\ call.name = "preview" => result.id = Len(dpTrips) + 1 /\ result.at > dpWrites
        /\ \A i \in DOMAIN dpTrips' \ DOMAIN dpTrips :
             dpTrips'[i].login = call.login /\ dpTrips'[i].form = call.version /\ i = Len(dpTrips) + 1
    BY <1>3, <1>4, <2>2
  <2>4. dpCalls' = (dpCalls \ {call}) \cup {[call EXCEPT !.answer = "trip", !.result = result]}
    BY <1>4, <2>2
  <2> QED
    BY <1>1, <2>3, <2>4, ServedKeeps
<1>5. ASSUME Moves, dpCalls' = (dpCalls \ {call}) \cup {[call EXCEPT !.answer = "error"]},
             \A i \in DOMAIN dpTrips' \ DOMAIN dpTrips :
               dpTrips'[i].login = call.login /\ dpTrips'[i].form = call.version /\ i = Len(dpTrips) + 1
      PROVE  PanelInv' /\ ShowsOn
  <2>1. PICK result \in Trips \cup {NoTrip} : result = call.result
    BY <1>2
  <2>2. [call EXCEPT !.answer = "error"] = [call EXCEPT !.answer = "error", !.result = result]
    BY <1>1, <2>1 DEF Requests
  <2>3. dpCalls' = (dpCalls \ {call}) \cup {[call EXCEPT !.answer = "error", !.result = result]}
    BY <1>5, <2>2
  <2> QED
    BY <1>1, <1>5, <2>3, ServedKeeps
<1>6. UNCHANGED <<dpTrips, dpWrites, dpDone>> => Moves /\ DOMAIN dpTrips' \subseteq DOMAIN dpTrips
  <2> SUFFICES ASSUME UNCHANGED <<dpTrips, dpWrites, dpDone>> PROVE Moves
    OBVIOUS
  <2>1. \A trip \in Trips : Copy(trip) => CopyAfter(trip)
    BY DEF Copy, Marked, CopyAfter
  <2> QED
    BY <2>1, PanelReads DEF Moves, PanelInv, PanelTyped, CopiesFit
<1>7. CASE /\ UNCHANGED <<dpTrips, dpWrites, dpDone>>
           /\ dpCalls' = (dpCalls \ {call}) \cup {[call EXCEPT !.answer = "error"]}
  BY <1>5, <1>6, <1>7
<1>8. CASE /\ CarriesOut(call) /\ dpDone' = dpDone \cup {<<call.name, AnswerFor(call).id, AnswerFor(call).rev>>}
           /\ dpCalls' = (dpCalls \ {call}) \cup {[call EXCEPT !.answer = "error"]}
  BY <1>3, <1>5, <1>8
<1> QED
  BY <1>4, <1>7, <1>8 DEF Serve

-----------------------------------------------------------------------------
(* The panel's own steps: the controller's trips stay as they are.         *)

LEMMA CopyRests ==
  ASSUME PanelInv, PanelOnly
  PROVE  /\ \A trip : Copy(trip) => CopyAfter(trip)
         /\ \A call \in dpCalls : call.answer = "trip" => CopyAfter(call.result)
<1>1. \A trip : Copy(trip) => CopyAfter(trip)
  BY DEF PanelOnly, Copy, Marked, CopyAfter
<1> QED
  BY <1>1 DEF PanelInv, CopiesFit

\* What the form and the trip shown say of the trips, of a draft.
Fits(draft) ==
  /\ draft.previewed <= draft.version
  /\ \A i \in DOMAIN dpTrips :
       /\ Own(i) => dpTrips[i].form <= draft.version
       /\ Own(i) /\ i >= draft.trip.id => dpTrips[i].form >= draft.previewed
  /\ \A pair \in draft.superseded : pair[1] <= draft.trip.id
  /\ draft.trip = NoTrip \/ Copy(draft.trip)

LEMMA DraftFits == PanelInv => Fits(dpDraft)
BY DEF PanelInv, FormsFit, CopiesFit, Fits

\* A step of the panel that keeps the login, by the draft, the calls and the snapshot that it leads to.
LEMMA PanelKeeps ==
  ASSUME PanelInv, PanelOnly, dpLogin' = dpLogin, dpStray' = {}, dpDraft' \in Drafts, Fits(dpDraft'),
         dpSnapshot' = NoTrip \/ Copy(dpSnapshot'),
         \A call \in dpCalls' : call \in dpCalls \/ (call \in Requests /\ call.answer = "none"),
         OneAwaited', AnswersFit'
  PROVE  PanelInv'
<1>1. CopyAfter(dpDraft'.trip) \/ dpDraft'.trip = NoTrip
  BY CopyRests DEF Fits
<1>2. (dpSnapshot' = NoTrip \/ Copy(dpSnapshot)') /\ (dpDraft'.trip = NoTrip \/ Copy(dpDraft.trip)')
  BY <1>1, CopyRests DEF CopyAfter, Copy, Marked
<1>3. \A call \in dpCalls' : call.answer = "trip" => Copy(call.result)'
  <2>1. \A call \in dpCalls' : call.answer = "trip" => CopyAfter(call.result)
    BY CopyRests
  <2> QED
    BY <2>1 DEF CopyAfter, Copy, Marked
<1>4. \A i \in DOMAIN dpTrips' : dpTrips'[i].id = i /\ Copy(dpTrips[i])'
  <2>1. \A i \in DOMAIN dpTrips : dpTrips[i].id = i /\ CopyAfter(dpTrips[i])
    BY CopyRests DEF PanelInv, CopiesFit
  <2>2. dpTrips' = dpTrips
    BY DEF PanelOnly
  <2> QED
    BY <2>1, <2>2 DEF CopyAfter, Copy, Marked
<1>5. CopiesFit'
  BY <1>2, <1>3, <1>4 DEF CopiesFit
<1>6. FormsFit'
  BY DEF PanelInv, PanelOnly, FormsFit, Fits, Own
<1>7. dpSnapshot' \in Trips \cup {NoTrip}
  BY DEF Copy
<1>8. PanelTyped'
  BY <1>7 DEF PanelInv, PanelTyped, PanelOnly
<1> QED
  BY <1>5, <1>6, <1>8 DEF PanelInv

\* A step that leaves the calls alone, and the draft too while the panel is busy.
LEMMA QuietKeeps ==
  ASSUME PanelInv, PanelOnly, UNCHANGED <<dpLogin, dpCalls, dpStray>>, dpDraft' \in Drafts, Fits(dpDraft'),
         dpDraft' = dpDraft \/ (~Busy /\ dpDraft'.pending = dpDraft.pending /\ dpDraft'.arrival = dpDraft.arrival),
         dpSnapshot' = NoTrip \/ Copy(dpSnapshot')
  PROVE  PanelInv'
<1>1. OneAwaited' /\ AnswersFit'
  <2>1. CASE dpDraft' = dpDraft
    <3>1. OneAwaited'
      BY <2>1 DEF PanelInv, PanelOnly, OneAwaited, Busy
    <3>2. AnswersFit'
      BY <2>1 DEF PanelInv, PanelOnly, AnswersFit, Own
    <3> QED
      BY <3>1, <3>2
  <2>2. CASE ~Busy /\ dpDraft'.pending = dpDraft.pending /\ dpDraft'.arrival = dpDraft.arrival
    <3>1. \A call \in dpCalls : call.login # dpLogin
      BY <2>2, FreeAwaitsNone
    <3>2. OneAwaited'
      BY <2>2, <3>1 DEF PanelInv, PanelOnly, OneAwaited, Busy
    <3>3. AnswersFit'
      BY <3>1 DEF PanelInv, PanelOnly, AnswersFit
    <3> QED
      BY <3>2, <3>3
  <2> QED
    BY <2>1, <2>2
<1>2. dpStray' = {}
  BY DEF PanelInv
<1> QED
  BY <1>1, <1>2, PanelKeeps DEF PanelInv, PanelTyped

\* The draft waits for a call of that name.
Waits(name, draft) == IF name = "wifi" THEN draft.pending = "" /\ draft.arrival ELSE draft.pending # "" /\ ~draft.arrival

LEMMA SendKeeps ==
  ASSUME PanelInv, ~Busy, NEW name \in Asks, NEW draft \in Drafts, Send(name, draft, {}),
         draft.version = dpDraft.version, draft.previewed = dpDraft.previewed, draft.trip = dpDraft.trip, draft.superseded = dpDraft.superseded,
         Waits(name, draft),
         name # "preview" => dpDraft.trip # NoTrip
  PROVE  PanelInv' /\ ShowsOn
<1>1. PanelOnly /\ dpLogin' = dpLogin /\ dpSnapshot' = dpSnapshot /\ dpStray' = {} /\ dpDraft' = draft
  BY DEF Send, PanelInv
<1>2. PICK new : new = [name |-> name, trip |-> [id |-> dpDraft.trip.id, rev |-> dpDraft.trip.rev], version |-> dpDraft.version, login |-> dpLogin,
                        answer |-> "none", result |-> NoTrip]
  OBVIOUS
<1>3. dpDraft.trip.rev \in Nat
  <2>1. dpDraft.trip \in Trips \cup {NoTrip}
    BY DEF PanelInv, PanelTyped, Drafts
  <2> QED
    BY <2>1 DEF Trips, NoTrip
<1>4. new \in Requests /\ new.name = name /\ new.trip.id = dpDraft.trip.id /\ new.version = dpDraft.version /\ new.login = dpLogin /\ new.answer = "none"
  BY <1>2, <1>3, PanelReads DEF Requests
<1>5. dpCalls' = dpCalls \cup {new}
  BY <1>2 DEF Send
<1>6. \A call \in dpCalls : call.login # dpLogin
  BY FreeAwaitsNone
<1>7. dpDraft.trip # NoTrip => dpDraft.trip.id \in DOMAIN dpTrips
  BY DEF PanelInv, CopiesFit, Copy
<1>8. OneAwaited'
  <2>1. \A call, other \in dpCalls' : call.login = dpLogin' /\ other.login = dpLogin' => call = other
    BY <1>1, <1>5, <1>6
  <2>2. ASSUME NEW call \in dpCalls'
        PROVE  /\ call.login <= dpLogin
               /\ call.name # "preview" => call.trip.id \in DOMAIN dpTrips
               /\ call.login = dpLogin =>
                    /\ Waits(call.name, draft)
                    /\ call.version = draft.version /\ call.trip.id = draft.trip.id
    <3>1. CASE call = new
      <4>1. dpLogin <= dpLogin
        BY PanelReads
      <4> QED
        BY <1>4, <1>7, <3>1, <4>1
    <3>2. CASE call \in dpCalls
      BY <1>6, <3>2 DEF PanelInv, OneAwaited
    <3> QED
      BY <1>5, <3>1, <3>2
  <2>3. \E call \in dpCalls' : call.login = dpLogin'
    BY <1>1, <1>4, <1>5
  <2> QED
    BY <1>1, <2>1, <2>2, <2>3 DEF OneAwaited, PanelOnly, Waits
<1>9. AnswersFit'
  <2>1. \A call \in dpCalls' : call.answer = "trip" => call \in dpCalls /\ call.login # dpLogin
    BY <1>4, <1>5, <1>6
  <2> QED
    BY <1>1, <2>1 DEF PanelInv, AnswersFit
<1>10. Fits(draft)
  BY DraftFits DEF Fits
<1>11. PanelInv'
  BY <1>1, <1>4, <1>5, <1>8, <1>9, <1>10, PanelKeeps DEF PanelInv, CopiesFit
<1> QED
  BY <1>1, <1>11, RestShowsOn

LEMMA SendsKeep ==
  ASSUME PanelInv, AskPreview \/ Retry \/ SelectRoute \/ \E name \in Commands : Act(name)
  PROVE  PanelInv' /\ ShowsOn
<1>1. dpDraft \in Drafts
  BY PanelReads
<1>2. CASE AskPreview
  <2>1. PICK draft : draft = [dpDraft EXCEPT !.retry = "", !.pending = "preview"]
    OBVIOUS
  <2>2. /\ draft \in Drafts /\ draft.pending = "preview" /\ draft.arrival = dpDraft.arrival /\ draft.version = dpDraft.version
        /\ draft.previewed = dpDraft.previewed /\ draft.trip = dpDraft.trip /\ draft.superseded = dpDraft.superseded
    BY <1>1, <2>1 DEF Drafts
  <2>3. ~Busy /\ Send("preview", draft, {})
    BY <1>2, <2>1 DEF AskPreview
  <2>4. Waits("preview", draft)
    BY <2>2, <2>3 DEF Waits, Busy
  <2>5. "preview" \in Asks
    BY DEF Asks
  <2> QED
    BY <2>2, <2>3, <2>4, <2>5, SendKeeps
<1>3. CASE Retry
  <2>1. PICK draft : draft = [dpDraft EXCEPT !.pending = "retry"]
    OBVIOUS
  <2>2. /\ draft \in Drafts /\ draft.pending = "retry" /\ draft.arrival = dpDraft.arrival /\ draft.version = dpDraft.version
        /\ draft.previewed = dpDraft.previewed /\ draft.trip = dpDraft.trip /\ draft.superseded = dpDraft.superseded
    BY <1>1, <2>1 DEF Drafts
  <2>3. ~Busy /\ Send("read", draft, {}) /\ dpDraft.trip # NoTrip
    BY <1>3, <2>1 DEF Retry
  <2>4. Waits("read", draft)
    BY <2>2, <2>3 DEF Waits, Busy
  <2>5. "read" \in Asks
    BY DEF Asks
  <2> QED
    BY <2>2, <2>3, <2>4, <2>5, SendKeeps
<1>4. CASE SelectRoute
  <2>1. ~Busy /\ dpDraft.trip # NoTrip
    BY <1>4 DEF SelectRoute, NoTrip
  <2>2. CASE Send("route", [dpDraft EXCEPT !.pending = "route"], {})
    <3>1. PICK draft : draft = [dpDraft EXCEPT !.pending = "route"]
      OBVIOUS
    <3>2. /\ draft \in Drafts /\ draft.pending = "route" /\ draft.arrival = dpDraft.arrival /\ draft.version = dpDraft.version
          /\ draft.previewed = dpDraft.previewed /\ draft.trip = dpDraft.trip /\ draft.superseded = dpDraft.superseded
      BY <1>1, <3>1 DEF Drafts
    <3>3. Waits("route", draft) /\ "route" \in Asks
      BY <2>1, <3>2 DEF Waits, Busy, Asks
    <3> QED
      BY <2>1, <2>2, <3>1, <3>2, <3>3, SendKeeps
  <2>3. CASE Send("wifi", [dpDraft EXCEPT !.arrival = TRUE], {})
    <3>1. PICK draft : draft = [dpDraft EXCEPT !.arrival = TRUE]
      OBVIOUS
    <3>2. /\ draft \in Drafts /\ draft.pending = dpDraft.pending /\ draft.arrival = TRUE /\ draft.version = dpDraft.version
          /\ draft.previewed = dpDraft.previewed /\ draft.trip = dpDraft.trip /\ draft.superseded = dpDraft.superseded
      BY <1>1, <3>1 DEF Drafts
    <3>3. Waits("wifi", draft) /\ "wifi" \in Asks
      BY <2>1, <3>2 DEF Waits, Busy, Asks
    <3> QED
      BY <2>1, <2>3, <3>1, <3>2, <3>3, SendKeeps
  <2> QED
    BY <1>4, <2>2, <2>3 DEF SelectRoute
<1>5. ASSUME NEW name \in Commands, Act(name) PROVE PanelInv' /\ ShowsOn
  <2>1. PICK draft : draft = [dpDraft EXCEPT !.retry = "", !.pending = name]
    OBVIOUS
  <2>2. /\ draft \in Drafts /\ draft.pending = name /\ draft.arrival = dpDraft.arrival /\ draft.version = dpDraft.version
        /\ draft.previewed = dpDraft.previewed /\ draft.trip = dpDraft.trip /\ draft.superseded = dpDraft.superseded
    BY <1>1, <2>1 DEF Drafts
  <2>3. ~Busy /\ dpDraft.trip # NoTrip /\ (name = "start" => ~Dirty) /\ Send(name, draft, Astray(name))
    BY <1>5, <2>1 DEF Act, Offered
  <2>4. name \in Asks /\ name # "" /\ name # "wifi"
    BY DEF Asks, Commands
  <2>5. Waits(name, draft)
    BY <2>2, <2>3, <2>4 DEF Waits, Busy
  <2>6. Astray(name) = {}
    <3>1. ASSUME name = "start", dpDraft.trip.login = dpLogin, dpDraft.trip.form # Foreign
          PROVE  dpDraft.trip.form = dpDraft.version
      <4>1. PICK i \in DOMAIN dpTrips : i = dpDraft.trip.id /\ dpDraft.trip.form = dpTrips[i].form /\ dpDraft.trip.login = dpTrips[i].login
        BY <2>3 DEF PanelInv, CopiesFit, Copy
      <4>2. i \in Nat /\ dpDraft.version \in Nat /\ dpTrips[i].form \in Nat \cup {-1}
        BY PanelReads
      <4>3. dpTrips[i].form <= dpDraft.version /\ dpTrips[i].form >= dpDraft.previewed
        BY <3>1, <4>1, <4>2 DEF PanelInv, FormsFit, Own
      <4>4. dpDraft.previewed = dpDraft.version
        BY <2>3, <3>1 DEF Dirty
      <4> QED
        BY <4>1, <4>2, <4>3, <4>4
    <3> QED
      BY <3>1 DEF Astray
  <2> QED
    BY <2>2, <2>3, <2>4, <2>5, <2>6, SendKeeps
<1> QED
  BY <1>2, <1>3, <1>4, <1>5

LEMMA EditsKeep ==
  ASSUME PanelInv, SetDraft \/ EditStop
  PROVE  PanelInv' /\ ShowsOn
<1>1. PanelOnly /\ UNCHANGED <<dpLogin, dpCalls, dpStray, dpSnapshot>> /\ ~Busy
  BY DEF SetDraft, EditStop
<1>2. dpDraft \in Drafts /\ dpDraft.version + 1 \in Nat /\ dpDraft.version \in Nat /\ dpDraft.previewed \in Nat \cup {-1}
  BY PanelReads
<1>3. PICK draft : draft = dpDraft' /\ draft \in {[dpDraft EXCEPT !.version = @ + 1, !.retry = ""], [dpDraft EXCEPT !.version = @ + 1]}
  BY DEF SetDraft, EditStop
<1>4. /\ draft \in Drafts /\ draft.version = dpDraft.version + 1 /\ draft.previewed = dpDraft.previewed /\ draft.trip = dpDraft.trip
      /\ draft.superseded = dpDraft.superseded /\ draft.pending = dpDraft.pending /\ draft.arrival = dpDraft.arrival
  BY <1>2, <1>3 DEF Drafts
<1>5. Fits(draft)
  <2>1. Fits(dpDraft)
    BY DraftFits
  <2>2. draft.previewed <= draft.version
    BY <1>2, <1>4, <2>1 DEF Fits
  <2>3. \A i \in DOMAIN dpTrips : Own(i) => dpTrips[i].form <= draft.version
    <3> SUFFICES ASSUME NEW i \in DOMAIN dpTrips, Own(i) PROVE dpTrips[i].form <= draft.version
      OBVIOUS
    <3>1. dpTrips[i].form \in Nat \cup {-1} /\ dpTrips[i].form <= dpDraft.version
      BY <2>1, PanelReads DEF Fits
    <3> QED
      BY <1>2, <1>4, <3>1
  <2> QED
    BY <1>4, <2>1, <2>2, <2>3 DEF Fits
<1>6. dpSnapshot' = NoTrip \/ Copy(dpSnapshot')
  BY <1>1 DEF PanelInv, CopiesFit
<1>7. PanelInv'
  BY <1>1, <1>3, <1>4, <1>5, <1>6, QuietKeeps
<1> QED
  BY <1>3, <1>4, <1>7, RestShowsOn

LEMMA ScreensKeep ==
  ASSUME PanelInv, Select \/ MakeSnapshot
  PROVE  PanelInv' /\ ShowsOn
<1>1. PanelOnly /\ UNCHANGED <<dpLogin, dpCalls, dpStray, dpDraft>>
  BY DEF Select, MakeSnapshot, PanelOnly
<1>2. dpSnapshot' = NoTrip \/ Copy(dpSnapshot')
  <2>1. CASE Select
    BY <2>1 DEF Select, PanelInv, CopiesFit
  <2>2. CASE MakeSnapshot
    <3>1. Len(dpTrips) \in DOMAIN dpTrips
      BY <2>2, PanelReads DEF MakeSnapshot
    <3> QED
      BY <2>2, <3>1 DEF MakeSnapshot, PanelInv, CopiesFit
  <2> QED
    BY <2>1, <2>2
<1>3. PanelInv'
  BY <1>1, <1>2, DraftFits, PanelReads, QuietKeeps
<1> QED
  BY <1>1, <1>3, RestShowsOn

LEMMA LoginKeeps ==
  ASSUME PanelInv, Login
  PROVE  PanelInv' /\ ShowsOn
<1>1. /\ dpLogin' = dpLogin + 1 /\ dpDraft' = NoDraft /\ dpSnapshot' = NoTrip /\ dpStray' = {}
      /\ dpTrips' = dpTrips /\ dpWrites' = dpWrites /\ dpLost' = dpLost /\ dpDone' = dpDone /\ dpCalls' = dpCalls
  BY DEF Login, PanelOnly, PanelInv
<1>2. dpLogin \in Nat /\ dpLogin + 1 \in Nat /\ dpLogin' # dpLogin
  BY <1>1, PanelReads
<1>3. NoDraft \in Drafts /\ NoDraft.trip = NoTrip /\ NoDraft.superseded = {} /\ NoDraft.previewed = -1 /\ NoDraft.version = 0
      /\ NoDraft.pending = "" /\ ~NoDraft.arrival
  BY DEF NoDraft, Drafts
<1>4. \A call \in dpCalls : call.login \in Nat /\ call.login <= dpLogin /\ call.login # dpLogin + 1 /\ call.login <= dpLogin + 1
  <2> SUFFICES ASSUME NEW call \in dpCalls PROVE call.login \in Nat /\ call.login <= dpLogin
    BY <1>2
  <2> QED
    BY DEF PanelInv, PanelTyped, OneAwaited, Requests
<1>5. \A i \in DOMAIN dpTrips : dpTrips[i].login # dpLogin + 1 /\ dpTrips[i].login <= dpLogin + 1
  <2> SUFFICES ASSUME NEW i \in DOMAIN dpTrips PROVE dpTrips[i].login \in Nat /\ dpTrips[i].login <= dpLogin
    BY <1>2
  <2> QED
    BY PanelReads DEF PanelInv, FormsFit
<1>6. PanelTyped'
  BY <1>1, <1>2, <1>3 DEF PanelInv, PanelTyped
<1>7. CopiesFit'
  BY <1>1, <1>3 DEF PanelInv, CopiesFit, Copy, Marked
<1>8. OneAwaited'
  BY <1>1, <1>3, <1>4 DEF PanelInv, OneAwaited, Busy
<1>9. AnswersFit'
  BY <1>1, <1>4 DEF PanelInv, AnswersFit
<1>10. FormsFit'
  <2>1. dpDraft'.previewed <= dpDraft'.version /\ dpDraft'.superseded = {}
    <3>1. dpDraft'.previewed = -1
      BY <1>1, <1>3
    <3>2. dpDraft'.version = 0
      BY <1>1, <1>3
    <3>3. dpDraft'.superseded = {}
      BY <1>1, <1>3
    <3> QED
      BY <3>1, <3>2, <3>3
  <2>2. \A i \in DOMAIN dpTrips' : dpTrips'[i].login <= dpLogin' /\ dpTrips'[i].login # dpLogin'
    BY <1>1, <1>5
  <2> QED
    BY <2>1, <2>2 DEF FormsFit, Own
<1>11. ShowsOn
  BY <1>2 DEF ShowsOn
<1> QED
  BY <1>1, <1>6, <1>7, <1>8, <1>9, <1>10, <1>11 DEF PanelInv

-----------------------------------------------------------------------------
(* What is stored is not older than what is shown.                         *)

\* The draft shows no less than the panel did.
ShowsNoLess(draft) ==
  draft.trip.id > dpDraft.trip.id \/ (draft.trip.id = dpDraft.trip.id /\ draft.trip.at >= dpDraft.trip.at)

LEMMA Stored ==
  ASSUME PanelInv, NEW trip, Copy(trip), trip.id >= dpDraft.trip.id, NEW draft \in Drafts, draft.trip = dpDraft.trip,
         draft.superseded = dpDraft.superseded, NEW after, after = StoreTrip(draft, trip)
  PROVE  /\ after \in Drafts /\ after.version = draft.version /\ after.previewed = draft.previewed /\ after.pending = draft.pending
         /\ after.arrival = draft.arrival /\ after.retry = draft.retry
         /\ after.trip = NoTrip \/ Copy(after.trip)
         /\ ShowsNoLess(after)
         /\ after.trip.id \in Nat /\ after.trip.id >= dpDraft.trip.id
         /\ \A pair \in after.superseded : pair[1] <= after.trip.id
         /\ trip.id > dpDraft.trip.id /\ trip.at >= dpDraft.trip.at => after.trip = trip
<1>1. /\ dpDraft.trip.id \in Nat /\ dpDraft.trip.at \in Nat /\ trip \in Trips /\ trip.id \in Nat /\ trip.at \in Nat /\ trip.rev \in Nat
      /\ dpDraft.trip = NoTrip \/ Copy(dpDraft.trip)
      /\ \A pair \in dpDraft.superseded : pair[1] <= dpDraft.trip.id /\ pair \in Nat \X Nat
  <2>1. trip \in Trips /\ trip.id \in Nat /\ trip.at \in Nat /\ trip.rev \in Nat
    BY DEF Copy, Trips
  <2>2. \A pair \in dpDraft.superseded : pair[1] <= dpDraft.trip.id /\ pair \in Nat \X Nat
    BY DEF PanelInv, PanelTyped, FormsFit, Drafts
  <2>3. dpDraft.trip = NoTrip \/ Copy(dpDraft.trip)
    BY DEF PanelInv, CopiesFit
  <2> QED
    BY <2>1, <2>2, <2>3, PanelReads
<1>2. CASE StaleTrip(trip)
  <2>1. after = draft
    BY <1>2 DEF StoreTrip
  <2>2. ~(trip.id > dpDraft.trip.id /\ trip.at >= dpDraft.trip.at)
    <3>1. ASSUME <<trip.id, trip.rev>> \in dpDraft.superseded PROVE trip.id <= dpDraft.trip.id
      BY <1>1, <3>1
    <3> QED
      BY <1>1, <1>2, <3>1 DEF StaleTrip
  <2>3. ShowsNoLess(after)
    BY <1>1, <2>1 DEF ShowsNoLess
  <2> QED
    BY <1>1, <2>1, <2>2, <2>3
<1>3. CASE ~StaleTrip(trip)
  <2>1. PICK old : old = dpDraft.trip
    OBVIOUS
  <2>2. PICK more : more = draft.superseded \cup (IF old # NoTrip /\ <<old.id, old.rev>> # <<trip.id, trip.rev>> THEN {<<old.id, old.rev>>} ELSE {})
    OBVIOUS
  <2>3. after = [draft EXCEPT !.trip = trip, !.superseded = more]
    BY <1>3, <2>1, <2>2 DEF StoreTrip
  <2>4. \A pair \in more : pair[1] <= dpDraft.trip.id /\ pair \in Nat \X Nat
    <3> SUFFICES ASSUME NEW pair \in more, pair \notin dpDraft.superseded PROVE pair[1] <= dpDraft.trip.id /\ pair \in Nat \X Nat
      BY <1>1
    <3>1. pair = <<old.id, old.rev>> /\ old # NoTrip
      BY <2>2
    <3>2. old.id \in Nat /\ old.rev \in Nat
      BY <1>1, <2>1, <3>1 DEF Copy, Trips
    <3> QED
      BY <2>1, <3>1, <3>2
  <2>5. /\ after \in Drafts /\ after.version = draft.version /\ after.previewed = draft.previewed /\ after.pending = draft.pending
        /\ after.arrival = draft.arrival /\ after.retry = draft.retry /\ after.trip = trip /\ after.superseded = more
    <3>1. more \in SUBSET (Nat \X Nat)
      BY <2>4
    <3> QED
      BY <1>1, <2>3, <3>1 DEF Drafts
  <2>6. ShowsNoLess(after)
    BY <1>1, <1>3, <2>5 DEF ShowsNoLess, StaleTrip
  <2>7. \A pair \in after.superseded : pair[1] <= after.trip.id
    <3> SUFFICES ASSUME NEW pair \in more PROVE pair[1] <= trip.id
      BY <2>5
    <3>1. pair[1] \in Nat /\ pair[1] <= dpDraft.trip.id
      BY <2>4
    <3> QED
      BY <1>1, <3>1
  <2> QED
    BY <1>1, <2>5, <2>6, <2>7
<1> QED
  BY <1>2, <1>3

\* A draft that shows no less, and says no more of the form, fits as the draft did.
LEMMA FitsStill ==
  ASSUME PanelInv, NEW after, after.version = dpDraft.version, after.previewed \in Nat \cup {-1}, after.previewed <= after.version,
         after.trip.id \in Nat, after.trip.id >= dpDraft.trip.id, after.trip = NoTrip \/ Copy(after.trip),
         \A pair \in after.superseded : pair[1] <= after.trip.id,
         \A i \in DOMAIN dpTrips : Own(i) /\ i >= after.trip.id => after.previewed = dpDraft.previewed \/ dpTrips[i].form >= after.previewed
  PROVE  Fits(after)
<1>1. \A i \in DOMAIN dpTrips : Own(i) => dpTrips[i].form <= after.version
  BY DraftFits DEF Fits
<1>2. ASSUME NEW i \in DOMAIN dpTrips, Own(i), i >= after.trip.id PROVE dpTrips[i].form >= after.previewed
  <2>1. i >= dpDraft.trip.id
    BY <1>2, PanelReads
  <2> QED
    BY <1>2, <2>1, DraftFits DEF Fits
<1> QED
  BY <1>1, <1>2 DEF Fits

LEMMA TakeKeeps ==
  ASSUME PanelInv, TakeSnapshot
  PROVE  PanelInv' /\ ShowsOn
<1>1. PanelOnly /\ UNCHANGED <<dpLogin, dpCalls, dpStray>> /\ dpSnapshot' = NoTrip
  BY DEF TakeSnapshot
<1>2. CASE ~Adopts(dpSnapshot)
  <2>1. dpDraft' = dpDraft
    BY <1>2 DEF TakeSnapshot
  <2>2. PanelInv'
    BY <1>1, <2>1, DraftFits, PanelReads, QuietKeeps
  <2> QED
    BY <2>1, <2>2, RestShowsOn
<1>3. CASE Adopts(dpSnapshot)
  <2>1. Copy(dpSnapshot) /\ ~Busy
    BY <1>3 DEF TakeSnapshot, Adopts, PanelInv, CopiesFit
  <2>2. dpSnapshot.id >= dpDraft.trip.id
    <3>1. dpSnapshot.id \in Nat
      BY <2>1 DEF Copy, Trips
    <3> QED
      BY <1>3, <3>1 DEF Adopts, NoTrip
  <2>3. PICK stored : stored = StoreTrip(dpDraft, dpSnapshot)
    OBVIOUS
  <2>4. /\ stored \in Drafts /\ stored.version = dpDraft.version /\ stored.previewed = dpDraft.previewed /\ stored.pending = dpDraft.pending
        /\ stored.arrival = dpDraft.arrival
        /\ stored.trip = NoTrip \/ Copy(stored.trip)
        /\ ShowsNoLess(stored)
        /\ stored.trip.id \in Nat /\ stored.trip.id >= dpDraft.trip.id
        /\ \A pair \in stored.superseded : pair[1] <= stored.trip.id
    BY <2>1, <2>2, <2>3, PanelReads, Stored
  <2>5. PICK previewed : previewed = IF dpDraft.trip = NoTrip /\ dpDraft.version = 0 THEN 0 ELSE dpDraft.previewed
    OBVIOUS
  <2>6. PICK after : after = [stored EXCEPT !.previewed = previewed]
    OBVIOUS
  <2>7. dpDraft' = after
    BY <1>3, <2>3, <2>4, <2>5, <2>6 DEF TakeSnapshot, Drafts
  <2>8. previewed \in Nat \cup {-1} /\ previewed <= dpDraft.version
    <3>1. dpDraft.previewed \in Nat \cup {-1} /\ dpDraft.version \in Nat /\ dpDraft.previewed <= dpDraft.version
      BY DraftFits, PanelReads DEF Fits
    <3> QED
      BY <2>5, <3>1
  <2>9. /\ after \in Drafts /\ after.version = dpDraft.version /\ after.previewed = previewed /\ after.pending = dpDraft.pending
        /\ after.arrival = dpDraft.arrival /\ after.trip = stored.trip /\ after.superseded = stored.superseded
    BY <2>4, <2>6, <2>8 DEF Drafts
  <2>10. \A i \in DOMAIN dpTrips : Own(i) => previewed = dpDraft.previewed \/ dpTrips[i].form >= previewed
    <3> SUFFICES ASSUME NEW i \in DOMAIN dpTrips, Own(i), previewed = 0 PROVE dpTrips[i].form >= 0
      BY <2>5
    <3>1. dpTrips[i].form \in Nat
      BY PanelReads DEF Own, Foreign
    <3> QED
      BY <3>1
  <2>11. Fits(after)
    BY <2>4, <2>8, <2>9, <2>10, FitsStill
  <2>12. PanelInv'
    BY <1>1, <2>1, <2>7, <2>9, <2>11, QuietKeeps
  <2>13. ShowsOn
    BY <2>4, <2>7, <2>9 DEF ShowsOn, ShowsNoLess
  <2> QED
    BY <2>12, <2>13
<1> QED
  BY <1>2, <1>3

-----------------------------------------------------------------------------
(* Answers.                                                                *)

\* The draft is released, and still fits, when its call is over.
LEMMA OverFits ==
  ASSUME PanelInv, NEW call \in dpCalls, call.answer # "none", call.login = dpLogin, NEW after, after = Over(call)
  PROVE  /\ after \in Drafts /\ after.version = dpDraft.version /\ after.pending = "" /\ after.arrival = FALSE
         /\ Fits(after) /\ ShowsNoLess(after)
<1>1. call \in Requests /\ call.name \in Asks /\ call.answer \in {"trip", "error"}
  BY DEF PanelInv, PanelTyped, Requests
<1>2. /\ IF call.name = "wifi" THEN dpDraft.pending = "" /\ dpDraft.arrival ELSE dpDraft.pending # "" /\ ~dpDraft.arrival
      /\ call.version = dpDraft.version /\ call.trip.id = dpDraft.trip.id
  BY DEF PanelInv, OneAwaited
<1>3. dpDraft \in Drafts /\ dpDraft.version \in Nat /\ dpDraft.trip.id \in Nat /\ dpDraft.trip.at \in Nat /\ dpDraft.arrival \in BOOLEAN
  BY PanelReads DEF Drafts
<1>4. PICK done : done = [dpDraft EXCEPT !.pending = IF call.name = "wifi" THEN @ ELSE "", !.arrival = IF call.name = "wifi" THEN FALSE ELSE @]
  OBVIOUS
<1>5. /\ done \in Drafts /\ done.version = dpDraft.version /\ done.previewed = dpDraft.previewed /\ done.trip = dpDraft.trip
      /\ done.superseded = dpDraft.superseded /\ done.pending = "" /\ done.arrival = FALSE
  <2>1. PICK pending : pending = IF call.name = "wifi" THEN dpDraft.pending ELSE ""
    OBVIOUS
  <2>2. PICK arrival : arrival = IF call.name = "wifi" THEN FALSE ELSE dpDraft.arrival
    OBVIOUS
  <2>3. pending = ""
    BY <1>2, <2>1
  <2>4. arrival = FALSE
    BY <1>2, <1>3, <2>2
  <2>5. done = [dpDraft EXCEPT !.pending = pending, !.arrival = arrival]
    BY <1>3, <1>4, <2>1, <2>2 DEF Drafts
  <2> QED
    BY <1>3, <2>3, <2>4, <2>5 DEF Drafts
<1>6. ASSUME after \in Drafts, after.version = dpDraft.version, after.previewed = dpDraft.previewed, after.trip = dpDraft.trip,
             after.superseded = dpDraft.superseded
      PROVE  Fits(after) /\ ShowsNoLess(after)
  <2>1. Fits(after)
    BY <1>6, DraftFits DEF Fits
  <2> QED
    BY <1>3, <1>6, <2>1 DEF ShowsNoLess
<1>7. PICK stored : stored = StoreTrip(done, call.result)
  OBVIOUS
<1>8. ASSUME call.answer = "trip"
      PROVE  /\ Copy(call.result)
             /\ call.name # "preview" => call.result.id = dpDraft.trip.id
             /\ call.name = "preview" =>
                  /\ call.result.id > dpDraft.trip.id /\ call.result.at >= dpDraft.trip.at
                  /\ \A i \in DOMAIN dpTrips : i >= call.result.id /\ Own(i) => dpTrips[i].form >= dpDraft.version
             /\ call.result.id >= dpDraft.trip.id
  <2>1. Copy(call.result)
    BY <1>8 DEF PanelInv, CopiesFit
  <2>2. call.name # "preview" => call.result.id = dpDraft.trip.id
    BY <1>2, <1>8 DEF PanelInv, AnswersFit
  <2>3. call.name = "preview" =>
          /\ call.result.id > dpDraft.trip.id /\ call.result.at >= dpDraft.trip.at
          /\ \A i \in DOMAIN dpTrips : i >= call.result.id /\ Own(i) => dpTrips[i].form >= dpDraft.version
    BY <1>2, <1>8 DEF PanelInv, AnswersFit
  <2>4. call.result.id \in Nat
    BY <2>1 DEF Copy, Trips
  <2>5. call.result.id >= dpDraft.trip.id
    BY <1>3, <2>2, <2>3, <2>4
  <2> QED
    BY <2>1, <2>2, <2>3, <2>5
<1>9. ASSUME call.answer = "trip"
      PROVE  /\ stored \in Drafts /\ stored.version = dpDraft.version /\ stored.previewed = dpDraft.previewed /\ stored.pending = ""
             /\ stored.arrival = FALSE
             /\ stored.trip = NoTrip \/ Copy(stored.trip)
             /\ ShowsNoLess(stored)
             /\ stored.trip.id \in Nat /\ stored.trip.id >= dpDraft.trip.id
             /\ \A pair \in stored.superseded : pair[1] <= stored.trip.id
             /\ call.name = "preview" => stored.trip = call.result
  <2>1. Copy(call.result) /\ call.result.id >= dpDraft.trip.id
    BY <1>8, <1>9
  <2>2. call.name = "preview" => call.result.id > dpDraft.trip.id /\ call.result.at >= dpDraft.trip.at
    BY <1>8, <1>9
  <2>3. PICK result : result = call.result
    OBVIOUS
  <2>4. done \in Drafts /\ done.trip = dpDraft.trip /\ done.superseded = dpDraft.superseded
    BY <1>5
  <2>5. stored = StoreTrip(done, result)
    BY <1>7, <2>3
  <2>6. /\ stored \in Drafts /\ stored.version = done.version /\ stored.previewed = done.previewed /\ stored.pending = done.pending
        /\ stored.arrival = done.arrival
        /\ stored.trip = NoTrip \/ Copy(stored.trip)
        /\ ShowsNoLess(stored)
        /\ stored.trip.id \in Nat /\ stored.trip.id >= dpDraft.trip.id
        /\ \A pair \in stored.superseded : pair[1] <= stored.trip.id
        /\ result.id > dpDraft.trip.id /\ result.at >= dpDraft.trip.at => stored.trip = result
    BY <2>1, <2>3, <2>4, <2>5, Stored
  <2> QED
    BY <1>5, <2>2, <2>3, <2>6
<1>10. ASSUME call.answer = "trip" PROVE Fits(stored)
  <2>1. dpDraft.previewed \in Nat \cup {-1} /\ dpDraft.previewed <= dpDraft.version
    BY DraftFits, PanelReads DEF Fits
  <2> QED
    BY <1>9, <1>10, <2>1, FitsStill
<1>11. CASE call.answer = "error"
  <2>1. PICK retry : retry = IF call.name \in Commands \cup {"preview"} THEN call.name ELSE done.retry
    OBVIOUS
  <2>2. retry \in {"", "preview"} \cup Commands
    BY <1>5, <2>1 DEF Drafts
  <2>3. after = [done EXCEPT !.retry = retry]
    BY <1>4, <1>5, <1>11, <2>1 DEF Over, Drafts
  <2>4. /\ after \in Drafts /\ after.version = dpDraft.version /\ after.previewed = dpDraft.previewed /\ after.trip = dpDraft.trip
        /\ after.superseded = dpDraft.superseded /\ after.pending = "" /\ after.arrival = FALSE
    BY <1>5, <2>2, <2>3 DEF Drafts
  <2> QED
    BY <1>6, <2>4
<1>12. CASE call.answer = "trip" /\ call.name = "preview"
  <2>1. after = [stored EXCEPT !.previewed = call.version]
    BY <1>2, <1>4, <1>7, <1>12 DEF Over
  <2>2. /\ after \in Drafts /\ after.version = dpDraft.version /\ after.previewed = dpDraft.version /\ after.pending = ""
        /\ after.arrival = FALSE /\ after.trip = call.result /\ after.trip = stored.trip /\ after.superseded = stored.superseded
    BY <1>2, <1>3, <1>9, <1>12, <2>1 DEF Drafts
  <2>3. \A i \in DOMAIN dpTrips : Own(i) /\ i >= after.trip.id => dpTrips[i].form >= after.previewed
    <3>1. \A i \in DOMAIN dpTrips : i >= call.result.id /\ Own(i) => dpTrips[i].form >= dpDraft.version
      BY <1>8, <1>12
    <3>2. after.trip.id = call.result.id /\ after.previewed = dpDraft.version
      BY <2>2
    <3> QED
      BY <3>1, <3>2
  <2>4. after.previewed \in Nat \cup {-1} /\ after.previewed <= after.version
    <3>1. after.previewed = dpDraft.version /\ after.version = dpDraft.version
      BY <2>2
    <3>2. dpDraft.version \in Nat
      BY PanelReads
    <3> QED
      BY <3>1, <3>2
  <2>5. /\ after.trip.id \in Nat /\ after.trip.id >= dpDraft.trip.id
        /\ after.trip = NoTrip \/ Copy(after.trip)
        /\ \A pair \in after.superseded : pair[1] <= after.trip.id
    BY <1>9, <1>12, <2>2
  <2>6. Fits(after)
    BY <2>2, <2>3, <2>4, <2>5, FitsStill
  <2>7. ShowsNoLess(after)
    BY <1>9, <1>12, <2>2 DEF ShowsNoLess
  <2> QED
    BY <2>2, <2>6, <2>7
<1>13. CASE call.answer = "trip" /\ call.name = "read"
  <2>1. after = [stored EXCEPT !.retry = ""]
    BY <1>2, <1>4, <1>7, <1>13 DEF Over
  <2>2. /\ after \in Drafts /\ after.version = stored.version /\ after.previewed = stored.previewed /\ after.pending = ""
        /\ after.arrival = FALSE /\ after.trip = stored.trip /\ after.superseded = stored.superseded
    BY <1>9, <1>13, <2>1 DEF Drafts
  <2>3. Fits(after) /\ ShowsNoLess(after)
    BY <1>9, <1>10, <1>13, <2>2 DEF Fits, ShowsNoLess
  <2> QED
    BY <1>9, <1>13, <2>2, <2>3
<1>14. CASE call.answer = "trip" /\ call.name \notin {"preview", "read"}
  <2>1. after = stored
    BY <1>2, <1>4, <1>7, <1>14 DEF Over
  <2> QED
    BY <1>9, <1>10, <1>14, <2>1
<1> QED
  BY <1>1, <1>11, <1>12, <1>13, <1>14

LEMMA AnswerKeeps ==
  ASSUME PanelInv, NEW call \in dpCalls, Answer(call)
  PROVE  PanelInv' /\ ShowsOn
<1>1. PanelOnly /\ dpLogin' = dpLogin /\ dpSnapshot' = dpSnapshot /\ call.answer # "none"
  BY DEF Answer
<1>2. PICK after : after = IF StillValid(call) THEN Over(call) ELSE dpDraft
  OBVIOUS
<1>3. dpSnapshot' = NoTrip \/ Copy(dpSnapshot')
  BY <1>1 DEF PanelInv, CopiesFit
<1>4. CASE call.login # dpLogin
  <2>1. dpDraft' = dpDraft /\ dpCalls' = dpCalls \ {call} /\ dpStray' = dpStray
    BY <1>4 DEF Answer, StillValid
  <2>2. OneAwaited'
    BY <1>1, <1>4, <2>1 DEF PanelInv, PanelOnly, OneAwaited, Busy
  <2>3. AnswersFit'
    BY <1>1, <2>1 DEF PanelInv, PanelOnly, AnswersFit, Own
  <2>4. PanelInv'
    BY <1>1, <1>3, <2>1, <2>2, <2>3, DraftFits, PanelReads, PanelKeeps DEF PanelInv
  <2> QED
    BY <2>1, <2>4, RestShowsOn
<1>5. CASE call.login = dpLogin
  <2>1. after = Over(call)
    BY <1>2, <1>5 DEF StillValid
  <2>2. /\ after \in Drafts /\ after.version = dpDraft.version /\ after.pending = "" /\ after.arrival = FALSE
        /\ Fits(after) /\ ShowsNoLess(after)
    BY <1>1, <1>5, <2>1, OverFits
  <2>3. PICK left : left = dpCalls \ {call}
    OBVIOUS
  <2>4. \A other \in left : other \in dpCalls /\ other.login # dpLogin
    BY <1>5, <2>3 DEF PanelInv, OneAwaited
  <2>5. PICK again : again = [call EXCEPT !.name = dpDraft.retry, !.trip = [id |-> after.trip.id, rev |-> after.trip.rev], !.version = dpDraft.version,
                                          !.answer = "none", !.result = NoTrip]
    OBVIOUS
  <2>6. CASE /\ Repeats(call, after.trip)
             /\ dpDraft' = [after EXCEPT !.pending = dpDraft.retry] /\ dpCalls' = left \cup {again}
             /\ dpStray' = dpStray \cup (IF <<dpDraft.retry, after.trip.id, after.trip.rev>> \in dpDone THEN {"repeated"} ELSE {})
    <3>1. dpDraft.retry \in Commands \ {"adopt-anchor"} /\ after.trip.status \in Allowed(dpDraft.retry)
      BY <2>6 DEF Repeats
    <3>2. Copy(after.trip)
      <4>1. "NONE" \notin Allowed(dpDraft.retry)
        BY <3>1, StatusesFit
      <4>2. after.trip # NoTrip
        BY <3>1, <4>1 DEF NoTrip
      <4> QED
        BY <2>2, <4>2 DEF Fits
    <3>3. dpStray' = {}
      BY <2>6, <3>1, <3>2 DEF PanelInv, Copy, Marked
    <3>4. dpDraft.retry \in Asks /\ dpDraft.retry # "" /\ dpDraft.retry # "wifi" /\ dpDraft.retry \in Commands
      BY <3>1 DEF Asks, Commands
    <3>5. after.trip.id \in Nat /\ after.trip.rev \in Nat /\ after.trip.id \in DOMAIN dpTrips
      BY <3>2 DEF Copy, Trips
    <3>6. /\ again \in Requests /\ again.name = dpDraft.retry /\ again.trip.id = after.trip.id /\ again.version = dpDraft.version
          /\ again.login = dpLogin /\ again.answer = "none"
      <4>1. call \in Requests /\ dpDraft.version \in Nat
        BY PanelReads DEF PanelInv, PanelTyped
      <4> QED
        BY <1>5, <2>5, <3>4, <3>5, <4>1 DEF Requests
    <3>7. /\ dpDraft' \in Drafts /\ dpDraft'.version = dpDraft.version /\ dpDraft'.pending = dpDraft.retry /\ dpDraft'.arrival = FALSE
          /\ dpDraft'.trip = after.trip /\ dpDraft'.previewed = after.previewed /\ dpDraft'.superseded = after.superseded
      BY <2>2, <2>6, <3>4 DEF Drafts
    <3>8. Fits(dpDraft')
      BY <2>2, <3>7 DEF Fits
    <3>9. OneAwaited'
      <4>1. \A c, other \in dpCalls' : c.login = dpLogin' /\ other.login = dpLogin' => c = other
        BY <1>1, <2>4, <2>6
      <4>2. ASSUME NEW c \in dpCalls'
            PROVE  /\ c.login <= dpLogin
                   /\ c.name # "preview" => c.trip.id \in DOMAIN dpTrips
                   /\ c.login = dpLogin =>
                        Waits(c.name, dpDraft') /\ c.version = dpDraft'.version /\ c.trip.id = dpDraft'.trip.id
        <5>1. CASE c = again
          <6>1. dpLogin <= dpLogin
            BY PanelReads
          <6>2. Waits(again.name, dpDraft')
            BY <3>4, <3>6, <3>7 DEF Waits
          <6> QED
            BY <3>5, <3>6, <3>7, <5>1, <6>1, <6>2
        <5>2. CASE c \in left
          BY <2>4, <5>2 DEF PanelInv, OneAwaited
        <5> QED
          BY <2>6, <5>1, <5>2
      <4>3. \E c \in dpCalls' : c.login = dpLogin'
        BY <1>1, <2>6, <3>6
      <4> QED
        BY <1>1, <4>1, <4>2, <4>3 DEF OneAwaited, PanelOnly, Waits
    <3>10. AnswersFit'
      <4>1. \A c \in dpCalls' : c.answer = "trip" => c \in dpCalls /\ c.login # dpLogin
        BY <2>4, <2>6, <3>6
      <4> QED
        BY <1>1, <4>1 DEF PanelInv, AnswersFit
    <3>11. PanelInv'
      <4>1. \A c \in dpCalls' : c \in dpCalls \/ (c \in Requests /\ c.answer = "none")
        BY <2>4, <2>6, <3>6
      <4> QED
        BY <1>1, <1>3, <3>3, <3>7, <3>8, <3>9, <3>10, <4>1, PanelKeeps
    <3>12. ShowsOn
      BY <2>2, <3>7 DEF ShowsOn, ShowsNoLess
    <3> QED
      BY <3>11, <3>12
  <2>7. CASE dpDraft' = after /\ dpCalls' = left /\ dpStray' = dpStray
    <3>1. OneAwaited'
      BY <1>1, <2>2, <2>4, <2>7 DEF PanelInv, PanelOnly, OneAwaited, Busy
    <3>2. AnswersFit'
      BY <1>1, <2>4, <2>7 DEF PanelInv, AnswersFit
    <3>3. PanelInv'
      BY <1>1, <1>3, <2>2, <2>4, <2>7, <3>1, <3>2, PanelKeeps DEF PanelInv
    <3>4. ShowsOn
      BY <2>2, <2>7 DEF ShowsOn, ShowsNoLess
    <3> QED
      BY <3>3, <3>4
  <2> QED
    BY <1>2, <2>3, <2>5, <2>6, <2>7 DEF Answer
<1> QED
  BY <1>4, <1>5

-----------------------------------------------------------------------------
LEMMA PanelStarts == PanelInit => PanelInv
<1> SUFFICES ASSUME PanelInit PROVE PanelInv
  OBVIOUS
<1>1. NoDraft \in Drafts /\ NoDraft.trip = NoTrip /\ NoDraft.superseded = {} /\ NoDraft.pending = "" /\ NoDraft.arrival = FALSE
  BY DEF NoDraft, Drafts
<1>2. NoDraft.previewed = -1 /\ NoDraft.version = 0
  BY DEF NoDraft
<1>3. DOMAIN dpTrips = {} /\ dpTrips \in Seq(Trips)
  BY DEF PanelInit
<1>4. PanelTyped
  BY <1>1, <1>3 DEF PanelInit, PanelTyped
<1>5. CopiesFit /\ OneAwaited /\ AnswersFit
  BY <1>1, <1>3 DEF PanelInit, CopiesFit, OneAwaited, AnswersFit, Busy
<1>6. FormsFit
  <2>1. dpDraft.previewed = -1
    BY <1>2 DEF PanelInit
  <2>2. dpDraft.version = 0
    BY <1>2 DEF PanelInit
  <2>3. dpDraft.superseded = {}
    BY <1>1 DEF PanelInit
  <2> QED
    BY <1>3, <2>1, <2>2, <2>3 DEF FormsFit
<1> QED
  BY <1>4, <1>5, <1>6 DEF PanelInit, PanelInv

LEMMA PanelRestsKeep ==
  ASSUME PanelInv, UNCHANGED panelVars
  PROVE  PanelInv' /\ ShowsOn
<1>1. PanelOnly /\ UNCHANGED <<dpLogin, dpCalls, dpStray, dpDraft, dpSnapshot>>
  BY DEF panelVars, PanelOnly
<1>2. dpSnapshot' = NoTrip \/ Copy(dpSnapshot')
  BY <1>1 DEF PanelInv, CopiesFit
<1>3. PanelInv'
  BY <1>1, <1>2, DraftFits, PanelReads, QuietKeeps
<1> QED
  BY <1>1, <1>3, RestShowsOn

LEMMA PanelStep == PanelInv /\ [PanelNext]_panelVars => PanelInv' /\ ShowsOn
<1> SUFFICES ASSUME PanelInv, [PanelNext]_panelVars PROVE PanelInv' /\ ShowsOn
  OBVIOUS
<1> QED
  BY ServeKeeps, AnswerKeeps, OthersKeep, RunsKeep, ScreensKeep, TakeKeeps, EditsKeep, SendsKeep, LoginKeeps, PanelRestsKeep DEF PanelNext

LEMMA PanelHolds == PanelInit /\ [][PanelNext]_panelVars => [](PanelInv /\ PanelTypeOK)
<1>1. PanelInv => PanelTypeOK
  BY InvShows
<1>2. PanelInv /\ [PanelNext]_panelVars => PanelInv'
  BY PanelStep
<1> QED
  BY <1>1, <1>2, PanelStarts, PTL

LEMMA PanelStaysOn == PanelInv /\ [PanelNext]_panelVars => PanelStays
<1>1. PanelInv => WaitsForItsCall
  BY InvShows
<1>2. PanelInv' => WaitsForItsCall'
  BY <1>1, PTL
<1>3. PanelInv' => dpStray' = {}
  BY DEF PanelInv
<1> QED
  BY <1>2, <1>3, PanelStep DEF PanelStays, ShowsOn

(***************************************************************************)
(* The console.                                                            *)
(***************************************************************************)

Names  == Workspaces \cup {"none"}
Logins == [n : Nat, ws : Names]
Rows   == [ws : Names, at : [PageFields -> Nat]]
Kinds  == PanelKinds \cup KeyKinds \cup {"relist", "reload", "login", "logout"}
Pages  == [auth : {"unknown", "in", "out"}, session : Nat, version : Nat, shown : Rows,
           pending : SUBSET PanelKinds, keysBusy : BOOLEAN, keys : Names]
Calls  == [n : Nat, kind : Kinds, session : Nat, login : Logins, answer : {"none", "ok", "error", "denied"}, row : Rows]
Loads  == [pc : {"idle", "asked", "rows", "answered", "denied"}, session : Nat, version : Nat,
           login : Logins, row : Rows, waiting : BOOLEAN]

ConsoleTyped ==
  /\ csRows \in [Workspaces -> [PageFields -> Nat]] /\ csWrites \in Nat
  /\ \A login \in csLive : login \in Logins /\ login.ws # "none"
  /\ csCookie \in Logins /\ csOwner \in Names
  /\ csPage \in Pages /\ csLoad \in Loads /\ \A call \in csCalls : call \in Calls
  /\ csSent \in Nat /\ csUnasked \in Nat

\* A row that was read shows no change that was not made.
WasRead(row) == \A f \in PageFields : row.at[f] <= (IF row.ws = "none" THEN 0 ELSE csRows[row.ws][f])

RowsFit ==
  /\ \A w \in Workspaces, f \in PageFields : csRows[w][f] <= csWrites
  /\ WasRead(csPage.shown) /\ WasRead(csLoad.row)
  /\ \A call \in csCalls : WasRead(call.row)

\* The browser's login is that of the page, or is over; a login under way finds the page logged out.
LoginsFit ==
  /\ csPage.auth # "out" => csCookie.ws \in {"none", csOwner}
  /\ \A call \in csCalls : call.kind = "login" =>
       /\ csPage.auth = "out" /\ call.login.ws # "none"
       /\ call.answer = "ok" => csCookie.ws \in {"none", call.login.ws}
  /\ \A call, other \in csCalls : call.kind = "login" /\ other.kind = "login" => call = other

\* A call of the page's session is for its owner.
CallFor(call, page, owner) ==
  /\ call.session <= page.session
  /\ call.session = page.session /\ call.kind \notin {"login", "logout"} =>
       /\ page.auth # "out" /\ call.login.ws \in {"none", owner}
       /\ call.answer = "ok" => call.row.ws = owner

OnePerPanel ==
  \A call, other \in Mine : call.kind = other.kind /\ call.kind \in PanelKinds => call = other

\* So is the snapshot under way, and it is no older than what is shown.
LoadFor(load, page, owner) ==
  /\ load.session <= page.session /\ load.version <= page.version
  /\ load.pc \in {"rows", "answered"} => load.login.ws \in Workspaces /\ load.row.ws = load.login.ws
  /\ load.pc # "idle" /\ load.session = page.session =>
       /\ page.auth # "out" /\ load.login.ws \in {"none", owner}
       /\ load.version = page.version /\ load.pc \in {"rows", "answered"} =>
            \A f \in PageFields : page.shown.at[f] <= load.row.at[f]

CallsFit == (\A call \in csCalls : CallFor(call, csPage, csOwner)) /\ OnePerPanel
LoadFits == LoadFor(csLoad, csPage, csOwner)

ConsoleInv == ConsoleTyped /\ RowsFit /\ LoginsFit /\ CallsFit /\ LoadFits /\ ConsoleIsHonest

-----------------------------------------------------------------------------
LEMMA ConsoleBounds == MaxSent \in Nat /\ MaxUnasked \in Nat /\ MaxEvents \in Nat /\ "none" \notin Workspaces
BY ConsoleAssumption

LEMMA Nothing ==
  /\ NoRow \in Rows /\ WasRead(NoRow) /\ NoLogin \in Logins /\ NoLoad \in Loads
  /\ NoRow.ws = "none" /\ NoLoad.pc = "idle" /\ NoLoad.row = NoRow /\ NoLoad.session = 0 /\ NoLoad.version = 0
  /\ PageInit \in Pages /\ PageInit.shown = NoRow
<1>1. NoRow \in Rows /\ NoRow.ws = "none" /\ \A f \in PageFields : NoRow.at[f] = 0
  BY DEF NoRow, Rows, Names
<1>2. NoLogin \in Logins
  BY DEF NoLogin, Logins, Names
<1>3. NoLoad \in Loads /\ NoLoad.pc = "idle" /\ NoLoad.row = NoRow /\ NoLoad.session = 0 /\ NoLoad.version = 0
  BY <1>1, <1>2 DEF NoLoad, Loads
<1>4. PageInit \in Pages /\ PageInit.shown = NoRow
  BY <1>1 DEF PageInit, Pages, Names
<1>5. WasRead(NoRow)
  BY <1>1 DEF WasRead
<1> QED
  BY <1>1, <1>2, <1>3, <1>4, <1>5

\* A call as it goes out.
AsSent(call, n, kind, session, login) ==
  /\ call \in Calls /\ WasRead(call.row)
  /\ call.n = n /\ call.kind = kind /\ call.session = session /\ call.login = login
  /\ call.answer = "none" /\ call.row = NoRow

LEMMA NewCall ==
  ASSUME NEW n \in Nat, NEW kind \in Kinds, NEW session \in Nat, NEW login \in Logins
  PROVE  /\ AsSent([NoCall EXCEPT !.n = n, !.kind = kind, !.session = session, !.login = login], n, kind, session, login)
         /\ AsSent([NoCall EXCEPT !.kind = kind, !.session = session, !.login = login], 0, kind, session, login)
<1>1. NoCall \in [n : Nat, kind : Kinds \cup {"none"}, session : Nat, login : Logins, answer : {"none", "ok", "error", "denied"}, row : Rows]
      /\ NoCall.n = 0 /\ NoCall.answer = "none" /\ NoCall.row = NoRow
  BY Nothing DEF NoCall
<1>2. AsSent([NoCall EXCEPT !.n = n, !.kind = kind, !.session = session, !.login = login], n, kind, session, login)
  BY <1>1, Nothing DEF Calls, AsSent
<1>3. AsSent([NoCall EXCEPT !.kind = kind, !.session = session, !.login = login], 0, kind, session, login)
  BY <1>1, Nothing DEF Calls, AsSent
<1> QED
  BY <1>2, <1>3

\* A page that is cleared shows nothing, and is newer than whatever was asked before.
LEMMA ClearsPage ==
  ASSUME NEW page \in Pages, NEW now \in {"in", "out"}
  PROVE  LET fresh == [Cleared(page) EXCEPT !.auth = now] IN
         /\ fresh \in Pages /\ fresh.auth = now /\ fresh.session = page.session + 1 /\ fresh.version = page.version + 1
         /\ fresh.shown = NoRow /\ fresh.pending = {} /\ fresh.keysBusy = FALSE /\ fresh.keys = "none"
<1>1. PageInit \in Pages /\ PageInit.shown = NoRow /\ PageInit.pending = {} /\ PageInit.keysBusy = FALSE /\ PageInit.keys = "none"
  BY Nothing DEF PageInit
<1>2. page.session + 1 \in Nat /\ page.version + 1 \in Nat
  BY DEF Pages
<1>3. Cleared(page) \in Pages /\ Cleared(page).session = page.session + 1 /\ Cleared(page).version = page.version + 1
      /\ Cleared(page).shown = NoRow /\ Cleared(page).pending = {} /\ Cleared(page).keysBusy = FALSE /\ Cleared(page).keys = "none"
  BY <1>1, <1>2 DEF Cleared, Pages
<1> QED
  BY <1>3 DEF Pages

\* showLogin: a page that is logged out already stays, any other is cleared.
LEMMA ShowsLogin ==
  ASSUME NEW page \in Pages
  PROVE  /\ LoginShown(page) \in Pages /\ LoginShown(page).auth = "out"
         /\ page.auth = "out" => LoginShown(page) = page
         /\ page.auth # "out" =>
              /\ LoginShown(page).session = page.session + 1 /\ LoginShown(page).version = page.version + 1
              /\ LoginShown(page).shown = NoRow /\ LoginShown(page).pending = {}
              /\ LoginShown(page).keysBusy = FALSE /\ LoginShown(page).keys = "none"
<1>1. CASE page.auth = "out"
  <2>1. LoginShown(page) = page
    BY <1>1 DEF LoginShown, Pages
  <2> QED
    BY <1>1, <2>1
<1>2. CASE page.auth # "out"
  <2>1. LoginShown(page) = [Cleared(page) EXCEPT !.auth = "out"]
    BY <1>2 DEF LoginShown
  <2> QED
    BY <1>2, <2>1, ClearsPage
<1> QED
  BY <1>1, <1>2

\* A snapshot request that goes out is for the owner's login.
LEMMA AskFits ==
  ASSUME csCookie \in Logins, NEW page \in Pages, NEW owner, page.auth # "out" => csCookie.ws \in {"none", owner}
  PROVE  Ask(page) \in Loads /\ Ask(page).row = NoRow /\ LoadFor(Ask(page), page, owner)
<1>1. CASE page.auth = "out"
  BY <1>1, Nothing DEF Ask, LoadFor, Pages
<1>2. CASE page.auth # "out"
  <2>1. Ask(page) = [pc |-> "asked", session |-> page.session, version |-> page.version, login |-> csCookie, row |-> NoRow, waiting |-> FALSE]
    BY <1>2 DEF Ask, NoLoad
  <2>2. page.session \in Nat /\ page.version \in Nat
    BY DEF Pages
  <2> QED
    BY <1>2, <2>1, <2>2, Nothing DEF Loads, LoadFor
<1> QED
  BY <1>1, <1>2

\* One that is under way is kept.
LEMMA LoadedFits ==
  ASSUME csCookie \in Logins, NEW page \in Pages, NEW owner, page.auth # "out" => csCookie.ws \in {"none", owner},
         NEW load \in Loads, LoadFor(load, page, owner), WasRead(load.row)
  PROVE  /\ Loaded(load, page) \in Loads /\ LoadFor(Loaded(load, page), page, owner)
         /\ Loaded(load, page).row \in {load.row, NoRow} /\ WasRead(Loaded(load, page).row)
<1>1. CASE load.pc = "idle"
  BY <1>1, AskFits, Nothing DEF Loaded
<1>2. CASE load.pc # "idle" /\ Loaded(load, page) = load
  BY <1>2
<1>3. CASE load.pc # "idle" /\ Loaded(load, page) = [load EXCEPT !.waiting = TRUE]
  <2> DEFINE new == [load EXCEPT !.waiting = TRUE]
  <2>1. new \in Loads /\ new.pc = load.pc /\ new.session = load.session /\ new.version = load.version
        /\ new.login = load.login /\ new.row = load.row
    BY DEF Loads
  <2> HIDE DEF new
  <2>2. LoadFor(new, page, owner)
    BY <2>1 DEF LoadFor
  <2> QED
    BY <1>3, <2>1, <2>2 DEF new
<1> QED
  BY <1>1, <1>2, <1>3 DEF Loaded

\* A page that has changed since is newer than the request, whoever owns it.
LEMMA NewSession ==
  ASSUME NEW page \in Pages, NEW new \in Pages, new.session = page.session + 1, new.version = page.version + 1,
         NEW owner, NEW other
  PROVE  /\ \A load \in Loads : LoadFor(load, page, owner) => LoadFor(load, new, other)
         /\ \A call \in Calls : CallFor(call, page, owner) => CallFor(call, new, other) /\ call.session # new.session
<1>1. page.session \in Nat /\ page.version \in Nat
  BY DEF Pages
<1>2. ASSUME NEW load \in Loads, LoadFor(load, page, owner)
      PROVE  LoadFor(load, new, other)
  <2>1. load.session \in Nat /\ load.version \in Nat
    BY DEF Loads
  <2> QED
    BY <1>1, <1>2, <2>1 DEF LoadFor
<1>3. ASSUME NEW call \in Calls, CallFor(call, page, owner)
      PROVE  CallFor(call, new, other) /\ call.session # new.session
  <2>1. call.session \in Nat
    BY DEF Calls
  <2> QED
    BY <1>1, <1>3, <2>1 DEF CallFor
<1> QED
  BY <1>2, <1>3

\* What was read stays so: rows only grow.
LEMMA ReadsStay ==
  ASSUME csRows \in [Workspaces -> [PageFields -> Nat]], csRows' \in [Workspaces -> [PageFields -> Nat]],
         \A w \in Workspaces, f \in PageFields : csRows[w][f] <= csRows'[w][f], NEW row \in Rows, WasRead(row)
  PROVE  \A f \in PageFields : row.at[f] <= (IF row.ws = "none" THEN 0 ELSE csRows'[row.ws][f])
<1> SUFFICES ASSUME NEW f \in PageFields PROVE row.at[f] <= (IF row.ws = "none" THEN 0 ELSE csRows'[row.ws][f])
  OBVIOUS
<1>1. row.at[f] \in Nat /\ row.ws \in Names
  BY DEF Rows
<1>2. CASE row.ws = "none"
  BY <1>2 DEF WasRead
<1>3. CASE row.ws # "none"
  <2>1. row.ws \in Workspaces
    BY <1>1, <1>3 DEF Names
  <2>2. csRows[row.ws][f] \in Nat /\ csRows'[row.ws][f] \in Nat /\ csRows[row.ws][f] <= csRows'[row.ws][f]
    BY <2>1
  <2>3. row.at[f] <= csRows[row.ws][f]
    BY <1>3 DEF WasRead
  <2> QED
    BY <1>1, <1>3, <2>2, <2>3
<1> QED
  BY <1>2, <1>3

-----------------------------------------------------------------------------
(* Steps of the page and its snapshots.                                    *)

LEMMA ShownStays ==
  ASSUME ConsoleTyped, csPage'.shown = csPage.shown
  PROVE  ConsoleStays
<1>1. \A f \in PageFields : csPage.shown.at[f] \in Nat
  BY DEF ConsoleTyped, Pages, Rows
<1>2. TookBack = {}
  BY <1>1 DEF TookBack
<1> QED
  BY <1>2 DEF ConsoleStays

LEMMA LoadSteps ==
  ASSUME ConsoleInv, Server, UNCHANGED <<csPage, csCalls, csSent, csUnasked, csOwner>>,
         csLoad' \in Loads, LoadFor(csLoad', csPage, csOwner), WasRead(csLoad'.row)
  PROVE  ConsoleInv' /\ ConsoleStays
<1>1. ConsoleTyped'
  BY DEF ConsoleInv, ConsoleTyped, Server
<1>2. RowsFit'
  BY DEF ConsoleInv, RowsFit, WasRead, Server
<1>3. LoginsFit' /\ CallsFit' /\ ConsoleIsHonest'
  BY DEF ConsoleInv, LoginsFit, CallsFit, CallFor, OnePerPanel, ConsoleIsHonest, Mine, Server
<1>4. LoadFits'
  BY DEF LoadFits, LoadFor
<1>5. ConsoleStays
  BY ShownStays DEF ConsoleInv
<1> QED
  BY <1>1, <1>2, <1>3, <1>4, <1>5 DEF ConsoleInv

LEMMA PollKeeps == ConsoleInv /\ Poll => ConsoleInv' /\ ConsoleStays
<1> SUFFICES ASSUME ConsoleInv, Poll PROVE ConsoleInv' /\ ConsoleStays
  OBVIOUS
<1>1. csCookie \in Logins /\ csPage \in Pages /\ csLoad \in Loads /\ WasRead(csLoad.row)
      /\ LoadFor(csLoad, csPage, csOwner) /\ (csPage.auth # "out" => csCookie.ws \in {"none", csOwner})
  BY DEF ConsoleInv, ConsoleTyped, LoginsFit, LoadFits, RowsFit
<1>2. csLoad' \in Loads /\ LoadFor(csLoad', csPage, csOwner) /\ WasRead(csLoad'.row)
  BY <1>1, LoadedFits DEF Poll
<1> QED
  BY <1>2, LoadSteps DEF Poll

LEMMA SnapshotKeeps == ConsoleInv /\ SnapshotReads => ConsoleInv' /\ ConsoleStays
<1> SUFFICES ASSUME ConsoleInv, SnapshotReads PROVE ConsoleInv' /\ ConsoleStays
  OBVIOUS
<1>1. csPage \in Pages /\ csLoad \in Loads /\ WasRead(csLoad.row) /\ WasRead(csPage.shown) /\ csPage.shown \in Rows
      /\ LoadFor(csLoad, csPage, csOwner) /\ csRows \in [Workspaces -> [PageFields -> Nat]]
      /\ csPage.shown.ws \in {"none", csOwner} /\ csLoad.pc # "idle" /\ csLoad.row \in Rows
  BY DEF ConsoleInv, ConsoleTyped, LoadFits, RowsFit, ConsoleIsHonest, SnapshotReads, Pages, Loads
<1>2. CASE csLoad.login \notin csLive /\ csLoad.pc = "asked"
  <2>1. csLoad' \in Loads /\ csLoad'.pc = "denied" /\ csLoad'.session = csLoad.session /\ csLoad'.version = csLoad.version
        /\ csLoad'.login = csLoad.login /\ csLoad'.row = csLoad.row
    BY <1>1, <1>2 DEF SnapshotReads, Loads
  <2>2. LoadFor(csLoad', csPage, csOwner)
    BY <1>1, <2>1 DEF LoadFor
  <2> QED
    BY <1>1, <2>1, <2>2, LoadSteps DEF SnapshotReads
<1>3. CASE csLoad.login \in csLive /\ csLoad.pc = "asked"
  <2>1. csLoad.login.ws \in Workspaces
    BY <1>3 DEF ConsoleInv, ConsoleTyped, Logins, Names
  <2>2. PICK row \in Rows : row = [ws |-> csLoad.login.ws, at |-> csRows[csLoad.login.ws]]
    BY <1>1, <2>1 DEF Rows, Names
  <2>3. row.ws = csLoad.login.ws /\ row.at = csRows[csLoad.login.ws]
    BY <2>2
  <2>4. csLoad' = [csLoad EXCEPT !.pc = "rows", !.row = row]
    BY <1>3, <2>2 DEF SnapshotReads
  <2>5. csLoad' \in Loads /\ csLoad'.pc = "rows" /\ csLoad'.session = csLoad.session /\ csLoad'.version = csLoad.version
        /\ csLoad'.login = csLoad.login /\ csLoad'.row = row
    BY <1>1, <2>4 DEF Loads
  <2>6. ASSUME NEW f \in PageFields
        PROVE  row.at[f] <= csRows[row.ws][f] /\ (csLoad.login.ws = csOwner => csPage.shown.at[f] <= row.at[f])
    <3>1. row.at[f] = csRows[csLoad.login.ws][f] /\ row.at[f] \in Nat /\ csPage.shown.at[f] \in Nat
      BY <1>1, <2>1, <2>3 DEF Rows
    <3>2. csPage.shown.at[f] <= (IF csPage.shown.ws = "none" THEN 0 ELSE csRows[csPage.shown.ws][f])
      BY <1>1 DEF WasRead
    <3> QED
      BY <1>1, <2>3, <3>1, <3>2
  <2>7. WasRead(row) /\ csLoad.login.ws # "none"
    BY <2>1, <2>3, <2>6, ConsoleBounds DEF WasRead
  <2>8. LoadFor(csLoad', csPage, csOwner)
    BY <1>1, <2>1, <2>3, <2>5, <2>6, <2>7 DEF LoadFor
  <2> QED
    BY <2>5, <2>7, <2>8, LoadSteps DEF SnapshotReads
<1>4. CASE csLoad.pc = "rows"
  <2>1. csLoad.login.ws \in Workspaces /\ csLoad.row.ws = csLoad.login.ws
    BY <1>1, <1>4 DEF LoadFor
  <2>2. PICK at : at = [csLoad.row.at EXCEPT !["trip"] = csRows[csLoad.login.ws]["trip"]]
    OBVIOUS
  <2>3. at \in [PageFields -> Nat] /\ \A f \in PageFields : at[f] = csLoad.row.at[f] \/ at[f] = csRows[csLoad.login.ws][f]
    BY <1>1, <2>1, <2>2 DEF Rows, PageFields
  <2>4. PICK row : row = [csLoad.row EXCEPT !.at = at]
    OBVIOUS
  <2>5. row \in Rows /\ row.ws = csLoad.login.ws /\ row.at = at
    BY <1>1, <2>1, <2>3, <2>4 DEF Rows
  <2>6. csLoad' = [csLoad EXCEPT !.pc = "answered", !.row = row]
    BY <1>4, <2>2, <2>4 DEF SnapshotReads
  <2>7. csLoad' \in Loads /\ csLoad'.pc = "answered" /\ csLoad'.session = csLoad.session /\ csLoad'.version = csLoad.version
        /\ csLoad'.login = csLoad.login /\ csLoad'.row = row
    BY <1>1, <2>5, <2>6 DEF Loads
  <2>8. csLoad.login.ws # "none"
    BY <2>1, ConsoleBounds
  <2>9. ASSUME NEW f \in PageFields
        PROVE  row.at[f] <= csRows[row.ws][f]
               /\ (csLoad.login.ws = csOwner /\ csPage.shown.at[f] <= csLoad.row.at[f] => csPage.shown.at[f] <= row.at[f])
    <3>1. csPage.shown.at[f] <= (IF csPage.shown.ws = "none" THEN 0 ELSE csRows[csPage.shown.ws][f])
          /\ csLoad.row.at[f] <= csRows[csLoad.login.ws][f]
      BY <1>1, <2>1, <2>8 DEF WasRead
    <3>2. csPage.shown.at[f] \in Nat /\ csRows[csLoad.login.ws][f] \in Nat /\ csLoad.row.at[f] \in Nat
      BY <1>1, <2>1 DEF Rows
    <3>3. row.at[f] = csLoad.row.at[f] \/ row.at[f] = csRows[csLoad.login.ws][f]
      BY <2>3, <2>5
    <3> QED
      BY <1>1, <2>5, <3>1, <3>2, <3>3
  <2>10. WasRead(row)
    BY <2>5, <2>8, <2>9 DEF WasRead
  <2>11. LoadFor(csLoad', csPage, csOwner)
    BY <1>1, <1>4, <2>1, <2>5, <2>7, <2>8, <2>9 DEF LoadFor
  <2> QED
    BY <2>7, <2>10, <2>11, LoadSteps DEF SnapshotReads
<1> QED
  BY <1>2, <1>3, <1>4 DEF SnapshotReads

\* A page that is cleared awaits nothing: every call was sent before.
LEMMA ClearedKeeps ==
  ASSUME ConsoleInv, Server, UNCHANGED <<csSent, csUnasked>>,
         csPage' \in Pages, csPage'.session = csPage.session + 1, csPage'.version = csPage.version + 1,
         csPage'.shown = NoRow, csPage'.pending = {}, csPage'.keysBusy = FALSE, csPage'.keys = "none",
         csCalls' \subseteq csCalls, csOwner' \in Names,
         csLoad' \in Loads, WasRead(csLoad'.row), LoadFor(csLoad', csPage', csOwner'),
         csPage'.auth # "out" => csCookie.ws \in {"none", csOwner'} /\ \A call \in csCalls' : call.kind # "login"
  PROVE  ConsoleInv' /\ ConsoleStays
<1>1. csPage \in Pages /\ \A call \in csCalls : call \in Calls /\ CallFor(call, csPage, csOwner)
  BY DEF ConsoleInv, ConsoleTyped, CallsFit
<1>2. \A call \in csCalls : CallFor(call, csPage', csOwner') /\ call.session # csPage'.session
  BY <1>1, NewSession
<1>3. ConsoleTyped'
  BY DEF ConsoleInv, ConsoleTyped, Server
<1>4. RowsFit'
  BY Nothing DEF ConsoleInv, RowsFit, WasRead, Server
<1>5. LoginsFit'
  BY DEF ConsoleInv, LoginsFit, Server
<1>6. CallsFit' /\ LoadFits'
  BY <1>2 DEF CallsFit, CallFor, OnePerPanel, Mine, LoadFits, LoadFor
<1>7. Mine' = {}
  BY <1>2 DEF Mine
<1>8. ConsoleIsHonest'
  BY <1>7, Nothing DEF ConsoleIsHonest
<1>9. ConsoleStays
  <2>1. csPage'.session # csPage.session
    BY <1>1 DEF Pages
  <2> QED
    BY <2>1 DEF ConsoleStays
<1> QED
  BY <1>3, <1>4, <1>5, <1>6, <1>8, <1>9 DEF ConsoleInv

\* showLogin, once an answer is refused; or nothing, on a page that is logged out.
LEMMA LoginShownKeeps ==
  ASSUME ConsoleInv, csPage' = LoginShown(csPage), Server, UNCHANGED <<csSent, csUnasked, csOwner>>,
         csCalls' \subseteq csCalls, csPage.auth # "out",
         csLoad' \in Loads, WasRead(csLoad'.row), LoadFor(csLoad', csPage', csOwner)
  PROVE  ConsoleInv' /\ ConsoleStays
<1>1. csPage \in Pages /\ csOwner \in Names
  BY DEF ConsoleInv, ConsoleTyped
<1> QED
  BY <1>1, ShowsLogin, ClearedKeeps

LEMMA TakeLoadKeeps == ConsoleInv /\ TakeLoad => ConsoleInv' /\ ConsoleStays
<1> SUFFICES ASSUME ConsoleInv, TakeLoad PROVE ConsoleInv' /\ ConsoleStays
  OBVIOUS
<1>1. /\ csPage \in Pages /\ csLoad \in Loads /\ csCookie \in Logins /\ WasRead(csLoad.row) /\ csLoad.row \in Rows
      /\ LoadFor(csLoad, csPage, csOwner) /\ csLoad.pc # "idle" /\ csOwner \in Names
      /\ csPage.auth # "out" => csCookie.ws \in {"none", csOwner}
  BY DEF ConsoleInv, ConsoleTyped, LoadFits, RowsFit, LoginsFit, TakeLoad, Loads
<1>2. Server /\ UNCHANGED <<csCalls, csSent, csUnasked, csOwner>>
  BY DEF TakeLoad
<1>3. ASSUME NEW page \in Pages, csLoad' = IF csLoad.waiting THEN Ask(page) ELSE NoLoad,
             page.auth # "out" => csCookie.ws \in {"none", csOwner}
      PROVE  csLoad' \in Loads /\ WasRead(csLoad'.row) /\ LoadFor(csLoad', page, csOwner)
  <2>1. LoadFor(NoLoad, page, csOwner)
    BY Nothing DEF LoadFor, Pages
  <2> QED
    BY <1>1, <1>3, <2>1, AskFits, Nothing
<1>4. CASE csPage' = csPage /\ csLoad' = IF csLoad.waiting THEN Ask(csPage) ELSE NoLoad
  BY <1>1, <1>2, <1>3, <1>4, LoadSteps
<1>5. CASE /\ csLoad.pc = "denied" /\ csLoad.session = csPage.session /\ csPage' = LoginShown(csPage)
           /\ csLoad' = IF csLoad.waiting THEN Ask(LoginShown(csPage)) ELSE NoLoad
  <2>1. csPage.auth # "out"
    BY <1>1, <1>5 DEF LoadFor
  <2>2. LoginShown(csPage) \in Pages /\ LoginShown(csPage).auth = "out"
    BY <1>1, ShowsLogin
  <2> QED
    BY <1>2, <1>3, <1>5, <2>1, <2>2, LoginShownKeeps
<1>6. CASE /\ csLoad.pc = "answered" /\ Current(csLoad) /\ csPage' = [csPage EXCEPT !.auth = "in", !.shown = csLoad.row]
           /\ csLoad' = IF csLoad.waiting THEN Ask(csPage') ELSE NoLoad
  <2>1. /\ csPage.auth # "out" /\ csLoad.row.ws = csOwner
        /\ \A f \in PageFields : csPage.shown.at[f] <= csLoad.row.at[f]
    BY <1>1, <1>6, ConsoleBounds DEF LoadFor, Current
  <2>2. csPage' \in Pages /\ csPage'.auth = "in" /\ csPage'.shown = csLoad.row /\ csPage'.session = csPage.session
        /\ csPage'.version = csPage.version /\ csPage'.pending = csPage.pending /\ csPage'.keysBusy = csPage.keysBusy
        /\ csPage'.keys = csPage.keys
    BY <1>1, <1>6 DEF Pages
  <2>3. csLoad' \in Loads /\ WasRead(csLoad'.row) /\ LoadFor(csLoad', csPage', csOwner)
    BY <1>1, <1>3, <1>6, <2>1, <2>2
  <2>4. ConsoleTyped'
    BY <1>2, <2>2, <2>3 DEF ConsoleInv, ConsoleTyped, Server
  <2>5. RowsFit'
    BY <1>1, <1>2, <2>2, <2>3 DEF ConsoleInv, RowsFit, WasRead, Server
  <2>6. LoginsFit' /\ LoadFits'
    BY <1>2, <2>1, <2>2, <2>3 DEF ConsoleInv, LoginsFit, LoadFits, LoadFor, Server
  <2>7. CallsFit' /\ Mine' = Mine
    BY <1>2, <2>1, <2>2 DEF ConsoleInv, CallsFit, CallFor, OnePerPanel, Mine
  <2>8. ConsoleIsHonest'
    BY <1>2, <2>1, <2>2, <2>7 DEF ConsoleInv, ConsoleIsHonest
  <2>9. ConsoleStays
    <3>1. \A f \in PageFields : csPage.shown.at[f] \in Nat /\ csLoad.row.at[f] \in Nat
      BY <1>1 DEF Pages, Rows
    <3>2. TookBack = {}
      BY <2>1, <2>2, <3>1 DEF TookBack
    <3> QED
      BY <3>2 DEF ConsoleStays
  <2> QED
    BY <2>4, <2>5, <2>6, <2>7, <2>8, <2>9 DEF ConsoleInv
<1>7. PICK page \in (IF csLoad.pc = "answered"
                     THEN {IF Current(csLoad) THEN [csPage EXCEPT !.auth = "in", !.shown = csLoad.row] ELSE csPage}
                     ELSE IF csLoad.pc = "denied" THEN {IF csLoad.session = csPage.session THEN LoginShown(csPage) ELSE csPage} ELSE {})
                    \cup {csPage} :
        csPage' = page /\ csLoad' = IF csLoad.waiting THEN Ask(page) ELSE NoLoad
  BY DEF TakeLoad
<1> QED
  BY <1>4, <1>5, <1>6, <1>7

-----------------------------------------------------------------------------
(* Steps of commands.                                                      *)

LEMMA KindsDiffer ==
  /\ PanelKinds \subseteq Kinds /\ KeyKinds \subseteq Kinds /\ PanelKinds \cap KeyKinds = {}
  /\ "login" \notin PanelKinds \cup KeyKinds /\ "logout" \notin PanelKinds \cup KeyKinds
  /\ "relist" \notin PanelKinds \cup KeyKinds /\ "reload" \notin PanelKinds \cup KeyKinds
  /\ {"relist", "reload", "login", "logout"} \subseteq Kinds /\ "list" \in KeyKinds
BY DEF PanelKinds, KeyKinds, Kinds

LEMMA IssueKeeps ==
  ASSUME ConsoleInv, NEW kind \in PanelKinds \cup KeyKinds \cup {"logout"}, NEW page \in Pages, Issue(kind, page),
         csPage.auth # "out", page.auth = csPage.auth, page.session = csPage.session, page.version = csPage.version,
         page.shown = csPage.shown, page.keys \in {csPage.keys, "none"},
         page.keysBusy => csPage.keysBusy \/ kind \in KeyKinds,
         page.pending = csPage.pending \cup ({kind} \cap PanelKinds), kind \notin csPage.pending
  PROVE  ConsoleInv' /\ ConsoleStays
<1>1. PICK n \in Nat : n = IF kind = "list" THEN csSent ELSE 0
  BY DEF ConsoleInv, ConsoleTyped
<1>2. PICK new : new = [NoCall EXCEPT !.n = n, !.kind = kind, !.session = csPage.session, !.login = csCookie]
  OBVIOUS
<1>3. kind \in Kinds /\ kind # "login" /\ csPage.session \in Nat /\ csCookie \in Logins
  BY KindsDiffer DEF ConsoleInv, ConsoleTyped, Pages
<1>4. new \in Calls /\ WasRead(new.row) /\ new.kind = kind /\ new.session = csPage.session /\ new.login = csCookie /\ new.answer = "none"
  <2>1. AsSent(new, n, kind, csPage.session, csCookie)
    BY <1>2, <1>3, NewCall
  <2> QED
    BY <2>1 DEF AsSent
<1>5. csCalls' = csCalls \cup {new} /\ csPage' = page /\ Server /\ UNCHANGED <<csLoad, csUnasked, csOwner>> /\ csSent' = csSent + 1
  BY <1>1, <1>2 DEF Issue
<1>6. ConsoleTyped'
  BY <1>4, <1>5 DEF ConsoleInv, ConsoleTyped, Server
<1>7. RowsFit'
  BY <1>4, <1>5 DEF ConsoleInv, RowsFit, WasRead, Server
<1>8. LoginsFit' /\ LoadFits'
  BY <1>3, <1>4, <1>5 DEF ConsoleInv, LoginsFit, LoadFits, LoadFor, Server
<1>9. Mine' = Mine \cup {new}
  BY <1>4, <1>5 DEF Mine
<1>10. CallFor(new, page, csOwner)
  BY <1>3, <1>4 DEF CallFor, ConsoleInv, LoginsFit
<1>11. \A call \in csCalls : CallFor(call, page, csOwner)
  BY DEF ConsoleInv, CallsFit, CallFor
<1>12. kind \in PanelKinds => \A call \in Mine : call.kind # kind
  BY DEF ConsoleInv, ConsoleIsHonest
<1>13. CallsFit'
  BY <1>4, <1>5, <1>9, <1>10, <1>11, <1>12 DEF ConsoleInv, CallsFit, CallFor, OnePerPanel
<1>14. ConsoleIsHonest'
  <2>1. csPage'.shown.ws \in {"none", csOwner'} /\ csPage'.keys \in {"none", csOwner'} /\ csPage'.auth # "out"
    BY <1>5 DEF ConsoleInv, ConsoleIsHonest
  <2>2. csPage'.pending = {call.kind : call \in Mine'} \cap PanelKinds
    <3>1. {call.kind : call \in Mine'} = {call.kind : call \in Mine} \cup {kind}
      BY <1>4, <1>9
    <3> QED
      BY <1>5, <3>1 DEF ConsoleInv, ConsoleIsHonest
  <2>3. csPage'.keysBusy => \E call \in Mine' : call.kind \notin PanelKinds \cup {"login", "logout"}
    <3>1. kind \in KeyKinds => kind \notin PanelKinds \cup {"login", "logout"}
      BY KindsDiffer
    <3> QED
      BY <1>4, <1>5, <1>9, <3>1 DEF ConsoleInv, ConsoleIsHonest
  <2> QED
    BY <2>1, <2>2, <2>3 DEF ConsoleIsHonest
<1>15. ConsoleStays
  BY <1>5, ShownStays DEF ConsoleInv
<1> QED
  BY <1>6, <1>7, <1>8, <1>13, <1>14, <1>15 DEF ConsoleInv

LEMMA CommandKeeps ==
  ASSUME ConsoleInv, NEW kind \in PanelKinds, Command(kind)
  PROVE  ConsoleInv' /\ ConsoleStays
<1>1. csPage \in Pages /\ csPage.auth # "out" /\ kind \notin csPage.pending
  BY DEF ConsoleInv, ConsoleTyped, ConsoleIsHonest, Command
<1>2. PICK page : page = [csPage EXCEPT !.pending = @ \cup {kind}]
  OBVIOUS
<1>3. page \in Pages /\ page.auth = csPage.auth /\ page.session = csPage.session /\ page.version = csPage.version
      /\ page.shown = csPage.shown /\ page.keys = csPage.keys /\ page.keysBusy = csPage.keysBusy /\ page.pending = csPage.pending \cup {kind}
  BY <1>1, <1>2 DEF Pages
<1>4. Issue(kind, page)
  BY <1>2 DEF Command
<1>5. {kind} \cap PanelKinds = {kind}
  OBVIOUS
<1> QED
  BY <1>1, <1>3, <1>4, <1>5, IssueKeeps

LEMMA KeysKeep ==
  ASSUME ConsoleInv, OpenKeys \/ Logout \/ \E kind \in {"change", "wigle"} : ChangeKeys(kind)
  PROVE  ConsoleInv' /\ ConsoleStays
<1>1. csPage \in Pages /\ csPage.auth # "out" /\ csPage.pending \subseteq PanelKinds
  BY DEF ConsoleInv, ConsoleTyped, Pages, OpenKeys, Logout, ChangeKeys
<1>2. ASSUME NEW kind \in KeyKinds \cup {"logout"}
      PROVE  kind \notin csPage.pending /\ {kind} \cap PanelKinds = {}
  BY <1>1, KindsDiffer
<1>3. CASE OpenKeys
  <2>1. PICK page : page = [csPage EXCEPT !.keysBusy = TRUE, !.keys = "none"]
    OBVIOUS
  <2>2. page \in Pages /\ page.auth = csPage.auth /\ page.session = csPage.session /\ page.version = csPage.version
        /\ page.shown = csPage.shown /\ page.keys = "none" /\ page.pending = csPage.pending
    BY <1>1, <2>1 DEF Pages, Names
  <2>3. Issue("list", page)
    BY <1>3, <2>1 DEF OpenKeys
  <2> QED
    BY <1>1, <1>2, <2>2, <2>3, KindsDiffer, IssueKeeps
<1>4. CASE Logout
  <2>1. Issue("logout", csPage)
    BY <1>4 DEF Logout
  <2> QED
    BY <1>1, <1>2, <2>1, IssueKeeps
<1>5. ASSUME NEW kind \in {"change", "wigle"}, ChangeKeys(kind)
      PROVE  ConsoleInv' /\ ConsoleStays
  <2>1. PICK page : page = [csPage EXCEPT !.keysBusy = TRUE]
    OBVIOUS
  <2>2. page \in Pages /\ page.auth = csPage.auth /\ page.session = csPage.session /\ page.version = csPage.version
        /\ page.shown = csPage.shown /\ page.keys = csPage.keys /\ page.pending = csPage.pending
    BY <1>1, <2>1 DEF Pages
  <2>3. Issue(kind, page)
    BY <1>5, <2>1 DEF ChangeKeys
  <2>4. kind \in KeyKinds
    BY DEF KeyKinds
  <2> QED
    BY <1>1, <1>2, <2>2, <2>3, <2>4, IssueKeeps
<1> QED
  BY <1>3, <1>4, <1>5

LEMMA LogInKeeps ==
  ASSUME ConsoleInv, NEW w \in Workspaces, LogIn(w)
  PROVE  ConsoleInv' /\ ConsoleStays
<1>1. PICK login : login = [n |-> csCookie.n + 1, ws |-> w]
  OBVIOUS
<1>2. login \in Logins /\ login.ws = w /\ w # "none" /\ csPage.session \in Nat
  BY <1>1, ConsoleBounds DEF ConsoleInv, ConsoleTyped, Logins, Names, Pages
<1>3. PICK new : new = [NoCall EXCEPT !.kind = "login", !.session = csPage.session, !.login = login]
  OBVIOUS
<1>4. new \in Calls /\ WasRead(new.row) /\ new.kind = "login" /\ new.session = csPage.session /\ new.login = login /\ new.answer = "none"
  <2>1. AsSent(new, 0, "login", csPage.session, login)
    BY <1>2, <1>3, NewCall, KindsDiffer
  <2> QED
    BY <2>1 DEF AsSent
<1>5. /\ csCalls' = csCalls \cup {new} /\ Server /\ UNCHANGED <<csPage, csLoad, csSent, csOwner>> /\ csUnasked' = csUnasked + 1
      /\ csPage.auth = "out" /\ \A call \in csCalls : call.kind # "login"
  BY <1>1, <1>3 DEF LogIn, Unasked
<1>6. ConsoleTyped'
  BY <1>4, <1>5 DEF ConsoleInv, ConsoleTyped, Server
<1>7. RowsFit'
  BY <1>4, <1>5 DEF ConsoleInv, RowsFit, WasRead, Server
<1>8. LoginsFit' /\ LoadFits'
  BY <1>2, <1>4, <1>5 DEF ConsoleInv, LoginsFit, LoadFits, LoadFor, Server
<1>9. Mine' = Mine \cup {new}
  BY <1>4, <1>5 DEF Mine
<1>10. CallFor(new, csPage, csOwner)
  BY <1>2, <1>4 DEF CallFor
<1>11. CallsFit'
  BY <1>4, <1>5, <1>9, <1>10, KindsDiffer DEF ConsoleInv, CallsFit, CallFor, OnePerPanel
<1>12. ConsoleIsHonest'
  <2>1. {call.kind : call \in Mine'} \cap PanelKinds = {call.kind : call \in Mine} \cap PanelKinds
    BY <1>4, <1>9, KindsDiffer
  <2> QED
    BY <1>5, <1>9, <2>1 DEF ConsoleInv, ConsoleIsHonest
<1>13. ConsoleStays
  BY <1>5, ShownStays DEF ConsoleInv
<1> QED
  BY <1>6, <1>7, <1>8, <1>11, <1>12, <1>13 DEF ConsoleInv

Grown ==
  /\ csRows' \in [Workspaces -> [PageFields -> Nat]] /\ csWrites' \in Nat
  /\ \A v \in Workspaces, f \in PageFields : csRows[v][f] <= csRows'[v][f] /\ csRows'[v][f] <= csWrites'

\* A change of a device's row is newer than whatever was read of it.
LEMMA WrittenGrows ==
  ASSUME ConsoleTyped, RowsFit, NEW w \in Workspaces, NEW fields, Written(w, fields)
  PROVE  Grown
<1>1. csRows \in [Workspaces -> [PageFields -> Nat]] /\ csWrites \in Nat
      /\ \A v \in Workspaces, f \in PageFields : csRows[v][f] <= csWrites
  BY DEF ConsoleTyped, RowsFit
<1>2. CASE fields = {}
  BY <1>1, <1>2 DEF Written, Grown
<1>3. CASE fields # {}
  <2>1. PICK row : row = [f \in PageFields |-> IF f \in fields THEN csWrites + 1 ELSE csRows[w][f]]
    OBVIOUS
  <2>2. row \in [PageFields -> Nat] /\ \A f \in PageFields : row[f] = csWrites + 1 \/ row[f] = csRows[w][f]
    BY <1>1, <2>1
  <2>3. csWrites' = csWrites + 1 /\ csRows' = [csRows EXCEPT ![w] = row]
    BY <1>3, <2>1 DEF Written
  <2>4. csRows' \in [Workspaces -> [PageFields -> Nat]] /\ csRows'[w] = row /\ \A v \in Workspaces : v # w => csRows'[v] = csRows[v]
    BY <1>1, <2>2, <2>3
  <2>5. ASSUME NEW v \in Workspaces, NEW f \in PageFields
        PROVE  csRows[v][f] <= csRows'[v][f] /\ csRows'[v][f] <= csWrites'
    <3>1. csRows[v][f] \in Nat /\ csRows[v][f] <= csWrites
      BY <1>1
    <3>2. csRows'[v][f] = csRows[v][f] \/ csRows'[v][f] = csWrites + 1
      BY <2>2, <2>4
    <3> QED
      BY <1>1, <2>3, <3>1, <3>2
  <2> QED
    BY <1>1, <2>3, <2>4, <2>5 DEF Grown
<1> QED
  BY <1>2, <1>3

LEMMA GrowsKeeps ==
  ASSUME ConsoleInv, Grown, UNCHANGED <<csPage, csLoad>>,
         \A call \in csCalls' : call \in csCalls \/ \A f \in PageFields : call.row.at[f] <= (IF call.row.ws = "none" THEN 0 ELSE csRows'[call.row.ws][f])
  PROVE  RowsFit'
<1>1. csRows \in [Workspaces -> [PageFields -> Nat]] /\ csPage.shown \in Rows /\ csLoad.row \in Rows
      /\ WasRead(csPage.shown) /\ WasRead(csLoad.row) /\ \A call \in csCalls : call.row \in Rows /\ WasRead(call.row)
  BY DEF ConsoleInv, ConsoleTyped, RowsFit, Pages, Loads, Calls
<1>2. ASSUME NEW row \in Rows, WasRead(row)
      PROVE  \A f \in PageFields : row.at[f] <= (IF row.ws = "none" THEN 0 ELSE csRows'[row.ws][f])
  BY <1>1, <1>2, ReadsStay DEF Grown
<1> QED
  BY <1>1, <1>2 DEF RowsFit, WasRead, Grown

LEMMA ElsewhereKeeps == ConsoleInv /\ Elsewhere => ConsoleInv' /\ ConsoleStays
<1> SUFFICES ASSUME ConsoleInv, Elsewhere PROVE ConsoleInv' /\ ConsoleStays
  OBVIOUS
<1>1. UNCHANGED <<csPage, csCalls, csLoad, csSent, csOwner, csCookie>> /\ csUnasked' \in Nat /\ csLive' \subseteq csLive
  BY DEF Elsewhere, Unasked, ConsoleInv, ConsoleTyped
<1>2. Grown
  <2>1. ASSUME NEW login \in csLive, NEW f \in PageFields, Written(login.ws, {f})
        PROVE  Grown
    <3>1. login.ws \in Workspaces
      BY DEF ConsoleInv, ConsoleTyped, Logins, Names
    <3> QED
      BY <2>1, <3>1, WrittenGrows DEF ConsoleInv
  <2>2. CASE UNCHANGED <<csRows, csWrites>>
    BY <2>2 DEF ConsoleInv, ConsoleTyped, RowsFit, Grown
  <2> QED
    BY <2>1, <2>2 DEF Elsewhere
<1>3. ConsoleTyped'
  BY <1>1, <1>2 DEF ConsoleInv, ConsoleTyped, Grown
<1>4. RowsFit'
  BY <1>1, <1>2, GrowsKeeps
<1>5. LoginsFit' /\ CallsFit' /\ LoadFits' /\ ConsoleIsHonest'
  BY <1>1 DEF ConsoleInv, LoginsFit, CallsFit, CallFor, OnePerPanel, LoadFits, LoadFor, ConsoleIsHonest, Mine
<1>6. ConsoleStays
  BY <1>1, ShownStays DEF ConsoleInv
<1> QED
  BY <1>3, <1>4, <1>5, <1>6 DEF ConsoleInv

\* A call that changes at the page keeps its place there.
LEMMA ReplaceKeeps ==
  ASSUME ConsoleInv, NEW call \in csCalls, NEW new, csCalls' = (csCalls \ {call}) \cup {new},
         new.kind = call.kind, new.session = call.session, CallFor(new, csPage, csOwner), UNCHANGED <<csPage, csOwner>>
  PROVE  CallsFit' /\ ConsoleIsHonest'
<1>1. Mine' \subseteq (Mine \ {call}) \cup {new} /\ (call \in Mine => Mine' = (Mine \ {call}) \cup {new})
      /\ (call \notin Mine => Mine' = Mine)
  BY DEF Mine
<1>2. \A c \in csCalls' : CallFor(c, csPage, csOwner)
  BY DEF ConsoleInv, CallsFit
<1>3. OnePerPanel'
  BY <1>1 DEF ConsoleInv, CallsFit, OnePerPanel
<1>4. CallsFit'
  BY <1>2, <1>3 DEF CallsFit, CallFor
<1>5. {c.kind : c \in Mine'} = {c.kind : c \in Mine}
  <2>1. CASE call \in Mine
    BY <1>1, <2>1
  <2>2. CASE call \notin Mine
    BY <1>1, <2>2
  <2> QED
    BY <2>1, <2>2
<1>6. csPage.keysBusy => \E c \in Mine' : c.kind \notin PanelKinds \cup {"login", "logout"}
  <2> SUFFICES ASSUME csPage.keysBusy PROVE \E c \in Mine' : c.kind \notin PanelKinds \cup {"login", "logout"}
    OBVIOUS
  <2>1. PICK c \in Mine : c.kind \notin PanelKinds \cup {"login", "logout"}
    BY DEF ConsoleInv, ConsoleIsHonest
  <2>2. CASE c = call
    BY <1>1, <2>1, <2>2
  <2>3. CASE c # call
    BY <1>1, <2>1, <2>3
  <2> QED
    BY <2>2, <2>3
<1>7. ConsoleIsHonest'
  BY <1>5, <1>6 DEF ConsoleInv, ConsoleIsHonest
<1> QED
  BY <1>4, <1>7

\* What an answer looks like.
LEMMA RepliedFits ==
  ASSUME NEW call \in Calls, NEW answer \in {"ok", "error", "denied"}, NEW row \in Rows, Replied(call, answer, row)
  PROVE  \E new \in Calls :
           /\ csCalls' = (csCalls \ {call}) \cup {new}
           /\ new.kind = call.kind /\ new.session = call.session /\ new.answer = answer /\ new.row = row
           /\ new.login = IF call.kind = "login" THEN call.login ELSE NoLogin
<1>1. PICK login : login = IF call.kind = "login" THEN call.login ELSE NoLogin
  OBVIOUS
<1>2. login \in Logins
  BY <1>1, Nothing DEF Calls
<1>3. PICK new : new = [call EXCEPT !.answer = answer, !.row = row, !.login = login]
  OBVIOUS
<1>4. new \in Calls /\ new.kind = call.kind /\ new.session = call.session /\ new.answer = answer /\ new.row = row /\ new.login = login
  BY <1>2, <1>3 DEF Calls
<1>5. csCalls' = (csCalls \ {call}) \cup {new}
  BY <1>1, <1>3 DEF Replied
<1> QED
  BY <1>1, <1>4, <1>5

LEMMA CarryOutKeeps ==
  ASSUME ConsoleInv, NEW call \in csCalls, CarryOut(call)
  PROVE  ConsoleInv' /\ ConsoleStays
<1>1. call \in Calls /\ call.login \in Logins /\ CallFor(call, csPage, csOwner) /\ UNCHANGED <<csPage, csLoad, csSent, csUnasked, csOwner>>
      /\ call.answer = "none" /\ csCookie \in Logins
  BY DEF ConsoleInv, ConsoleTyped, CallsFit, CarryOut, Calls
<1>2. ASSUME Grown, NEW answer \in {"ok", "error", "denied"}, NEW row \in Rows, Replied(call, answer, row),
             answer = "ok" /\ call.kind \notin {"login", "logout"} => row.ws = call.login.ws /\ row.ws # "none",
             \A f \in PageFields : row.at[f] <= (IF row.ws = "none" THEN 0 ELSE csRows'[row.ws][f]),
             csCookie' \in Logins, csCookie'.ws \in {csCookie.ws, "none"} \/ (call.kind = "login" /\ csCookie' = call.login),
             call.kind = "login" /\ answer = "ok" => csCookie' = call.login,
             \A login \in csLive' : login \in csLive \/ (call.kind = "login" /\ login = call.login)
      PROVE  ConsoleInv' /\ ConsoleStays
  <2>1. PICK new \in Calls :
           /\ csCalls' = (csCalls \ {call}) \cup {new}
           /\ new.kind = call.kind /\ new.session = call.session /\ new.answer = answer /\ new.row = row
           /\ new.login = IF call.kind = "login" THEN call.login ELSE NoLogin
    BY <1>1, <1>2, RepliedFits
  <2>2. CallFor(new, csPage, csOwner)
    BY <1>1, <1>2, <2>1 DEF CallFor, NoLogin
  <2>3. CallsFit' /\ ConsoleIsHonest'
    BY <1>1, <2>1, <2>2, ReplaceKeeps
  <2>4. ConsoleTyped'
    <3>1. \A login \in csLive' : login \in Logins /\ login.ws # "none"
      BY <1>1, <1>2 DEF ConsoleInv, ConsoleTyped, LoginsFit
    <3> QED
      BY <1>1, <1>2, <2>1, <3>1 DEF ConsoleInv, ConsoleTyped, Grown
  <2>5. RowsFit'
    BY <1>1, <1>2, <2>1, GrowsKeeps
  <2>6. LoginsFit'
    <3>1. CASE call.kind = "login"
      <4>1. csPage.auth = "out" /\ call.login.ws # "none" /\ \A other \in csCalls : other.kind = "login" => other = call
        BY <3>1 DEF ConsoleInv, LoginsFit
      <4>2. \A other \in csCalls' : other.kind = "login" => other = new
        BY <2>1, <4>1
      <4>3. new.login = call.login /\ (new.answer = "ok" => csCookie' = call.login)
        BY <1>2, <2>1, <3>1
      <4> QED
        BY <1>1, <4>1, <4>2, <4>3 DEF LoginsFit
    <3>2. CASE call.kind # "login"
      <4>1. csCookie'.ws \in {csCookie.ws, "none"} /\ \A other \in csCalls' : other.kind = "login" => other \in csCalls
        BY <1>2, <2>1, <3>2
      <4> QED
        BY <1>1, <4>1 DEF ConsoleInv, LoginsFit
    <3> QED
      BY <3>1, <3>2
  <2>7. LoadFits' /\ ConsoleStays
    BY <1>1, ShownStays DEF ConsoleInv, LoadFits, LoadFor
  <2> QED
    BY <2>3, <2>4, <2>5, <2>6, <2>7 DEF ConsoleInv
<1>3. (UNCHANGED <<csRows, csWrites>>) => Grown
  BY DEF ConsoleInv, ConsoleTyped, RowsFit, Grown
<1>4. NoRow \in Rows /\ NoRow.ws = "none" /\ \A f \in PageFields : NoRow.at[f] <= 0
  BY Nothing DEF NoRow
<1>5. ASSUME NEW answer \in {"ok", "error", "denied"}, Replied(call, answer, NoRow), Grown,
             answer = "ok" => call.kind \in {"login", "logout"},
             csCookie' \in Logins, csCookie'.ws \in {csCookie.ws, "none"} \/ (call.kind = "login" /\ csCookie' = call.login),
             call.kind = "login" /\ answer = "ok" => csCookie' = call.login,
             \A login \in csLive' : login \in csLive \/ (call.kind = "login" /\ login = call.login)
      PROVE  ConsoleInv' /\ ConsoleStays
  BY <1>2, <1>4, <1>5
<1>6. CASE call.kind = "login"
  BY <1>1, <1>3, <1>5, <1>6 DEF CarryOut, Server
<1>7. CASE call.kind = "logout"
  <2>1. csCookie' \in Logins /\ csCookie'.ws \in {csCookie.ws, "none"}
    BY <1>1, <1>7 DEF CarryOut, Logins, Names
  <2>2. csLive' \subseteq csLive /\ UNCHANGED <<csRows, csWrites>> /\ \E answer \in {"ok", "error"} : Replied(call, answer, NoRow)
    BY <1>7 DEF CarryOut
  <2> QED
    BY <1>3, <1>5, <1>7, <2>1, <2>2
<1>8. CASE call.kind \notin {"login", "logout"} /\ call.login \notin csLive
  BY <1>1, <1>3, <1>5, <1>8 DEF CarryOut, Server
<1>9. CASE call.kind \notin {"login", "logout"} /\ call.login \in csLive
  <2>1. call.login.ws \in Workspaces /\ call.login.ws # "none"
    BY <1>9 DEF ConsoleInv, ConsoleTyped, Logins, Names
  <2>2. UNCHANGED <<csLive, csCookie>>
    BY <1>9 DEF CarryOut, Server
  <2>3. CASE Server /\ Replied(call, "error", NoRow)
    BY <1>1, <1>3, <1>5, <1>9, <2>2, <2>3 DEF Server
  <2>4. CASE Written(call.login.ws, Writes(call.kind)) /\ Replied(call, "error", NoRow)
    <3>1. Grown
      BY <2>1, <2>4, WrittenGrows DEF ConsoleInv
    <3> QED
      BY <1>1, <1>5, <1>9, <2>2, <2>4, <3>1
  <2>5. CASE Written(call.login.ws, Writes(call.kind)) /\ Replied(call, "ok", Part(call.kind, call.login.ws))
    <3>1. Grown
      BY <2>1, <2>5, WrittenGrows DEF ConsoleInv
    <3>2. PICK row : row = Part(call.kind, call.login.ws)
      OBVIOUS
    <3>3. row.ws = call.login.ws /\ row.at = [f \in PageFields |-> IF f \in Brings(call.kind) THEN csRows'[call.login.ws][f] ELSE 0]
      BY <3>2 DEF Part
    <3>4. \A f \in PageFields : csRows'[call.login.ws][f] \in Nat /\ row.at[f] \in {csRows'[call.login.ws][f], 0}
      BY <2>1, <3>1, <3>3 DEF Grown
    <3>5. row \in Rows
      BY <2>1, <3>2, <3>4 DEF Part, Rows, Names
    <3>6. \A f \in PageFields : row.at[f] <= (IF row.ws = "none" THEN 0 ELSE csRows'[row.ws][f])
      BY <2>1, <3>3, <3>4
    <3> QED
      BY <1>1, <1>2, <1>9, <2>1, <2>2, <2>5, <3>1, <3>2, <3>3, <3>5, <3>6
  <2> QED
    BY <1>9, <2>3, <2>4, <2>5 DEF CarryOut
<1> QED
  BY <1>6, <1>7, <1>8, <1>9

-----------------------------------------------------------------------------
(* Steps of answers.                                                       *)

\* A call that the page does not await is dropped.
LEMMA DropKeeps ==
  ASSUME ConsoleInv, NEW call \in csCalls, call \notin Mine \/ call.kind \in {"login", "logout"},
         csCalls' = csCalls \ {call}, Server, UNCHANGED <<csPage, csLoad, csSent, csUnasked, csOwner>>
  PROVE  ConsoleInv' /\ ConsoleStays
<1>1. ConsoleTyped' /\ LoginsFit' /\ LoadFits'
  BY DEF ConsoleInv, ConsoleTyped, LoginsFit, LoadFits, LoadFor, Server
<1>2. RowsFit'
  BY DEF ConsoleInv, RowsFit, WasRead, Server
<1>3. Mine' = Mine \ {call}
  BY DEF Mine
<1>4. CallsFit'
  BY <1>3 DEF ConsoleInv, CallsFit, CallFor, OnePerPanel
<1>5. {c.kind : c \in Mine'} \cap PanelKinds = {c.kind : c \in Mine} \cap PanelKinds
  BY <1>3, KindsDiffer
<1>6. ConsoleIsHonest'
  BY <1>3, <1>5 DEF ConsoleInv, ConsoleIsHonest
<1>7. ConsoleStays
  BY ShownStays DEF ConsoleInv
<1> QED
  BY <1>1, <1>2, <1>4, <1>6, <1>7 DEF ConsoleInv

\* The dialog of keys goes on with a call of its own, or is free again.
LEMMA DialogKeeps ==
  ASSUME ConsoleInv, NEW call \in csCalls, SentHere(call), call.kind \notin PanelKinds \cup {"login", "logout"},
         NEW added, csCalls' = (csCalls \ {call}) \cup added,
         \A c \in added : c \in Calls /\ WasRead(c.row) /\ CallFor(c, csPage, csOwner) /\ c.session = csPage.session /\ c.kind \in {"relist", "reload"},
         csPage' \in Pages, csPage'.auth = csPage.auth, csPage'.session = csPage.session, csPage'.version = csPage.version,
         csPage'.shown = csPage.shown, csPage'.pending = csPage.pending, csPage'.keys \in {csPage.keys, "none", csOwner},
         csPage'.keysBusy => added # {},
         csLoad' \in Loads, LoadFor(csLoad', csPage, csOwner), WasRead(csLoad'.row),
         Server, UNCHANGED <<csSent, csUnasked, csOwner>>
  PROVE  ConsoleInv' /\ ConsoleStays
<1>1. csPage.auth # "out"
  BY DEF ConsoleInv, CallsFit, CallFor, SentHere
<1>2. ConsoleTyped'
  BY DEF ConsoleInv, ConsoleTyped, Server
<1>3. RowsFit'
  BY DEF ConsoleInv, RowsFit, WasRead, Server
<1>4. LoginsFit' /\ LoadFits'
  BY <1>1 DEF ConsoleInv, LoginsFit, LoadFits, LoadFor, Server
<1>5. Mine' = (Mine \ {call}) \cup added
  BY DEF Mine
<1>6. \A c \in csCalls' : CallFor(c, csPage', csOwner')
  BY DEF ConsoleInv, CallsFit, CallFor
<1>7. \A c \in added : c.kind \notin PanelKinds \cup {"login", "logout"}
  BY KindsDiffer
<1>8. CallsFit'
  BY <1>5, <1>6, <1>7 DEF ConsoleInv, CallsFit, OnePerPanel
<1>9. {c.kind : c \in Mine'} \cap PanelKinds = {c.kind : c \in Mine} \cap PanelKinds
  BY <1>5, <1>7
<1>10. ConsoleIsHonest'
  BY <1>1, <1>5, <1>7, <1>9 DEF ConsoleInv, ConsoleIsHonest
<1>11. ConsoleStays
  BY ShownStays DEF ConsoleInv
<1> QED
  BY <1>2, <1>3, <1>4, <1>8, <1>10, <1>11 DEF ConsoleInv

LEMMA ReloadKeeps ==
  ASSUME ConsoleInv, NEW call \in csCalls, ReloadEnds(call)
  PROVE  ConsoleInv' /\ ConsoleStays
<1>1. call.kind = "reload" /\ csCalls' = csCalls \ {call} /\ Server /\ UNCHANGED <<csLoad, csSent, csUnasked, csOwner>>
      /\ csPage \in Pages
  BY DEF ReloadEnds, ConsoleInv, ConsoleTyped
<1>2. call.kind \notin PanelKinds \cup {"login", "logout"}
  BY <1>1, KindsDiffer
<1>3. CASE SentHere(call)
  <2>1. csPage' = [csPage EXCEPT !.keysBusy = FALSE]
    BY <1>3 DEF ReloadEnds
  <2>2. csPage' \in Pages /\ csPage'.auth = csPage.auth /\ csPage'.session = csPage.session /\ csPage'.version = csPage.version
        /\ csPage'.shown = csPage.shown /\ csPage'.pending = csPage.pending /\ csPage'.keys = csPage.keys /\ csPage'.keysBusy = FALSE
    BY <1>1, <2>1 DEF Pages
  <2>3. PICK added : added = {}
    OBVIOUS
  <2>5. csCalls' = (csCalls \ {call}) \cup added /\ \A c \in added : FALSE
    BY <1>1, <2>3
  <2>4. csLoad' \in Loads /\ LoadFor(csLoad', csPage, csOwner) /\ WasRead(csLoad'.row)
    BY <1>1 DEF ConsoleInv, ConsoleTyped, LoadFits, RowsFit
  <2> QED
    BY <1>1, <1>2, <1>3, <2>2, <2>4, <2>5, DialogKeeps
<1>4. CASE ~SentHere(call)
  <2>1. csPage' = csPage /\ call \notin Mine
    BY <1>4 DEF ReloadEnds, SentHere, Mine
  <2> QED
    BY <1>1, <2>1, DropKeeps
<1> QED
  BY <1>3, <1>4

LEMMA LoginAnswerKeeps ==
  ASSUME ConsoleInv, NEW call \in csCalls, call.kind \in {"login", "logout"}, LoginAnswer(call), Server, UNCHANGED <<csSent, csUnasked>>
  PROVE  ConsoleInv' /\ ConsoleStays
<1>1. /\ csPage \in Pages /\ csLoad \in Loads /\ WasRead(csLoad.row) /\ LoadFor(csLoad, csPage, csOwner) /\ csCookie \in Logins
      /\ csCalls' = csCalls \ {call} /\ call.login.ws \in Names
  BY DEF ConsoleInv, ConsoleTyped, LoadFits, RowsFit, LoginAnswer, Calls, Logins
<1>2. CASE call.kind = "login" /\ call.answer = "ok"
  <2>1. PICK page : page = [Cleared(csPage) EXCEPT !.auth = "in"]
    OBVIOUS
  <2>2. /\ page \in Pages /\ page.auth = "in" /\ page.session = csPage.session + 1 /\ page.version = csPage.version + 1
        /\ page.shown = NoRow /\ page.pending = {} /\ page.keysBusy = FALSE /\ page.keys = "none"
    BY <1>1, <2>1, ClearsPage
  <2>3. csPage' = page /\ csLoad' = Loaded(csLoad, page) /\ csOwner' = call.login.ws
    BY <1>2, <2>1 DEF LoginAnswer
  <2>4. csCookie.ws \in {"none", call.login.ws} /\ \A other \in csCalls' : other.kind # "login"
    BY <1>1, <1>2 DEF ConsoleInv, LoginsFit
  <2>5. LoadFor(csLoad, page, call.login.ws)
    BY <1>1, <2>2, NewSession
  <2>6. csLoad' \in Loads /\ LoadFor(csLoad', page, call.login.ws) /\ WasRead(csLoad'.row)
    BY <1>1, <2>2, <2>3, <2>4, <2>5, LoadedFits
  <2> QED
    BY <1>1, <2>2, <2>3, <2>4, <2>6, ClearedKeeps
<1>3. CASE call.kind = "logout" /\ call.answer = "ok"
  <2>1. csPage' = LoginShown(csPage) /\ UNCHANGED <<csLoad, csOwner>>
    BY <1>3 DEF LoginAnswer
  <2>2. CASE csPage.auth = "out"
    <3>1. csPage' = csPage
      BY <1>1, <2>1, <2>2, ShowsLogin
    <3> QED
      BY <1>1, <2>1, <3>1, DropKeeps
  <2>3. CASE csPage.auth # "out"
    <3>1. LoadFor(csLoad, csPage', csOwner)
      BY <1>1, <2>1, <2>3, ShowsLogin, NewSession
    <3> QED
      BY <1>1, <2>1, <2>3, <3>1, LoginShownKeeps
  <2> QED
    BY <2>2, <2>3
<1>4. CASE call.answer # "ok"
  <2>1. UNCHANGED <<csPage, csLoad, csOwner>>
    BY <1>4 DEF LoginAnswer
  <2> QED
    BY <1>1, <2>1, DropKeeps
<1> QED
  BY <1>2, <1>3, <1>4

\* What an answer brings is older than what is shown only in its own fields, and never the power.
LEMMA MergedFits ==
  ASSUME NEW shown \in Rows, WasRead(shown), NEW call \in Calls, WasRead(call.row)
  PROVE  /\ Merged(shown, call) \in Rows /\ WasRead(Merged(shown, call)) /\ Merged(shown, call).ws = shown.ws
         /\ \A f \in PageFields : Merged(shown, call).at[f] < shown.at[f] => f \in Brings(call.kind) /\ call.kind # "power"
         /\ \A f \in PageFields : f \notin Brings(call.kind) => Merged(shown, call).at[f] = shown.at[f]
<1>1. shown.at \in [PageFields -> Nat] /\ call.row.at \in [PageFields -> Nat]
  BY DEF Rows, Calls
<1>2. CASE shown.ws # call.row.ws \/ (call.kind = "power" /\ call.row.at["power"] < shown.at["power"])
  <2>1. Merged(shown, call) = shown
    BY <1>2 DEF Merged
  <2> QED
    BY <1>1, <2>1
<1>3. CASE shown.ws = call.row.ws /\ ~(call.kind = "power" /\ call.row.at["power"] < shown.at["power"])
  <2>1. PICK at : at = [f \in PageFields |-> IF f \in Brings(call.kind) THEN call.row.at[f] ELSE shown.at[f]]
    OBVIOUS
  <2>2. at \in [PageFields -> Nat]
        /\ \A f \in PageFields : at[f] = IF f \in Brings(call.kind) THEN call.row.at[f] ELSE shown.at[f]
    BY <1>1, <2>1
  <2>3. Merged(shown, call) = [shown EXCEPT !.at = at]
    BY <1>3, <2>1 DEF Merged
  <2>4. Merged(shown, call) \in Rows /\ Merged(shown, call).ws = shown.ws /\ Merged(shown, call).at = at
    BY <2>2, <2>3 DEF Rows
  <2>5. \A f \in PageFields : at[f] <= (IF shown.ws = "none" THEN 0 ELSE csRows[shown.ws][f])
    BY <1>3, <2>2 DEF WasRead
  <2>6. ASSUME NEW f \in PageFields, at[f] < shown.at[f]
        PROVE  f \in Brings(call.kind) /\ call.kind # "power"
    <3>1. shown.at[f] \in Nat
      BY <1>1
    <3>2. f \in Brings(call.kind) /\ at[f] = call.row.at[f]
      BY <2>2, <2>6, <3>1
    <3>3. CASE call.kind = "power"
      <4>1. f = "power"
        BY <3>2, <3>3 DEF Brings
      <4> QED
        BY <1>3, <2>6, <3>2, <3>3, <4>1
    <3> QED
      BY <3>2, <3>3
  <2> QED
    BY <2>2, <2>4, <2>5, <2>6 DEF WasRead
<1> QED
  BY <1>2, <1>3

LEMMA PanelAnswerKeeps ==
  ASSUME ConsoleInv, NEW call \in csCalls, call.kind \in PanelKinds, SentHere(call), PanelAnswer(call), Server, UNCHANGED <<csSent, csUnasked>>
  PROVE  ConsoleInv' /\ ConsoleStays
<1>1. /\ csPage \in Pages /\ csPage.shown \in Rows /\ WasRead(csPage.shown) /\ call \in Calls /\ WasRead(call.row)
      /\ csLoad \in Loads /\ WasRead(csLoad.row) /\ LoadFor(csLoad, csPage, csOwner) /\ csCookie \in Logins
      /\ csPage.version \in Nat /\ csPage.pending \subseteq PanelKinds
  BY DEF ConsoleInv, ConsoleTyped, LoadFits, RowsFit, Pages
<1>2. csPage.auth # "out" /\ call \in Mine /\ csCookie.ws \in {"none", csOwner}
  BY KindsDiffer DEF ConsoleInv, CallsFit, CallFor, SentHere, Mine, LoginsFit
<1>3. csCalls' = csCalls \ {call} /\ csOwner' = csOwner
  BY DEF PanelAnswer
<1>4. CASE call.answer = "denied"
  <2>1. csPage' = LoginShown(csPage) /\ csLoad' = csLoad
    BY <1>4 DEF PanelAnswer
  <2>2. LoadFor(csLoad, csPage', csOwner)
    BY <1>1, <1>2, <2>1, ShowsLogin, NewSession
  <2> QED
    BY <1>1, <1>2, <1>3, <2>1, <2>2, LoginShownKeeps
<1>5. CASE call.answer # "denied"
  <2>1. PICK version : version = IF (IF call.answer = "ok" THEN call.kind # "location" ELSE FailureCounts(call.kind))
                                 THEN csPage.version + 1 ELSE csPage.version
    OBVIOUS
  <2>2. PICK shown : shown = IF call.answer = "ok" THEN Merged(csPage.shown, call) ELSE csPage.shown
    OBVIOUS
  <2>3. /\ shown \in Rows /\ WasRead(shown) /\ shown.ws = csPage.shown.ws
        /\ \A f \in PageFields : shown.at[f] < csPage.shown.at[f] => f \in Brings(call.kind) /\ call.kind # "power"
    <3>1. \A f \in PageFields : csPage.shown.at[f] \in Nat
      BY <1>1 DEF Rows
    <3> QED
      BY <1>1, <2>2, <3>1, MergedFits
  <2>4. version \in Nat /\ version >= csPage.version
    BY <1>1, <2>1
  <2>5. version = csPage.version => \A f \in PageFields : shown.at[f] = csPage.shown.at[f]
    <3>1. CASE call.answer = "ok" /\ call.kind = "location"
      <4>1. Brings(call.kind) = {}
        BY <3>1 DEF Brings
      <4> QED
        BY <1>1, <2>2, <3>1, <4>1, MergedFits
    <3>2. CASE call.answer = "ok" /\ call.kind # "location"
      BY <1>1, <2>1, <3>2
    <3>3. CASE call.answer # "ok"
      BY <2>2, <3>3
    <3> QED
      BY <3>1, <3>2, <3>3
  <2>6. PICK after : after = [csPage EXCEPT !.pending = @ \ {call.kind}, !.version = version, !.shown = shown]
    OBVIOUS
  <2>7. after \in Pages /\ after.auth = csPage.auth /\ after.session = csPage.session /\ after.version = version /\ after.shown = shown
        /\ after.pending = csPage.pending \ {call.kind} /\ after.keysBusy = csPage.keysBusy /\ after.keys = csPage.keys
    BY <1>1, <2>3, <2>4, <2>6 DEF Pages
  <2>8. csPage' = after /\ csLoad' \in {csLoad, Loaded(csLoad, after)}
    <3>1. after = [[csPage EXCEPT !.pending = @ \ {call.kind}] EXCEPT
                     !.version = IF (IF call.answer = "ok" THEN call.kind # "location" ELSE FailureCounts(call.kind)) THEN @ + 1 ELSE @,
                     !.shown = IF call.answer = "ok" THEN Merged(@, call) ELSE @]
      <4>1. [csPage EXCEPT !.pending = @ \ {call.kind}] = [csPage EXCEPT !.pending = csPage.pending \ {call.kind}]
        OBVIOUS
      <4> QED
        BY <1>1, <2>1, <2>2, <2>6 DEF Pages
    <3> QED
      BY <1>5, <3>1 DEF PanelAnswer
  <2>9. LoadFor(csLoad, after, csOwner)
    <3>1. csLoad.version \in Nat /\ csLoad.version <= version /\ (csLoad.version = version => version = csPage.version)
      BY <1>1, <2>4 DEF LoadFor, Loads
    <3> QED
      BY <1>1, <2>5, <2>7, <3>1 DEF LoadFor
  <2>10. csLoad' \in Loads /\ LoadFor(csLoad', after, csOwner) /\ WasRead(csLoad'.row)
    BY <1>1, <1>2, <2>7, <2>8, <2>9, LoadedFits
  <2>11. ConsoleTyped'
    BY <1>3, <2>7, <2>8, <2>10 DEF ConsoleInv, ConsoleTyped, Server
  <2>12. RowsFit'
    BY <1>3, <2>3, <2>7, <2>8, <2>10 DEF ConsoleInv, RowsFit, WasRead, Server
  <2>13. LoginsFit' /\ LoadFits'
    BY <1>2, <1>3, <2>7, <2>8, <2>10 DEF ConsoleInv, LoginsFit, LoadFits, LoadFor, Server
  <2>14. Mine' = Mine \ {call}
    BY <1>3, <2>7, <2>8 DEF Mine
  <2>15. CallsFit'
    BY <1>3, <2>7, <2>8, <2>14 DEF ConsoleInv, CallsFit, CallFor, OnePerPanel
  <2>16. csPage'.pending = {c.kind : c \in Mine'} \cap PanelKinds
    <3>1. \A c \in Mine : c.kind = call.kind => c = call
      BY <1>2 DEF ConsoleInv, CallsFit, OnePerPanel
    <3>2. {c.kind : c \in Mine \ {call}} = {c.kind : c \in Mine} \ {call.kind}
      BY <1>2, <3>1
    <3> QED
      BY <2>7, <2>8, <2>14, <3>2 DEF ConsoleInv, ConsoleIsHonest
  <2>17. ConsoleIsHonest'
    BY <1>2, <1>3, <2>3, <2>7, <2>8, <2>14, <2>16 DEF ConsoleInv, ConsoleIsHonest
  <2>18. ConsoleStays
    <3>1. call \in csCalls \ csCalls'
      BY <1>3
    <3>2. \A f \in TookBack : f \in Brings(call.kind) /\ call.kind # "power"
      BY <2>3, <2>7, <2>8 DEF TookBack
    <3> QED
      BY <3>1, <3>2 DEF ConsoleStays
  <2> QED
    BY <2>11, <2>12, <2>13, <2>15, <2>17, <2>18 DEF ConsoleInv
<1> QED
  BY <1>4, <1>5

LEMMA KeysAnswerKeeps ==
  ASSUME ConsoleInv, NEW call \in csCalls, call.kind \notin PanelKinds \cup {"login", "logout"}, SentHere(call), call.answer # "none",
         KeysAnswer(call), Server, UNCHANGED <<csSent, csUnasked>>
  PROVE  ConsoleInv' /\ ConsoleStays
<1>1. /\ csPage \in Pages /\ call \in Calls /\ csLoad \in Loads /\ WasRead(csLoad.row) /\ LoadFor(csLoad, csPage, csOwner)
      /\ csCookie \in Logins /\ csOwner \in Names /\ csPage.session \in Nat /\ csOwner' = csOwner
      /\ csPage.keys \in {"none", csOwner}
  BY DEF ConsoleInv, ConsoleTyped, LoadFits, RowsFit, Pages, KeysAnswer, ConsoleIsHonest
<1>2. csPage.auth # "out" /\ csCookie.ws \in {"none", csOwner} /\ (call.answer = "ok" => call.row.ws = csOwner)
      /\ call.session = csPage.session
  BY DEF ConsoleInv, CallsFit, CallFor, SentHere, LoginsFit
<1>3. CASE call.answer = "denied"
  <2>1. csPage' = LoginShown(csPage) /\ csLoad' = csLoad /\ csCalls' = csCalls \ {call}
    BY <1>3 DEF KeysAnswer
  <2>2. LoadFor(csLoad, csPage', csOwner)
    BY <1>1, <1>2, <2>1, ShowsLogin, NewSession
  <2> QED
    BY <1>1, <1>2, <2>1, <2>2, LoginShownKeeps
<1>4. PICK keys : keys = IF call.kind \notin {"list", "relist"} THEN csPage.keys ELSE IF call.answer = "ok" THEN call.row.ws ELSE "none"
  OBVIOUS
<1>5. keys \in {csPage.keys, "none", csOwner} /\ keys \in Names
  BY <1>1, <1>2, <1>4 DEF Names
<1>6. PICK listed : listed = [csPage EXCEPT !.keys = keys]
  OBVIOUS
<1>7. listed \in Pages /\ listed.auth = csPage.auth /\ listed.session = csPage.session /\ listed.version = csPage.version
      /\ listed.shown = csPage.shown /\ listed.pending = csPage.pending /\ listed.keys = keys /\ listed.keysBusy = csPage.keysBusy
  BY <1>1, <1>5, <1>6 DEF Pages
<1>8. listed = [csPage EXCEPT !.keys = IF call.kind \notin {"list", "relist"} THEN @ ELSE IF call.answer = "ok" THEN call.row.ws ELSE "none"]
  BY <1>1, <1>4, <1>6 DEF Pages
<1>9. LoadFor(Loaded(csLoad, csPage), csPage, csOwner) /\ Loaded(csLoad, csPage) \in Loads /\ WasRead(Loaded(csLoad, csPage).row)
  BY <1>1, <1>2, LoadedFits
<1>10. ASSUME NEW kind \in {"relist", "reload"},
              csCalls' = (csCalls \ {call}) \cup {[NoCall EXCEPT !.kind = kind, !.session = call.session, !.login = csCookie]},
              csPage' \in {csPage, listed}, csLoad' \in {csLoad, Loaded(csLoad, csPage)}
       PROVE  ConsoleInv' /\ ConsoleStays
  <2>1. PICK new : new = [NoCall EXCEPT !.kind = kind, !.session = csPage.session, !.login = csCookie]
    OBVIOUS
  <2>2. AsSent(new, 0, kind, csPage.session, csCookie)
    BY <1>1, <2>1, NewCall, KindsDiffer
  <2>3. CallFor(new, csPage, csOwner)
    BY <1>1, <1>2, <2>2 DEF AsSent, CallFor
  <2>4. PICK added : added = {new}
    OBVIOUS
  <2>5. csCalls' = (csCalls \ {call}) \cup added
    BY <1>2, <1>10, <2>1, <2>4
  <2>6. \A c \in added : c \in Calls /\ WasRead(c.row) /\ CallFor(c, csPage, csOwner) /\ c.session = csPage.session /\ c.kind \in {"relist", "reload"}
    BY <2>2, <2>3, <2>4 DEF AsSent
  <2>7. added # {}
    BY <2>4
  <2>8. csPage' \in Pages /\ csPage'.auth = csPage.auth /\ csPage'.session = csPage.session /\ csPage'.version = csPage.version
        /\ csPage'.shown = csPage.shown /\ csPage'.pending = csPage.pending /\ csPage'.keys \in {csPage.keys, "none", csOwner}
    BY <1>1, <1>5, <1>7, <1>10
  <2>9. csLoad' \in Loads /\ LoadFor(csLoad', csPage, csOwner) /\ WasRead(csLoad'.row)
    BY <1>1, <1>9, <1>10
  <2> QED
    BY <1>1, <2>5, <2>6, <2>7, <2>8, <2>9, DialogKeeps
<1>11. CASE csCalls' = csCalls \ {call} /\ csPage' = [listed EXCEPT !.keysBusy = FALSE] /\ UNCHANGED csLoad
  <2>1. csPage' \in Pages /\ csPage'.auth = csPage.auth /\ csPage'.session = csPage.session /\ csPage'.version = csPage.version
        /\ csPage'.shown = csPage.shown /\ csPage'.pending = csPage.pending /\ csPage'.keys \in {csPage.keys, "none", csOwner}
        /\ csPage'.keysBusy = FALSE
    BY <1>5, <1>7, <1>11 DEF Pages
  <2>2. PICK added : added = {}
    OBVIOUS
  <2>3. csCalls' = (csCalls \ {call}) \cup added /\ \A c \in added : FALSE
    BY <1>11, <2>2
  <2> QED
    BY <1>1, <1>11, <2>1, <2>3, DialogKeeps
<1>12. CASE call.kind = "change" /\ call.answer = "ok"
  <2>1. csCalls' = (csCalls \ {call}) \cup {[NoCall EXCEPT !.kind = "relist", !.session = call.session, !.login = csCookie]}
        /\ csPage' = csPage /\ csLoad' = csLoad
    BY <1>12 DEF KeysAnswer
  <2> QED
    BY <1>10, <2>1
<1>13. CASE call.answer # "denied" /\ (call.kind = "relist" \/ (call.kind = "wigle" /\ call.answer = "ok"))
  <2>1. csCalls' = (csCalls \ {call}) \cup {[NoCall EXCEPT !.kind = "reload", !.session = call.session, !.login = csCookie]}
        /\ csPage' = listed /\ csLoad' = Loaded(csLoad, csPage)
    BY <1>8, <1>13 DEF KeysAnswer
  <2> QED
    BY <1>10, <2>1
<1>14. CASE call.answer # "denied" /\ ~(call.kind = "change" /\ call.answer = "ok")
            /\ ~(call.kind = "relist" \/ (call.kind = "wigle" /\ call.answer = "ok"))
  BY <1>8, <1>11, <1>14 DEF KeysAnswer
<1> QED
  BY <1>3, <1>12, <1>13, <1>14

LEMMA PageAnswerKeeps ==
  ASSUME ConsoleInv, NEW call \in csCalls, ConsoleAnswer(call)
  PROVE  ConsoleInv' /\ ConsoleStays
<1>1. Server /\ UNCHANGED <<csSent, csUnasked>> /\ call.answer # "none"
  BY DEF ConsoleAnswer
<1>2. CASE call.kind \in {"login", "logout"}
  <2>1. LoginAnswer(call)
    BY <1>2 DEF ConsoleAnswer
  <2> QED
    BY <1>1, <1>2, <2>1, LoginAnswerKeeps
<1>3. CASE call.kind \notin {"login", "logout"} /\ ~SentHere(call)
  <2>1. csCalls' = csCalls \ {call} /\ UNCHANGED <<csPage, csLoad, csOwner>> /\ call \notin Mine
    BY <1>3 DEF ConsoleAnswer, SentHere, Mine
  <2> QED
    BY <1>1, <2>1, DropKeeps
<1>4. CASE call.kind \in PanelKinds /\ SentHere(call)
  <2>1. PanelAnswer(call)
    BY <1>4, KindsDiffer DEF ConsoleAnswer
  <2> QED
    BY <1>1, <1>4, <2>1, PanelAnswerKeeps
<1>5. CASE call.kind \notin PanelKinds \cup {"login", "logout"} /\ SentHere(call)
  <2>1. KeysAnswer(call)
    BY <1>5 DEF ConsoleAnswer
  <2> QED
    BY <1>1, <1>5, <2>1, KeysAnswerKeeps
<1> QED
  BY <1>2, <1>3, <1>4, <1>5

LEMMA ConsoleStep == ConsoleInv /\ [ConsoleNext]_consoleVars => ConsoleInv' /\ ConsoleStays
<1> SUFFICES ASSUME ConsoleInv, [ConsoleNext]_consoleVars PROVE ConsoleInv' /\ ConsoleStays
  OBVIOUS
<1>1. CASE UNCHANGED consoleVars
  <2>1. ConsoleInv'
    BY <1>1 DEF consoleVars, ConsoleInv, ConsoleTyped, RowsFit, WasRead, LoginsFit, CallsFit, CallFor, OnePerPanel, Mine,
                LoadFits, LoadFor, ConsoleIsHonest
  <2> QED
    BY <1>1, <2>1, ShownStays DEF consoleVars, ConsoleInv
<1>2. CASE Poll
  BY <1>2, PollKeeps
<1>3. CASE SnapshotReads
  BY <1>3, SnapshotKeeps
<1>4. CASE TakeLoad
  BY <1>4, TakeLoadKeeps
<1>5. CASE Elsewhere
  BY <1>5, ElsewhereKeeps
<1>6. CASE \E kind \in PanelKinds : Command(kind)
  BY <1>6, CommandKeeps
<1>7. CASE OpenKeys \/ Logout \/ \E kind \in {"change", "wigle"} : ChangeKeys(kind)
  BY <1>7, KeysKeep
<1>8. CASE \E w \in Workspaces : LogIn(w)
  BY <1>8, LogInKeeps
<1>9. CASE \E call \in csCalls : CarryOut(call) \/ ConsoleAnswer(call) \/ ReloadEnds(call)
  BY <1>9, CarryOutKeeps, PageAnswerKeeps, ReloadKeeps
<1> QED
  BY <1>1, <1>2, <1>3, <1>4, <1>5, <1>6, <1>7, <1>8, <1>9 DEF ConsoleNext

LEMMA ConsoleStarts == ConsoleInit => ConsoleInv
<1> SUFFICES ASSUME ConsoleInit PROVE ConsoleInv
  OBVIOUS
<1>1. csCookie \in Logins /\ csOwner = csCookie.ws /\ csOwner \in Names
  <2>1. PICK w \in Workspaces : csCookie \in {NoLogin, [n |-> 1, ws |-> w]}
    BY DEF ConsoleInit
  <2> QED
    BY <2>1, Nothing DEF ConsoleInit, Logins, Names
<1>2. \A login \in csLive : login \in Logins /\ login.ws # "none"
  BY ConsoleBounds DEF ConsoleInit, Logins, Names
<1>3. csPage \in Pages /\ csPage.auth = "unknown" /\ csPage.session = 1 /\ csPage.version = 1 /\ csPage.shown = NoRow
      /\ csPage.pending = {} /\ csPage.keysBusy = FALSE /\ csPage.keys = "none"
  BY Nothing DEF ConsoleInit, PageInit
<1>4. csLoad \in Loads /\ csLoad.pc = "asked" /\ csLoad.session = 1 /\ csLoad.version = 1 /\ csLoad.login = csCookie /\ csLoad.row = NoRow
  BY <1>1, Nothing DEF ConsoleInit, Loads
<1>5. csRows \in [Workspaces -> [PageFields -> Nat]] /\ \A w \in Workspaces, f \in PageFields : csRows[w][f] <= csWrites
  BY DEF ConsoleInit
<1>6. csCalls = {} /\ csWrites = 0 /\ csSent = 0 /\ csUnasked = 0
  BY DEF ConsoleInit
<1>7. ConsoleTyped
  BY <1>1, <1>2, <1>3, <1>4, <1>5, <1>6 DEF ConsoleTyped
<1>8. RowsFit /\ LoginsFit
  BY <1>1, <1>3, <1>4, <1>5, <1>6, Nothing DEF RowsFit, LoginsFit
<1>9. CallsFit /\ LoadFits /\ Mine = {}
  BY <1>1, <1>3, <1>4, <1>6 DEF CallsFit, OnePerPanel, Mine, LoadFits, LoadFor
<1>10. ConsoleIsHonest
  BY <1>3, <1>9, Nothing DEF ConsoleIsHonest
<1> QED
  BY <1>7, <1>8, <1>9, <1>10 DEF ConsoleInv

LEMMA ConsoleHolds == ConsoleInit /\ [][ConsoleNext]_consoleVars => []ConsoleInv
BY ConsoleStarts, ConsoleStep, PTL

-----------------------------------------------------------------------------
(* Both pages.                                                             *)

\* The console shows nothing of another login and leaves no panel of its own
\* locked, and a trip that is shown is one of the controller's: for any
\* number of edits, commands, logins and answers that are late or lost.
THEOREM PagesHonest == PagesSpec => []PagesAreHonest
<1>1. ConsoleInv => ConsoleIsHonest
  BY DEF ConsoleInv
<1> QED
  BY <1>1, ConsoleHolds, PanelHolds, PTL DEF PagesSpec, PagesAreHonest

\* Neither page goes back to what it showed before, the driving panel waits
\* for its own calls only, starts no trip that its form has left behind, and
\* repeats no command that was carried out and left its mark.
THEOREM PagesUpToDate == PagesSpec => PagesKeepUp
<1>1. PanelInv /\ ConsoleInv /\ [PanelNext]_panelVars /\ [ConsoleNext]_consoleVars => PanelStays /\ ConsoleStays
  BY PanelStaysOn, ConsoleStep
<1> QED
  BY <1>1, ConsoleHolds, PanelHolds, PTL DEF PagesSpec, PagesKeepUp
=============================================================================
