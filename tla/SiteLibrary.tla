---------------------------- MODULE SiteLibrary ----------------------------
(***************************************************************************)
(* The saved WiGLE library of a site's phone: refreshSiteLibrary           *)
(* (sites/profile.ts) queries the paid search only for the endpoints whose *)
(* last answer is a week old, page by page, and saves each answer          *)
(* (ops/wigleUpload.ts) before it asks for the next; the planner refreshes *)
(* sites weekly and spaces its retries (sites/jobs.ts).                    *)
(*                                                                         *)
(* The operator's and the planner's refreshes take the phone's lease; it   *)
(* may lapse, so here they may overlap.                                    *)
(***************************************************************************)
EXTENDS Integers, Sequences, FiniteSets

CONSTANTS
  Ttl, RetryAfter,        \* a week and a day, in ticks
  MaxPages,               \* pages of one query
  MaxLibrary,             \* MAX_DEVICE_WIGLE_UPLOADS
  MaxLibraryClock, MaxLibraryFaults   \* bounds: time, restarts

ASSUME SiteLibraryAssumption ==
  /\ Ttl \in Nat \ {0} /\ RetryAfter \in 1..Ttl
  /\ MaxPages \in Nat \ {0} /\ MaxLibrary \in Nat
  /\ MaxLibraryClock \in Nat /\ MaxLibraryFaults \in Nat

VARIABLES
  lClock,
  library,     \* the saved answers: endpoint and time of the query
  files,       \* the files a user saved into the same library
  flight,      \* performRefresh of the site's key, by who began it
  awaits,      \* whose refresh the operator and the planner await
  weekly,      \* the Site row: weeklyRefresh, nextWigleRefreshAt and wigleCheckedAt
  failedAt,    \* (history) when a weekly refresh last began that has not succeeded
  lFaults

libraryVars == <<lClock, library, files, flight, awaits, weekly, failedAt, lFaults>>

Askers    == {"operator", "planner"}
Nobody    == "nobody"
Endpoints == <<"network/search", "cell/search">>   \* in the order they are queried
Unset     == -1                                     \* null: no time stored

NoFlight == [pc |-> "idle", missing |-> <<>>, at |-> 0, pages |-> 0]

LibraryInit ==
  /\ lClock = 0
  /\ library = {} /\ files = 0
  /\ flight = [a \in Askers |-> NoFlight]
  /\ awaits = [a \in Askers |-> Nobody]
  /\ weekly = [on |-> FALSE, next |-> Unset, checked |-> Unset]
  /\ failedAt = Unset
  /\ lFaults = 0

-----------------------------------------------------------------------------
(* What the library says.                                                  *)

Size == Cardinality(library) + files

\* checkedEndpoints: the newest answer of an endpoint.
Checked(endpoint) ==
  LET times == {u.at : u \in {v \in library : v.endpoint = endpoint}}
  IN IF times = {} THEN Unset ELSE CHOOSE t \in times : \A s \in times : s <= t

IsMissing(endpoint) == Checked(endpoint) = Unset \/ lClock - Checked(endpoint) >= Ttl

IfMissing(endpoint) == IF IsMissing(endpoint) THEN <<endpoint>> ELSE <<>>

MissingEndpoints == IfMissing(Endpoints[1]) \o IfMissing(Endpoints[2])

\* completedCheck: the older of the two, if there are two.
CompletedCheck ==
  LET network == Checked(Endpoints[1])
      cell    == Checked(Endpoints[2])
  IN IF network = Unset \/ cell = Unset THEN Unset ELSE IF network <= cell THEN network ELSE cell

-----------------------------------------------------------------------------
(* refreshSiteLibrary: one refresh of a key at a time; the others join it. *)

Flying == {a \in Askers : flight[a].pc # "idle"}

Begins(who) ==
  /\ flight' = [flight EXCEPT ![who] = [NoFlight EXCEPT !.pc = "read"]]
  /\ awaits' = [awaits EXCEPT ![who] = who]

\* Mutant: whoever asks begins a refresh of its own.
JoinsNobody(who) == awaits[who] = Nobody /\ Begins(who)

Joins(who) ==
  /\ awaits[who] = Nobody
  /\ IF Flying = {} THEN Begins(who)
     ELSE \E other \in Flying : awaits' = [awaits EXCEPT ![who] = other] /\ UNCHANGED flight

\* The refresh of who is over, for all who await it.
Lands(who) ==
  /\ flight' = [flight EXCEPT ![who] = NoFlight]
  /\ awaits' = [a \in Askers |-> IF awaits[a] = who THEN Nobody ELSE awaits[a]]

\* A refresh that succeeds is stored on the site by those who awaited it.
Settles(who) ==
  /\ Lands(who)
  /\ weekly' = [weekly EXCEPT !.checked = CompletedCheck, !.next = CompletedCheck + Ttl]
  /\ failedAt' = Unset
  /\ UNCHANGED <<lClock, library, files, lFaults>>

\* It fails for everyone who awaits it; what was saved stays.
Aborts(who) ==
  /\ Lands(who)
  /\ UNCHANGED <<lClock, library, files, weekly, failedAt, lFaults>>

Flies(who, next) ==
  /\ flight' = [flight EXCEPT ![who] = next]
  /\ UNCHANGED <<lClock, files, awaits, weekly, failedAt, lFaults>>

\* The uploads are read: nothing is missing, nothing fits, or the queries begin.
ReadLibrary(who) ==
  /\ flight[who].pc = "read"
  /\ IF MissingEndpoints = <<>> THEN Settles(who)
     ELSE IF Size + Len(MissingEndpoints) > MaxLibrary THEN Aborts(who)
     ELSE /\ Flies(who, [pc |-> "query", missing |-> MissingEndpoints, at |-> lClock, pages |-> 0])
          /\ UNCHANGED library

\* One page of the answer: an error ends the refresh, as does a first page that
\* does not fit; a page that does not fit is left out, and the last page, a
\* repeated cursor or the limit ends the query.
QueryPage(who, answer) ==
  /\ flight[who].pc = "query"
  /\ answer = "repeat" => flight[who].pages > 0
  /\ IF answer = "error" \/ (answer = "oversize" /\ flight[who].pages = 0) THEN Aborts(who)
     ELSE /\ Flies(who, [flight[who] EXCEPT
                !.pages = IF answer = "oversize" THEN @ ELSE @ + 1,
                !.pc = IF answer = "more" /\ flight[who].pages + 1 < MaxPages THEN "query" ELSE "save"])
          /\ UNCHANGED library

\* saveWigleUpload: the count is taken again in the transaction.  The next
\* endpoint is queried only when this answer is saved.
SaveUpload(who) ==
  /\ flight[who].pc = "save"
  /\ IF Size >= MaxLibrary THEN Aborts(who)
     ELSE /\ library' = library \cup {[endpoint |-> Head(flight[who].missing), at |-> flight[who].at]}
          /\ Flies(who, [pc |-> IF Len(flight[who].missing) = 1 THEN "done" ELSE "query",
                         missing |-> Tail(flight[who].missing), at |-> lClock, pages |-> 0])

RefreshEnds(who) == flight[who].pc = "done" /\ Settles(who)

-----------------------------------------------------------------------------
(* Who asks for a refresh, and who else writes to the library.             *)

OperatorRefreshes ==
  /\ Joins("operator")
  /\ UNCHANGED <<lClock, library, files, weekly, failedAt, lFaults>>

\* The planner claims a retry window before it asks.
PlannerRefreshes ==
  /\ weekly.on /\ weekly.next # Unset /\ weekly.next <= lClock
  /\ weekly' = [weekly EXCEPT !.next = lClock + RetryAfter]
  /\ failedAt' = lClock
  /\ Joins("planner")
  /\ UNCHANGED <<lClock, library, files, lFaults>>

\* editSite: the first time it is switched on, a weekly refresh is due at once.
ToggleWeekly ==
  /\ weekly' = [weekly EXCEPT !.on = ~@, !.next = IF ~weekly.on /\ @ = Unset THEN lClock ELSE @]
  /\ UNCHANGED <<lClock, library, files, flight, awaits, failedAt, lFaults>>

\* A user saves a file of observations.
UserSaves ==
  /\ Size < MaxLibrary
  /\ files' = files + 1
  /\ UNCHANGED <<lClock, library, flight, awaits, weekly, failedAt, lFaults>>

LibraryTick ==
  /\ lClock < MaxLibraryClock
  /\ lClock' = lClock + 1
  /\ UNCHANGED <<library, files, flight, awaits, weekly, failedAt, lFaults>>

LibraryRestarts ==
  /\ lFaults < MaxLibraryFaults
  /\ lFaults' = lFaults + 1
  /\ flight' = [a \in Askers |-> NoFlight]
  /\ awaits' = [a \in Askers |-> Nobody]
  /\ UNCHANGED <<lClock, library, files, weekly, failedAt>>

LibraryNext ==
  \/ \E who \in Askers : ReadLibrary(who) \/ SaveUpload(who) \/ RefreshEnds(who)
  \/ \E who \in Askers, answer \in {"error", "oversize", "more", "repeat", "last"} : QueryPage(who, answer)
  \/ OperatorRefreshes \/ PlannerRefreshes \/ ToggleWeekly
  \/ UserSaves \/ LibraryTick \/ LibraryRestarts

LibrarySpec == LibraryInit /\ [][LibraryNext]_libraryVars

-----------------------------------------------------------------------------
Answers == [endpoint : {Endpoints[1], Endpoints[2]}, at : 0..MaxLibraryClock]
Flights == [pc : {"idle", "read", "query", "save", "done"},
            missing : {<<>>, <<Endpoints[1]>>, <<Endpoints[2]>>, Endpoints},
            at : 0..MaxLibraryClock, pages : 0..MaxPages]

LibraryTypeOK ==
  /\ lClock \in 0..MaxLibraryClock
  /\ library \subseteq Answers /\ IsFiniteSet(library)
  /\ files \in Nat /\ Size <= MaxLibrary
  /\ flight \in [Askers -> Flights]
  /\ awaits \in [Askers -> Askers \cup {Nobody}]
  /\ weekly \in [on : BOOLEAN, next : Nat \cup {Unset}, checked : Nat \cup {Unset}]
  /\ failedAt \in 0..MaxLibraryClock \cup {Unset} /\ lFaults \in 0..MaxLibraryFaults

\* The search is paid for once a week: two saved answers of an endpoint are a
\* week apart, whoever asks, however many ask at once, and whatever failed or
\* was restarted between them.
AnswersAreSpaced ==
  \A u, v \in library : u.endpoint = v.endpoint /\ u.at < v.at => v.at - u.at >= Ttl

\* A weekly refresh that failed is not tried again before its retry window ends.
RetriesAreSpaced ==
  failedAt # Unset => weekly.next >= failedAt + RetryAfter

\* The time a site says its library was checked is the time of saved answers.
CheckIsSaved ==
  weekly.checked # Unset =>
    \A k \in 1..2 : \E u \in library : u.endpoint = Endpoints[k] /\ u.at >= weekly.checked

\* The library is asked for, and vouched for, no more than it should be.
LibraryIsHonest == AnswersAreSpaced /\ RetriesAreSpaced /\ CheckIsSaved
=============================================================================
