--------------------------- MODULE RadioContract ---------------------------
(***************************************************************************)
(* What one radio request, the phone's result and an independent readback  *)
(* may say, and what the controller concludes from them: the rules of      *)
(* radio/contract.ts and the comparison of radio/policy.ts, driven by a    *)
(* phone that applies what it can and an observer that reports what it     *)
(* reads, from a cache or afresh, inside or outside the injected packages. *)
(*                                                                         *)
(* An interface's surroundings say for every identity whether it is absent *)
(* or heard at a level near to or far from the one the frame asks for.     *)
(* Identities of sessions, boots, images and frames are matched first and  *)
(* are taken to agree; what disagrees is refused without a comparison.     *)
(***************************************************************************)
EXTENDS Integers

CONSTANTS
  Interfaces, Identities,
  PhoneModes    \* the measurement modes of builds: EXCLUSIVE, ADDITIVE

ASSUME RadioContractAssumption == PhoneModes \subseteq {"EXCLUSIVE", "ADDITIVE"}

VARIABLES
  stage,         \* what was exchanged: "built", "sent", "answered", "compared"
  build,         \* the capabilities: the mode and the supported interfaces
  asked,         \* the request: a directive and entries for every interface
  before, after, \* (phone) what apps hear on every interface, before and after
  answer,        \* the result the phone reported
  report         \* the readback

contractVars == <<stage, build, asked, before, after, answer, report>>

Hearing == [Identities -> {"absent", "near", "far"}]
Silence == [e \in Identities |-> "absent"]
\* The phone's own surroundings: silence, nearly what a frame may ask, other levels.
Surroundings == {Silence, [e \in Identities |-> "near"], [e \in Identities |-> "far"]}

Directives ==
  [directive : {"HOLD", "CLEAR"}, entries : {{}}] \cup
  [directive : {"REPLACE"}, entries : SUBSET Identities]

InterfaceOutcomes ==
  {"PENDING", "APPLIED", "HELD", "CLEARED", "REJECTED", "UNSUPPORTED_IN_SCOPE", "UNAVAILABLE", "FAILED"}
Availabilities == {"MEASURED", "NOT_YET_MEASURED", "UNAVAILABLE", "UNSUPPORTED_IN_SCOPE"}
SettledOk == {"APPLIED", "HELD", "CLEARED"}
Wrote     == {"APPLIED", "CLEARED"}
Unanswered  == [lifecycle |-> "NONE", outcomes |-> [i \in Interfaces |-> "PENDING"], certain |-> TRUE, rolledBack |-> FALSE]
NoReport  == [scope |-> "UNKNOWN", availability |-> [i \in Interfaces |-> "NOT_YET_MEASURED"],
              fresh |-> [i \in Interfaces |-> {}], throttled |-> FALSE, warned |-> FALSE]

ContractInit ==
  /\ stage = "built"
  /\ build \in [mode : PhoneModes, supported : SUBSET Interfaces]
  /\ asked = [i \in Interfaces |-> [directive |-> "HOLD", entries |-> {}]]
  /\ before \in {[i \in Interfaces |-> s] : s \in Surroundings}
  /\ after = before
  /\ answer = Unanswered /\ report = NoReport

-----------------------------------------------------------------------------
(* The request.                                                            *)

\* applyRequestSchema: cleanup only holds or clears, and Bluetooth is replaced
\* only after arrival.  frameCapabilityViolations: what is not supported is not asked.
Sendable(phase, request) ==
  /\ phase = "CLEANUP" => \A i \in Interfaces : request[i].directive # "REPLACE"
  /\ phase = "MOVING"  => \A i \in Interfaces \cap {"bluetooth"} : request[i].directive # "REPLACE"
  /\ \A i \in Interfaces : request[i].directive = "REPLACE" => i \in build.supported

SendApply ==
  /\ stage = "built"
  /\ \E phase \in {"MOVING", "ARRIVED", "CLEANUP"} : \E request \in [Interfaces -> Directives] :
       Sendable(phase, request) /\ asked' = request
  /\ stage' = "sent"
  /\ UNCHANGED <<build, before, after, answer, report>>

-----------------------------------------------------------------------------
(* The result.                                                             *)

\* applyResultSchema: a claim that contradicts itself is malformed and is not read.
WellFormed(r) ==
  LET claims  == {r.outcomes[i] : i \in Interfaces}
      settled == claims \cap SettledOk
      failed  == claims \ (SettledOk \cup {"PENDING"})
  IN /\ r.lifecycle \in {"RECEIVED", "VALIDATED"} => claims = {"PENDING"}
     /\ r.lifecycle = "APPLIED" => claims \subseteq SettledOk
     /\ r.lifecycle = "PARTIAL" => settled # {} /\ failed # {}
     /\ r.lifecycle \in {"REJECTED", "EXPIRED"} => claims \cap Wrote = {} /\ r.certain
     /\ r.rolledBack => r.certain

\* interpretResult: whether the frame is applied, whether the phone is uncertain,
\* and what may be done next.
Interpreted(r) ==
  [applied   |-> r.lifecycle = "APPLIED",
   uncertain |-> r.lifecycle = "FAILED" /\ ~r.certain /\ ~r.rolledBack,
   retry     |-> CASE r.lifecycle \in {"PARTIAL", "EXPIRED", "REJECTED"} -> "NEW_FRAME"
                   [] r.lifecycle = "FAILED" -> IF r.rolledBack THEN "NEW_FRAME" ELSE "STATUS_QUERY"
                   [] OTHER -> "NONE"]

-----------------------------------------------------------------------------
(* The phone and the observer (external).                                  *)

\* What apps hear once the injection of entries is in place.
Injected(own, entries) ==
  [e \in Identities |-> IF e \in entries THEN "near" ELSE IF build.mode = "EXCLUSIVE" THEN "absent" ELSE own[e]]

\* What an outcome leaves behind on interface i: a failed write may have happened.
Left(i, outcome, certain) ==
  CASE outcome = "APPLIED" -> {Injected(before[i], asked[i].entries)}
    [] outcome = "FAILED" /\ ~certain -> {before[i], Injected(before[i], asked[i].entries)}
    [] OTHER -> {before[i]}

HonestOutcomes(i) ==
  CASE asked[i].directive = "HOLD"  -> {"HELD"}
    [] asked[i].directive = "CLEAR" -> {"CLEARED", "FAILED"}
    [] OTHER -> {"APPLIED", "FAILED", "UNAVAILABLE", "UNSUPPORTED_IN_SCOPE"}

\* The phone refuses the request before any write.
Refuses ==
  /\ stage = "sent"
  /\ \E lifecycle \in {"REJECTED", "EXPIRED"} :
       answer' = [Unanswered EXCEPT !.lifecycle = lifecycle, !.outcomes = [i \in Interfaces |-> "REJECTED"]]
  /\ stage' = "answered"
  /\ UNCHANGED <<build, asked, before, after, report>>

\* The phone applies what it can of the request and reports.
Applies ==
  /\ stage = "sent"
  /\ \E outcomes \in [Interfaces -> InterfaceOutcomes], lifecycle \in {"APPLIED", "PARTIAL", "FAILED"},
        certain \in BOOLEAN, rolledBack \in BOOLEAN :
       /\ \A i \in Interfaces : outcomes[i] \in HonestOutcomes(i)
       /\ rolledBack => \A i \in Interfaces : outcomes[i] \notin Wrote
       /\ answer' = [lifecycle |-> lifecycle, outcomes |-> outcomes, certain |-> certain, rolledBack |-> rolledBack]
       /\ WellFormed(answer')
       /\ after' \in {h \in [Interfaces -> UNION {Left(i, outcomes[i], certain) : i \in Interfaces}] :
                        \A i \in Interfaces : h[i] \in Left(i, outcomes[i], certain)}
  /\ stage' = "answered"
  /\ UNCHANGED <<build, asked, before, report>>

\* An app reads every interface it can: fresh entries are of now, the others were
\* cached before the frame was applied.  The report may say of an interface that
\* the build does not hook it, whatever the capabilities promised.
ObserverReads ==
  /\ stage = "answered" /\ Interpreted(answer).applied
  /\ \E scope \in {"IN_SCOPE", "OUT_OF_SCOPE", "UNKNOWN"}, throttled \in BOOLEAN, warned \in BOOLEAN,
        availability \in [Interfaces -> Availabilities] :
     \E fresh \in [Interfaces -> SUBSET Identities] :
       /\ \A i \in Interfaces : availability[i] # "MEASURED" => fresh[i] = {}
       /\ throttled => \A i \in Interfaces \cap {"wifi"} : fresh[i] = {}
       /\ report' = [scope |-> scope, availability |-> availability, fresh |-> fresh,
                     throttled |-> throttled, warned |-> warned]
  /\ stage' = "compared"
  /\ UNCHANGED <<build, asked, before, after, answer>>

\* Outside the injected packages only the phone's own surroundings are heard.
Now(i) == IF report.scope = "OUT_OF_SCOPE" THEN before[i] ELSE after[i]

ContractNext == SendApply \/ Refuses \/ Applies \/ ObserverReads

ContractSpec == ContractInit /\ [][ContractNext]_contractVars

-----------------------------------------------------------------------------
(* compareReadback.                                                        *)

\* Mutant: a sample from before the application counts as one of after it.
PostAnyTime(i) == [e \in Identities |-> IF e \in report.fresh[i] THEN Now(i)[e] ELSE before[i][e]]

\* What was measured after the application, and what only before it.
Post(i) == [e \in Identities |-> IF e \in report.fresh[i] THEN Now(i)[e] ELSE "absent"]
Pre(i)  == {e \in Identities \ report.fresh[i] : before[i][e] # "absent"}

Unmeasured(i) == {e \in asked[i].entries : Post(i)[e] = "absent"}
StaleOnly(i)  == Unmeasured(i) \cap Pre(i)
Missing(i)    == Unmeasured(i) \ Pre(i)
Mismatched(i) == {e \in asked[i].entries : Post(i)[e] = "far"}
Extra(i)      == {e \in Identities \ asked[i].entries : Post(i)[e] # "absent"}

Status(i) ==
  LET entries == asked[i].entries
      alike   == Unmeasured(i) = {} /\ Mismatched(i) = {}
      exclusive == build.mode = "EXCLUSIVE"
  IN IF asked[i].directive # "REPLACE" THEN "NOT_REQUESTED"
     ELSE IF report.availability[i] # "MEASURED" THEN report.availability[i]
     ELSE IF report.scope = "OUT_OF_SCOPE" THEN
            IF entries = {} THEN "INCONCLUSIVE" ELSE IF alike THEN "SCOPE_LEAK" ELSE "OUT_OF_SCOPE_CONFIRMED"
     ELSE IF report.scope = "UNKNOWN" THEN "INCONCLUSIVE"
     ELSE IF entries = {} THEN IF ~exclusive THEN "INCONCLUSIVE" ELSE IF Extra(i) # {} THEN "MISMATCH" ELSE "MATCH"
     ELSE IF StaleOnly(i) = entries THEN "INCONCLUSIVE"
     ELSE IF Missing(i) # {} \/ Mismatched(i) # {} \/ (exclusive /\ Extra(i) # {}) THEN "MISMATCH"
     ELSE IF StaleOnly(i) # {} THEN "INCONCLUSIVE" ELSE "MATCH"

Statuses == {Status(i) : i \in Interfaces}

\* Any warning blocks, and so does a throttled Wi-Fi that was asked to change.
Blocking ==
  \/ report.warned
  \/ report.throttled /\ \E i \in Interfaces \cap {"wifi"} : asked[i].directive = "REPLACE"

\* The verdict leaves out an interface that was to change, or nothing is known of
\* the observer's scope.
ScopeLimited == report.scope = "UNKNOWN" \/ Statuses \cap {"UNSUPPORTED_IN_SCOPE", "UNAVAILABLE"} # {}

\* Interfaces outside the build's scope neither verify nor prevent a verdict.
Overall ==
  IF report.scope = "OUT_OF_SCOPE" THEN
         IF "SCOPE_LEAK" \in Statuses THEN "SCOPE_LEAK"
         ELSE IF "OUT_OF_SCOPE_CONFIRMED" \in Statuses THEN "OUT_OF_SCOPE_CONFIRMED" ELSE "INCONCLUSIVE"
  ELSE IF report.scope = "UNKNOWN" THEN "INCONCLUSIVE"
  ELSE IF Blocking THEN "BLOCKED"
  ELSE IF "MISMATCH" \in Statuses THEN "MISMATCH"
  ELSE IF Statuses \cap {"INCONCLUSIVE", "UNAVAILABLE", "NOT_YET_MEASURED"} # {} THEN "INCONCLUSIVE"
  ELSE IF "MATCH" \in Statuses THEN "VERIFIED" ELSE "INCONCLUSIVE"

-----------------------------------------------------------------------------
RadioContractTypeOK ==
  /\ stage \in {"built", "sent", "answered", "compared"}
  /\ build \in [mode : PhoneModes, supported : SUBSET Interfaces]
  /\ asked \in [Interfaces -> Directives]
  /\ before \in [Interfaces -> Hearing] /\ after \in [Interfaces -> Hearing]
  /\ answer \in [lifecycle : {"NONE", "REJECTED", "EXPIRED", "APPLIED", "PARTIAL", "FAILED"},
                 outcomes : [Interfaces -> InterfaceOutcomes], certain : BOOLEAN, rolledBack : BOOLEAN]
  /\ report \in [scope : {"IN_SCOPE", "OUT_OF_SCOPE", "UNKNOWN"},
                 availability : [Interfaces -> Availabilities],
                 fresh : [Interfaces -> SUBSET Identities], throttled : BOOLEAN, warned : BOOLEAN]

\* A frame is applied only if no interface was left out of it, and another frame
\* follows a failure only when the phone's state is known.  (A PARTIAL result is
\* read as certain whatever certainty it reports.)
ResultIsUnderstood ==
  stage = "answered" =>
    /\ Interpreted(answer).applied => \A i \in Interfaces :
         asked[i].directive = "REPLACE" => after[i] = Injected(before[i], asked[i].entries)
    /\ Interpreted(answer).retry = "NEW_FRAME" /\ answer.lifecycle # "PARTIAL" => after = before

\* On interface i an app hears, now, all that was asked, and of what it measured
\* nothing else where the build claims to hide the rest.
Heard(i) ==
  /\ asked[i].entries \subseteq report.fresh[i]
  /\ \A e \in asked[i].entries : after[i][e] = "near"
  /\ build.mode = "EXCLUSIVE" => \A e \in report.fresh[i] \ asked[i].entries : after[i][e] = "absent"

\* VERIFIED is said only when an app in scope hears what was asked on at least
\* one interface and on every other that was to change, but for those the readback
\* itself calls out of the build's scope; then the verdict is marked as limited.
\* It never rests on samples cached before the application.
VerifiedIsHeard ==
  stage = "compared" /\ Overall = "VERIFIED" =>
    LET changed == {i \in Interfaces : asked[i].directive = "REPLACE"} IN
    /\ report.scope = "IN_SCOPE" /\ ~Blocking
    /\ \E i \in changed : Heard(i)
    /\ \A i \in changed :
         Heard(i) \/ (report.availability[i] = "UNSUPPORTED_IN_SCOPE" /\ ScopeLimited)

\* An honest phone that applied the frame is contradicted only by what was not
\* measured since: a cached list that lacks an identity reads as its absence.
MismatchIsStale ==
  stage = "compared" /\ Overall = "MISMATCH" =>
    \E i \in Interfaces : asked[i].entries \ report.fresh[i] # {}

VerdictIsTrue == ResultIsUnderstood /\ VerifiedIsHeard /\ MismatchIsStale
=============================================================================
