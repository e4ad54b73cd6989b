--------------------------- MODULE ServiceProofs ---------------------------
(***************************************************************************)
(* The services around the trips, for any number of jobs, keys, calls,     *)
(* revisions and faults.                                                   *)
(***************************************************************************)
EXTENDS Services, FiniteSetTheorems, SequenceTheorems, WellFoundedInduction, TLAPS

(***************************************************************************)
(* Exclusion of movement and environment work on a device, for any number  *)
(* of callers and objects.                                                 *)
(***************************************************************************)

\* Whoever uses the device uses the object of the map.
UsersShareTheEntry ==
  /\ \A m \in Movers : InMovement(m) => obj[m] = entry
  /\ \A w \in Windows : InWindow(w) => obj[w] = entry

\* The fields of that object say who uses it.
FieldsTellUsers ==
  entry # NoObject =>
    /\ moving[entry] <=> \E m \in Movers : InMovement(m)
    /\ held[entry] <=> \E w \in Windows : InWindow(w)
    /\ moving[entry] \/ held[entry]

\* A window past the wait is not overtaken by a movement.
WokenWindowIsDrained ==
  \A w \in Windows : pc[w] \in {"woken", "working"} => ~moving[entry]

DrainedAreWaiting ==
  \A o \in Objects, w \in Windows : w \in drained[o] => o = entry /\ pc[w] = "waiting"

OneOfEach ==
  /\ \A m, n \in Movers : InMovement(m) /\ InMovement(n) => m = n
  /\ \A v, w \in Windows : InWindow(v) /\ InWindow(w) => v = w

IInv ==
  /\ TypeOK
  /\ UsersShareTheEntry
  /\ FieldsTellUsers
  /\ WokenWindowIsDrained
  /\ DrainedAreWaiting
  /\ OneOfEach

LEMMA InitIInv == Init => IInv
BY NoObjectIsNone DEF Init, IInv, TypeOK, UsersShareTheEntry, FieldsTellUsers,
   WokenWindowIsDrained, DrainedAreWaiting, OneOfEach, InMovement, InWindow, Callers,
   MoverPlaces, WindowPlaces

\* What the invariant says of any state, used for both properties.
LEMMA IInvImplies == IInv => Exclusion /\ EntryIsNeeded
<1> SUFFICES ASSUME IInv PROVE Exclusion /\ EntryIsNeeded
  OBVIOUS
<1>1. \A m \in Movers : InMovement(m) => entry # NoObject
  BY DEF IInv, TypeOK, UsersShareTheEntry, InMovement, Callers
<1>2. \A w \in Windows : InWindow(w) => entry # NoObject
  BY DEF IInv, TypeOK, UsersShareTheEntry, InWindow, Callers
<1>3. EntryIsNeeded
  BY <1>1, <1>2 DEF IInv, FieldsTellUsers, EntryIsNeeded
<1>4. \A m \in Movers, w \in Windows : ~(InMovement(m) /\ pc[w] = "working")
  BY <1>1 DEF IInv, FieldsTellUsers, WokenWindowIsDrained
<1> QED
  BY <1>3, <1>4 DEF IInv, OneOfEach, Exclusion

LEMMA IInvStep == IInv /\ [Next]_vars => IInv'
<1> SUFFICES ASSUME IInv, [Next]_vars PROVE IInv'
  OBVIOUS
<1> USE MoversAreNotWindows, NoObjectIsNone
<1>1. ASSUME NEW m \in Movers, reserveMovement(m) PROVE IInv'
  <2>1. PICK o \in Objects :
          /\ operationFor(o) /\ ~Held(o) /\ ~Moving(o) /\ entry' = o
          /\ moving' = [moving EXCEPT ![o] = TRUE]
          /\ held' = [held EXCEPT ![o] = FALSE]
          /\ drained' = [drained EXCEPT ![o] = {}]
          /\ obj' = [obj EXCEPT ![m] = o]
    BY <1>1 DEF reserveMovement
  <2>2. pc[m] = "idle" /\ pc' = [pc EXCEPT ![m] = "moving"]
    BY <1>1 DEF reserveMovement
  <2>3. entry = NoObject
    BY <2>1 DEF operationFor, Held, Moving, IInv, TypeOK, FieldsTellUsers
  <2>4. (\A n \in Movers : ~InMovement(n)) /\ (\A w \in Windows : ~InWindow(w))
    BY <2>3, IInvImplies DEF EntryIsNeeded
  <2>5. TypeOK'
    BY <2>1, <2>2 DEF IInv, TypeOK, Callers, MoverPlaces, WindowPlaces
  <2>6. (\A n \in Movers : InMovement(n)' <=> n = m) /\ (\A w \in Windows : ~InWindow(w)')
    BY <2>2, <2>4 DEF IInv, TypeOK, InMovement, InWindow, Callers
  <2>7. UsersShareTheEntry' /\ FieldsTellUsers' /\ OneOfEach'
    BY <2>1, <2>5, <2>6 DEF IInv, TypeOK, UsersShareTheEntry, FieldsTellUsers, OneOfEach, Callers
  <2>8. WokenWindowIsDrained'
    BY <2>6 DEF WokenWindowIsDrained, InWindow
  <2>9. DrainedAreWaiting'
    BY <2>1, <2>2, <2>4 DEF IInv, TypeOK, DrainedAreWaiting, InWindow, Callers
  <2> QED
    BY <2>5, <2>7, <2>8, <2>9 DEF IInv
<1>2. ASSUME NEW m \in Movers, pc[m] = "moving", Wake(m, "released"), UNCHANGED obj
      PROVE IInv'
  <2>1. InMovement(m) /\ obj[m] = entry /\ entry \in Objects
    BY <1>2 DEF IInv, TypeOK, UsersShareTheEntry, InMovement, Callers
  <2>2. /\ moving' = [moving EXCEPT ![entry] = FALSE]
        /\ drained' = [drained EXCEPT ![entry] = {}]
        /\ pc' = [p \in Callers |->
             IF p = m THEN "released" ELSE IF p \in drained[entry] THEN "woken" ELSE pc[p]]
        /\ entry' = IF ~held[entry] THEN NoObject ELSE entry
        /\ held' = held /\ obj' = obj
    BY <1>2, <2>1 DEF Wake, Cleanup
  <2>3. \A w \in Windows : w \in drained[entry] => pc[w] = "waiting"
    BY <2>1 DEF IInv, DrainedAreWaiting
  <2>4. TypeOK'
    BY <1>2, <2>1, <2>2, <2>3 DEF IInv, TypeOK, Callers, MoverPlaces, WindowPlaces
  <2>5. \A n \in Movers : ~InMovement(n)'
    BY <1>2, <2>1, <2>2 DEF IInv, TypeOK, OneOfEach, InMovement, Callers
  <2>6. \A w \in Windows : InWindow(w)' <=> InWindow(w)
    BY <2>2, <2>3 DEF InWindow, Callers
  <2>7. UsersShareTheEntry' /\ FieldsTellUsers' /\ OneOfEach'
    BY <2>1, <2>2, <2>5, <2>6
       DEF IInv, TypeOK, UsersShareTheEntry, FieldsTellUsers, OneOfEach
  <2>8. WokenWindowIsDrained'
    <3>1. \A w \in Windows : InWindow(w) => entry' = entry
      BY <2>1, <2>2 DEF IInv, TypeOK, FieldsTellUsers
    <3> QED
      BY <3>1, <2>1, <2>2, <2>6 DEF IInv, TypeOK, WokenWindowIsDrained, InWindow
  <2>9. DrainedAreWaiting'
    <3>1. \A o \in Objects : drained'[o] \cap Windows = {}
      BY <2>1, <2>2 DEF IInv, TypeOK, DrainedAreWaiting
    <3> QED
      BY <3>1 DEF DrainedAreWaiting
  <2> QED
    BY <2>4, <2>7, <2>8, <2>9 DEF IInv
<1>3. ASSUME NEW m \in Movers, pc[m] = "released", pc' = [pc EXCEPT ![m] = "idle"],
             Forget(m), UNCHANGED <<entry, held, moving, drained>>
      PROVE IInv'
  <2>1. TypeOK'
    BY <1>3 DEF Forget, IInv, TypeOK, Callers, MoverPlaces, WindowPlaces
  <2>2. (\A n \in Movers : InMovement(n)' <=> InMovement(n))
        /\ (\A w \in Windows : pc'[w] = pc[w] /\ (InWindow(w)' <=> InWindow(w)))
    BY <1>3 DEF IInv, TypeOK, InMovement, InWindow, Callers
  <2>3. UsersShareTheEntry'
    BY <1>3, <2>2 DEF Forget, IInv, TypeOK, UsersShareTheEntry, InMovement, Callers
  <2>4. FieldsTellUsers' /\ WokenWindowIsDrained' /\ DrainedAreWaiting' /\ OneOfEach'
    BY <1>3, <2>2 DEF IInv, FieldsTellUsers, WokenWindowIsDrained, DrainedAreWaiting, OneOfEach
  <2> QED
    BY <2>1, <2>3, <2>4 DEF IInv
<1>4. ASSUME NEW w \in Windows, withEnvironmentWindow(w) PROVE IInv'
  <2>1. PICK o \in Objects :
          /\ operationFor(o) /\ ~Held(o) /\ entry' = o
          /\ held' = [held EXCEPT ![o] = TRUE]
          /\ moving' = [moving EXCEPT ![o] = Moving(o)]
          /\ drained' = [drained EXCEPT ![o] = IF Moving(o) THEN @ \cup {w} ELSE {}]
          /\ obj' = [obj EXCEPT ![w] = o]
          /\ pc' = [pc EXCEPT ![w] = IF Moving(o) THEN "waiting" ELSE "working"]
    BY <1>4 DEF withEnvironmentWindow
  <2>2. pc[w] = "idle"
    BY <1>4 DEF withEnvironmentWindow
  <2>3. \A v \in Windows : ~InWindow(v)
    <3>1. CASE entry = NoObject
      BY <3>1, IInvImplies DEF EntryIsNeeded
    <3>2. CASE entry # NoObject
      BY <3>2, <2>1 DEF operationFor, Held, IInv, FieldsTellUsers
    <3> QED
      BY <3>1, <3>2
  <2>4. TypeOK'
    BY <2>1, <2>2 DEF IInv, TypeOK, Callers, MoverPlaces, WindowPlaces, Moving
  <2>5. (\A n \in Movers : InMovement(n)' <=> InMovement(n))
        /\ (\A v \in Windows : InWindow(v)' <=> v = w)
    BY <2>1, <2>2, <2>3 DEF IInv, TypeOK, InMovement, InWindow, Callers
  <2>6. \A n \in Movers : InMovement(n) => entry = o
    BY <2>1 DEF operationFor, IInv, TypeOK, UsersShareTheEntry, InMovement, Callers
  <2>7. Moving(o) <=> \E n \in Movers : InMovement(n)
    BY <2>1, <2>6 DEF Moving, IInv, FieldsTellUsers
  <2>8. UsersShareTheEntry'
    BY <2>1, <2>4, <2>5, <2>6 DEF IInv, TypeOK, UsersShareTheEntry, Callers
  <2>9. FieldsTellUsers'
    BY <2>1, <2>5, <2>7 DEF IInv, TypeOK, FieldsTellUsers
  <2>10. WokenWindowIsDrained'
    <3>1. \A v \in Windows : pc'[v] \in {"woken", "working"} => v = w /\ ~Moving(o)
      BY <2>1, <2>5, <2>2 DEF IInv, TypeOK, InWindow, Callers
    <3> QED
      BY <3>1, <2>1 DEF IInv, TypeOK, WokenWindowIsDrained
  <2>11. DrainedAreWaiting'
    <3>1. \A p \in Objects : drained[p] \cap Windows = {}
      BY <2>3 DEF IInv, DrainedAreWaiting, InWindow
    <3> QED
      BY <3>1, <2>1, <2>2 DEF IInv, TypeOK, DrainedAreWaiting, Callers
  <2>12. OneOfEach'
    BY <2>5 DEF IInv, OneOfEach
  <2> QED
    BY <2>4, <2>8, <2>9, <2>10, <2>11, <2>12 DEF IInv
<1>5. ASSUME NEW w \in Windows, Resume(w) PROVE IInv'
  <2>1. (\A n \in Movers : InMovement(n)' <=> InMovement(n))
        /\ (\A v \in Windows : InWindow(v)' <=> InWindow(v))
    BY <1>5 DEF Resume, IInv, TypeOK, InMovement, InWindow, Callers
  <2>2. TypeOK'
    BY <1>5 DEF Resume, IInv, TypeOK, Callers, MoverPlaces, WindowPlaces
  <2>3. UsersShareTheEntry' /\ FieldsTellUsers' /\ OneOfEach'
    BY <1>5, <2>1 DEF Resume, IInv, UsersShareTheEntry, FieldsTellUsers, OneOfEach
  <2>4. WokenWindowIsDrained' /\ DrainedAreWaiting'
    BY <1>5 DEF Resume, IInv, TypeOK, WokenWindowIsDrained, DrainedAreWaiting, Callers
  <2> QED
    BY <2>2, <2>3, <2>4 DEF IInv
<1>6. ASSUME NEW w \in Windows, DrainTimesOut(w) PROVE IInv'
  <2>1. (\A n \in Movers : InMovement(n)' <=> InMovement(n))
        /\ (\A v \in Windows : InWindow(v)' <=> InWindow(v))
    BY <1>6 DEF DrainTimesOut, IInv, TypeOK, InMovement, InWindow, Callers
  <2>2. TypeOK'
    BY <1>6 DEF DrainTimesOut, IInv, TypeOK, Callers, MoverPlaces, WindowPlaces
  <2>3. UsersShareTheEntry' /\ FieldsTellUsers' /\ OneOfEach'
    BY <1>6, <2>1 DEF DrainTimesOut, IInv, UsersShareTheEntry, FieldsTellUsers, OneOfEach
  <2>4. WokenWindowIsDrained'
    BY <1>6 DEF DrainTimesOut, IInv, TypeOK, WokenWindowIsDrained, Callers
  <2>5. DrainedAreWaiting'
    <3>1. obj[w] \in Objects /\ obj[w] = entry
      BY <1>6 DEF DrainTimesOut, IInv, TypeOK, UsersShareTheEntry, InWindow, Callers
    <3> QED
      BY <3>1, <1>6 DEF DrainTimesOut, IInv, TypeOK, DrainedAreWaiting, Callers
  <2> QED
    BY <2>2, <2>3, <2>4, <2>5 DEF IInv
<1>7. ASSUME NEW w \in Windows, CloseWindow(w) PROVE IInv'
  <2>1. InWindow(w) /\ obj[w] = entry /\ entry \in Objects
    BY <1>7 DEF CloseWindow, IInv, TypeOK, UsersShareTheEntry, InWindow, Callers
  <2>2. /\ pc' = [pc EXCEPT ![w] = "idle"]
        /\ held' = [held EXCEPT ![entry] = FALSE]
        /\ obj' = [obj EXCEPT ![w] = NoObject]
        /\ entry' = IF ~moving[entry] THEN NoObject ELSE entry
        /\ moving' = moving /\ drained' = drained
    BY <1>7, <2>1 DEF CloseWindow, Cleanup, Forget
  <2>3. \A v \in Windows : ~InWindow(v)'
    BY <2>1, <2>2 DEF IInv, TypeOK, OneOfEach, InWindow, Callers
  <2>4. \A n \in Movers : InMovement(n)' <=> InMovement(n)
    BY <2>2 DEF InMovement, IInv, TypeOK, Callers
  <2>5. TypeOK'
    BY <2>1, <2>2 DEF IInv, TypeOK, Callers, MoverPlaces, WindowPlaces
  <2>6. \A n \in Movers : InMovement(n) => moving[entry]
    BY <2>1 DEF IInv, FieldsTellUsers
  <2>7. UsersShareTheEntry'
    BY <2>2, <2>3, <2>4, <2>6 DEF IInv, TypeOK, UsersShareTheEntry, Callers
  <2>8. FieldsTellUsers' /\ OneOfEach' /\ WokenWindowIsDrained'
    BY <2>1, <2>2, <2>3, <2>4, <2>6
       DEF IInv, TypeOK, FieldsTellUsers, OneOfEach, WokenWindowIsDrained, InWindow
  <2>9. DrainedAreWaiting'
    <3>1. \A o \in Objects : drained[o] \cap Windows = {}
      <4> SUFFICES ASSUME NEW o \in Objects, NEW v \in Windows, v \in drained[o]
                   PROVE FALSE
        OBVIOUS
      <4>1. pc[v] = "waiting"
        BY DEF IInv, DrainedAreWaiting
      <4> QED
        BY <4>1, <2>1, <1>7 DEF CloseWindow, IInv, OneOfEach, InWindow
    <3> QED
      BY <3>1, <2>2 DEF DrainedAreWaiting
  <2> QED
    BY <2>5, <2>7, <2>8, <2>9 DEF IInv
<1>8. CASE UNCHANGED vars
  BY <1>8 DEF vars, IInv, TypeOK, UsersShareTheEntry, FieldsTellUsers,
     WokenWindowIsDrained, DrainedAreWaiting, OneOfEach, InMovement, InWindow
<1> QED
  BY <1>1, <1>2, <1>3, <1>4, <1>5, <1>6, <1>7, <1>8 DEF Next, release

LEMMA IInvHolds == Spec => []IInv
BY InitIInv, IInvStep, PTL DEF Spec

\* Every variable of deviceOperations.ts stays in its range, and a caller has
\* an object exactly while it uses the device or may still call release.
THEOREM TypeCorrect == Spec => []TypeOK
<1>1. IInv => TypeOK
  BY DEF IInv
<1> QED
  BY IInvHolds, <1>1, PTL

\* However many producers and environment operations contend for a device,
\* at most one of them has it (reserveMovement, withEnvironmentWindow).
THEOREM MutualExclusion == Spec => []Exclusion
BY IInvHolds, IInvImplies, PTL

\* The operations map holds an object exactly while the device is in use.
THEOREM MapIsExact == Spec => []EntryIsNeeded
BY IInvHolds, IInvImplies, PTL

(***************************************************************************)
(* One client site.                                                        *)
(***************************************************************************)

\* A site is enabled only while its profile is the one found on the phone.
EnabledMatches == site.enabled => SiteMatches

\* Where the operator's call is says what the site's row holds, whoever has
\* the lease by now, and what the call has written of its revision.
CallFitsSite ==
  /\ operator.pc = "prepare" => site.rev < MaxProfiles
  /\ operator.pc \in {"apply", "gps", "wifi", "accepted", "verify"} => operator.rev = site.rev
  /\ operator.pc \in {"gps", "wifi", "accepted"} => site.status = "APPLYING"
  /\ operator.pc = "verify" => site.status = "API_ACCEPTED"
  /\ operator.pc \in {"apply", "gps"} => ~operator.wrote /\ ~operator.wifi
  /\ operator.pc = "apply" => site.status = "PREPARED"
  /\ operator.pc = "gps" => written[operator.rev] = [gps |-> 0, wifi |-> 0]
  /\ operator.pc = "wifi" /\ ~operator.wifi => written[operator.rev].wifi = 0
  /\ operator.pc \in {"wifi", "accepted", "verify"} => operator.wrote

\* While no lease has lapsed, the operator's call has it and no job is busy.
CallOwnsSite ==
  ~sLapsed /\ operator.pc # "idle" => sLease = "operator" /\ SiteIdle

\* Nothing of a revision that is yet to come, prepared or blocked was written.
WritesFit ==
  /\ \A r \in Revisions : written[r].gps <= 1 /\ written[r].wifi <= 1
  /\ \A r \in Revisions : r > site.rev => written[r] = [gps |-> 0, wifi |-> 0]
  /\ site.status \in {"PREPARED", "BLOCKED"} => written[site.rev] = [gps |-> 0, wifi |-> 0]

\* The worker's job is the one it claimed until the request may have left, and
\* from then on one that nobody else submits.
WorkerFits ==
  /\ worker.pc # "idle" => worker.job \in Jobs
  /\ worker.pc # "idle" /\ ~worker.submitted => job[worker.job].status = "PREFLIGHT"
  /\ worker.pc # "idle" /\ worker.submitted => job[worker.job].status \in {"SUBMITTING", "COMPLETED"}
  /\ worker.pc \in {"send", "accepted"} => worker.submitted
  /\ worker.pc = "preflight" => ~worker.submitted
  /\ worker.pc \in {"trigger", "send", "accepted"} => job[worker.job].rev = worker.rev
  /\ worker.pc \in {"trigger", "send"} => task[worker.job] = 0

\* The rows of the jobs against the provider, the results and each other.
JobsFit ==
  /\ \A j \in Jobs :
       /\ task[j] <= 1
       /\ job[j].status \in {"NONE", "QUEUED", "PREFLIGHT", "BLOCKED"} => task[j] = 0
       /\ j \in result <=> job[j].status = "COMPLETED"
  /\ saving.job \in Jobs => saving.status \in BusyStates \ {"PREFLIGHT"}

SiteIInv ==
  /\ SiteTypeOK
  /\ EnabledMatches /\ CallFitsSite /\ CallOwnsSite /\ WritesFit
  /\ WorkerFits /\ JobsFit /\ TaskOwnsTheSite

-----------------------------------------------------------------------------
LEMMA RevisionZero == 0 \in Revisions
  BY SiteAssumption DEF Revisions

LEMMA RestTypes == RunIdle \in WorkerCalls /\ OperatorIdle \in OperatorCalls /\ SavingIdle \in [job : Jobs \cup {NoJob}, status : JobStatuses]
  BY RevisionZero DEF RunIdle, OperatorIdle, SavingIdle, WorkerCalls, OperatorCalls, JobStatuses, BusyStates

LEMMA SiteInitType == SiteInit => SiteTypeOK
<1> SUFFICES ASSUME SiteInit PROVE SiteTypeOK
  OBVIOUS
<1>1. site \in SiteRows
  BY RevisionZero DEF SiteInit, SiteRows, Profiles
<1>2. job \in [Jobs -> JobRows]
  BY RevisionZero DEF SiteInit, JobRows, JobStatuses
<1>3. written \in [Revisions -> [gps : Nat, wifi : Nat]]
  BY DEF SiteInit, Revisions
<1>4. sFaults \in 0..MaxSiteFaults
  BY SiteAssumption DEF SiteInit
<1> QED
  BY <1>1, <1>2, <1>3, <1>4, RestTypes DEF SiteInit, SiteTypeOK

LEMMA SiteInitFits == SiteInit => SiteIInv
<1> SUFFICES ASSUME SiteInit PROVE SiteIInv
  OBVIOUS
<1>1. SiteTypeOK
  BY SiteInitType
<1>2. WritesFit
  BY SiteAssumption DEF SiteInit, WritesFit, Revisions
<1>3. JobsFit /\ TaskOwnsTheSite
  BY SiteAssumption DEF SiteInit, SavingIdle, JobsFit, TaskOwnsTheSite, BusyStates
<1>4. EnabledMatches /\ CallFitsSite /\ CallOwnsSite /\ WorkerFits
  BY DEF SiteInit, RunIdle, OperatorIdle, EnabledMatches, CallFitsSite, CallOwnsSite, WorkerFits
<1> QED
  BY <1>1, <1>2, <1>3, <1>4 DEF SiteIInv

\* A status leaves the rows of the jobs well formed.
LEMMA SetStatusType ==
  ASSUME SiteTypeOK, NEW j \in Jobs, NEW s \in JobStatuses, SetStatus(j, s)
  PROVE  job' \in [Jobs -> JobRows]
  BY DEF SiteTypeOK, SetStatus, JobRows

\* So does a status that takes the callback token away.
LEMMA ClosedType ==
  ASSUME SiteTypeOK, NEW j \in Jobs, NEW s \in JobStatuses,
         job' = [job EXCEPT ![j].status = s, ![j].token = FALSE]
  PROVE  job' \in [Jobs -> JobRows]
  BY DEF SiteTypeOK, JobRows

LEMMA OperatorGoesType ==
  ASSUME SiteTypeOK, NEW stage \in {"idle", "prepare", "apply", "gps", "wifi", "accepted", "verify"}, OperatorGoes(stage)
  PROVE  operator' \in OperatorCalls
  BY DEF SiteTypeOK, OperatorGoes, OperatorCalls

LEMMA OperatorLeavesType ==
  ASSUME SiteTypeOK, OperatorLeaves
  PROVE  operator' \in OperatorCalls /\ sLease' \in {"free", "worker", "operator"}
  BY RestTypes DEF SiteTypeOK, OperatorLeaves, LeaseFreed

\* A status of the profile, with or without disabling the site.
LEMMA ProfileType ==
  ASSUME SiteTypeOK, NEW s \in Profiles,
         \/ site' = [site EXCEPT !.status = s]
         \/ site' = [site EXCEPT !.status = s, !.enabled = FALSE]
         \/ UNCHANGED site
  PROVE  site' \in SiteRows
  BY DEF SiteTypeOK, SiteRows

\* A point or a Wi-Fi update more for the operator's revision.
LEMMA WrittenType ==
  ASSUME SiteTypeOK,
         \/ written' = [written EXCEPT ![operator.rev].gps = @ + 1]
         \/ written' = [written EXCEPT ![operator.rev].wifi = @ + 1]
  PROVE  written' \in [Revisions -> [gps : Nat, wifi : Nat]]
<1> DEFINE r == operator.rev
<1>1. r \in Revisions
  BY DEF SiteTypeOK, OperatorCalls
<1>2. written[r] \in [gps : Nat, wifi : Nat]
  BY <1>1 DEF SiteTypeOK
<1>3. written[r].gps + 1 \in Nat /\ written[r].wifi + 1 \in Nat
  BY <1>2
<1> DEFINE g == written[r].gps + 1
           w == written[r].wifi + 1
<1>4. written' = [written EXCEPT ![r].gps = g] \/ written' = [written EXCEPT ![r].wifi = w]
  OBVIOUS
<1>5. g \in Nat /\ w \in Nat
  BY <1>3
<1> HIDE DEF g, w, r
<1> QED
  BY <1>1, <1>4, <1>5 DEF SiteTypeOK

LEMMA ShortCallType ==
  ASSUME SiteTypeOK, \/ EditSite \/ \E j \in Jobs : ScheduleJob(j) \/ CancelSiteJob(j) \/ ResolveSiteJob(j)
  PROVE  SiteTypeOK'
<1> USE DEF OperatorOnly, JobStatuses, BusyStates
<1>1. CASE EditSite
  <2>1. PICK e \in BOOLEAN, t \in BOOLEAN : site' = [site EXCEPT !.enabled = e, !.template = t]
    BY <1>1 DEF EditSite
  <2>2. site' \in SiteRows
    BY <2>1 DEF SiteTypeOK, SiteRows
  <2> QED
    BY <1>1, <2>2 DEF EditSite, SiteTypeOK
<1>2. CASE \E j \in Jobs : ScheduleJob(j) \/ CancelSiteJob(j)
  <2>1. PICK j \in Jobs : \E s \in {"QUEUED", "CANCELLED"} : SetStatus(j, s)
    BY <1>2 DEF ScheduleJob, CancelSiteJob, SetStatus
  <2>2. job' \in [Jobs -> JobRows]
    BY <2>1, SetStatusType
  <2>3. UNCHANGED site /\ OperatorOnly
    BY <1>2 DEF ScheduleJob, CancelSiteJob
  <2> QED
    BY <2>2, <2>3 DEF SiteTypeOK
<1>3. CASE \E j \in Jobs : ResolveSiteJob(j)
  <2>1. PICK j \in Jobs : job' = [job EXCEPT ![j].status = "CANCELLED", ![j].token = FALSE]
    BY <1>3 DEF ResolveSiteJob
  <2>2. job' \in [Jobs -> JobRows]
    BY <2>1, ClosedType
  <2>3. UNCHANGED site /\ OperatorOnly
    BY <1>3 DEF ResolveSiteJob
  <2> QED
    BY <2>2, <2>3 DEF SiteTypeOK
<1> QED
  BY <1>1, <1>2, <1>3

Calls == \/ PrepareBegins \/ PrepareEnds \/ ApplyBegins \/ ApplyStarts \/ ApplyFails
         \/ ApplyGps \/ ApplyWifi \/ ApplyAccepted \/ ApplyVerifies

LEMMA LongCallType ==
  ASSUME SiteTypeOK, CallFitsSite, Calls
  PROVE  SiteTypeOK'
<1> USE DEF SiteOnly, Profiles
<1>1. CASE PrepareBegins
  BY <1>1, OperatorGoesType DEF PrepareBegins, SiteTypeOK
<1>2. CASE PrepareEnds
  <2>1. site.rev \in Revisions /\ site.rev + 1 \in Revisions
    BY <1>2, SiteAssumption DEF PrepareEnds, OperatorAt, CallFitsSite, SiteTypeOK, SiteRows, Revisions
  <2> DEFINE n == site.rev + 1
  <2>2. n \in Revisions
    BY <2>1
  <2>3. \/ \E s \in Profiles : site' = [site EXCEPT !.status = s, !.rev = n, !.enabled = FALSE]
        \/ UNCHANGED site
    BY <1>2 DEF PrepareEnds
  <2> HIDE DEF n
  <2>4. site' \in SiteRows
    BY <2>2, <2>3 DEF SiteTypeOK, SiteRows
  <2>5. operator' \in OperatorCalls /\ sLease' \in {"free", "worker", "operator"}
    BY <1>2, OperatorLeavesType DEF PrepareEnds
  <2> QED
    BY <1>2, <2>4, <2>5 DEF PrepareEnds, SiteTypeOK
<1>3. CASE ApplyBegins
  <2>1. operator' \in OperatorCalls
    BY <1>3, RestTypes DEF ApplyBegins, SiteTypeOK, SiteRows, OperatorCalls
  <2> QED
    BY <1>3, <2>1 DEF ApplyBegins, SiteTypeOK
<1>4. CASE ApplyStarts
  <2>1. site' \in SiteRows
    BY <1>4, ProfileType DEF ApplyStarts
  <2>2. operator' \in OperatorCalls /\ sLease' \in {"free", "worker", "operator"}
    BY <1>4, OperatorGoesType, OperatorLeavesType DEF ApplyStarts, SiteTypeOK
  <2> QED
    BY <1>4, <2>1, <2>2 DEF ApplyStarts, SiteTypeOK
<1>5. CASE ApplyFails
  <2>1. \E s \in Profiles : site' = [site EXCEPT !.status = s]
    BY <1>5 DEF ApplyFails
  <2>2. site' \in SiteRows
    BY <2>1, ProfileType
  <2>3. operator' \in OperatorCalls /\ sLease' \in {"free", "worker", "operator"}
    BY <1>5, OperatorLeavesType DEF ApplyFails
  <2> QED
    BY <1>5, <2>2, <2>3 DEF ApplyFails, SiteTypeOK
<1>6. CASE ApplyGps
  <2>1. operator' \in OperatorCalls
    BY <1>6 DEF ApplyGps, SiteTypeOK, OperatorCalls
  <2>2. written' \in [Revisions -> [gps : Nat, wifi : Nat]]
    BY <1>6, WrittenType DEF ApplyGps
  <2> QED
    BY <1>6, <2>1, <2>2 DEF ApplyGps, SiteTypeOK
<1>7. CASE ApplyWifi
  <2>1. operator' \in OperatorCalls
    BY <1>7 DEF ApplyWifi, SiteTypeOK, OperatorCalls
  <2>2. written' \in [Revisions -> [gps : Nat, wifi : Nat]]
    BY <1>7, WrittenType DEF ApplyWifi
  <2> QED
    BY <1>7, <2>1, <2>2 DEF ApplyWifi, SiteTypeOK
<1>8. CASE ApplyAccepted
  <2>1. site' \in SiteRows
    BY <1>8, ProfileType DEF ApplyAccepted
  <2> QED
    BY <1>8, <2>1, OperatorGoesType DEF ApplyAccepted, SiteTypeOK
<1>9. CASE ApplyVerifies
  <2>1. site' \in SiteRows
    BY <1>9, ProfileType DEF ApplyVerifies
  <2> QED
    BY <1>9, <2>1, OperatorLeavesType DEF ApplyVerifies, SiteTypeOK
<1> QED
  BY <1>1, <1>2, <1>3, <1>4, <1>5, <1>6, <1>7, <1>8, <1>9 DEF Calls

LEMMA WorkerGoesType ==
  ASSUME SiteTypeOK, NEW stage \in {"idle", "preflight", "trigger", "send", "accepted", "catch"}, WorkerGoes(stage)
  PROVE  worker' \in WorkerCalls
  BY DEF SiteTypeOK, WorkerGoes, WorkerCalls

LEMMA WorkerLeavesType ==
  ASSUME SiteTypeOK, WorkerLeaves
  PROVE  worker' \in WorkerCalls /\ sLease' \in {"free", "worker", "operator"}
  BY RestTypes DEF SiteTypeOK, WorkerLeaves, LeaseFreed

LEMMA WorkerType ==
  ASSUME SiteTypeOK, WorkerFits, SiteWorker
  PROVE  SiteTypeOK'
<1> USE DEF WorkerOnly, JobStatuses, BusyStates
<1>0. worker.pc # "idle" => worker.job \in Jobs
  BY DEF WorkerFits
<1>1. CASE \E j \in Jobs : ClaimJob(j)
  <2>1. PICK j \in Jobs : ClaimJob(j)
    BY <1>1
  <2>2. job' \in [Jobs -> JobRows]
    BY <2>1, SetStatusType DEF ClaimJob
  <2>3. worker' \in WorkerCalls
    BY <2>1, RestTypes DEF ClaimJob, WorkerCalls
  <2> QED
    BY <2>1, <2>2, <2>3 DEF ClaimJob, SiteTypeOK
<1>2. CASE PreflightJob
  <2>1. CASE \/ WorkerGoes("catch") /\ UNCHANGED job
    BY <1>2, <2>1, WorkerGoesType DEF PreflightJob, SiteTypeOK
  <2>2. CASE /\ job' = [job EXCEPT ![worker.job].rev = site.rev, ![worker.job].token = TRUE]
             /\ worker' = [worker EXCEPT !.pc = "trigger", !.rev = site.rev]
    <3>1. site.rev \in Revisions
      BY DEF SiteTypeOK, SiteRows
    <3>2. job' \in [Jobs -> JobRows]
      BY <2>2, <3>1, <1>0, <1>2 DEF PreflightJob, SiteTypeOK, JobRows
    <3>3. worker' \in WorkerCalls
      BY <2>2, <3>1 DEF SiteTypeOK, WorkerCalls
    <3> QED
      BY <1>2, <3>2, <3>3 DEF PreflightJob, SiteTypeOK
  <2> QED
    BY <1>2, <2>1, <2>2 DEF PreflightJob
<1>3. CASE BeforeTask
  <2>1. CASE SetStatus(worker.job, "SUBMITTING") /\ worker' = [worker EXCEPT !.pc = "send", !.submitted = TRUE]
    <3>1. job' \in [Jobs -> JobRows]
      BY <1>0, <1>3, <2>1, SetStatusType DEF BeforeTask
    <3>2. worker' \in WorkerCalls
      BY <2>1 DEF SiteTypeOK, WorkerCalls
    <3> QED
      BY <1>3, <3>1, <3>2 DEF BeforeTask, SiteTypeOK
  <2>2. CASE WorkerGoes("catch") /\ UNCHANGED job
    BY <1>3, <2>2, WorkerGoesType DEF BeforeTask, SiteTypeOK
  <2> QED
    BY <1>3, <2>1, <2>2 DEF BeforeTask
<1>4. CASE SendTask
  <2>1. worker' \in WorkerCalls
    BY <1>4, WorkerGoesType DEF SendTask
  <2>2. task' \in [Jobs -> Nat]
    BY <1>0, <1>4 DEF SendTask, SiteTypeOK
  <2> QED
    BY <1>4, <2>1, <2>2 DEF SendTask, SiteTypeOK
<1>5. CASE TaskAccepted
  <2>1. job' \in [Jobs -> JobRows]
    BY <1>0, <1>5, SetStatusType DEF TaskAccepted, SiteTypeOK
  <2> QED
    BY <1>5, <2>1, WorkerLeavesType DEF TaskAccepted, SiteTypeOK
<1>6. CASE CatchJob
  <2>1. \/ UNCHANGED job
        \/ SetStatus(worker.job, "UNCONFIRMED")
        \/ job' = [job EXCEPT ![worker.job].status = "BLOCKED", ![worker.job].token = FALSE]
    BY <1>6 DEF CatchJob, SetStatus
  <2>2. job' \in [Jobs -> JobRows]
    BY <1>0, <1>6, <2>1, SetStatusType, ClosedType DEF CatchJob, SiteTypeOK
  <2> QED
    BY <1>6, <2>2, WorkerLeavesType DEF CatchJob, SiteTypeOK
<1> QED
  BY <1>1, <1>2, <1>3, <1>4, <1>5, <1>6 DEF SiteWorker

Around == \/ SaveResult \/ SiteLeaseLapses \/ SiteRestarts
          \/ \E j \in Jobs : ReadForResult(j) \/ DeadlinePasses(j)

LEMMA AroundType ==
  ASSUME SiteTypeOK, JobsFit, Around
  PROVE  SiteTypeOK'
<1> USE DEF JobStatuses, BusyStates
<1>1. CASE SaveResult
  <2>1. saving.job \in Jobs
    BY <1>1 DEF SaveResult, SiteTypeOK
  <2>2. job' \in [Jobs -> JobRows] /\ result' \subseteq Jobs
    BY <1>1, <2>1, SetStatusType DEF SaveResult, SiteTypeOK
  <2> QED
    BY <1>1, <2>2, RestTypes DEF SaveResult, SiteTypeOK
<1>2. CASE SiteLeaseLapses
  BY <1>2, SiteAssumption DEF SiteLeaseLapses, SiteFault, SiteTypeOK
<1>3. CASE SiteRestarts
  <2>1. job' \in [Jobs -> JobRows]
    <3> SUFFICES ASSUME NEW j \in Jobs
                 PROVE  job'[j] \in JobRows
      BY <1>3 DEF SiteRestarts
    <3>1. \/ job'[j] = job[j]
          \/ \E s \in {"BLOCKED", "UNCONFIRMED"} : job'[j] = [job[j] EXCEPT !.status = s]
      BY <1>3 DEF SiteRestarts, JobRecovered
    <3> QED
      BY <3>1 DEF SiteTypeOK, JobRows
  <2>2. site' \in SiteRows
    BY <1>3, ProfileType DEF SiteRestarts, Profiles
  <2>3. sFaults' \in 0..MaxSiteFaults
    BY <1>3, SiteAssumption DEF SiteRestarts, SiteFault, SiteTypeOK
  <2> QED
    BY <1>3, <2>1, <2>2, <2>3, RestTypes DEF SiteRestarts, SiteTypeOK
<1>4. CASE \E j \in Jobs : ReadForResult(j)
  BY <1>4 DEF ReadForResult, SiteTypeOK
<1>5. CASE \E j \in Jobs : DeadlinePasses(j)
  BY <1>5, SetStatusType DEF DeadlinePasses, SiteTypeOK
<1> QED
  BY <1>1, <1>2, <1>3, <1>4, <1>5 DEF Around

-----------------------------------------------------------------------------
(* The steps of a site keep its invariant.                                 *)

\* What a change of status leaves alone.
LEMMA SetStatusRow ==
  ASSUME SiteTypeOK, NEW j \in Jobs, NEW s,
         \/ SetStatus(j, s)
         \/ job' = [job EXCEPT ![j].status = s, ![j].token = FALSE]
  PROVE  /\ job'[j].status = s /\ job'[j].rev = job[j].rev
         /\ \A k \in Jobs \ {j} : job'[k] = job[k]
  BY DEF SiteTypeOK, SetStatus, JobRows

\* Neither the operator's call nor the writes are touched by a step of the jobs
\* that makes no job busy, and does not move the lease.
LEMMA SiteRowKept ==
  ASSUME UNCHANGED <<site, operator, written>>
  PROVE  (EnabledMatches => EnabledMatches') /\ (CallFitsSite => CallFitsSite') /\ (WritesFit => WritesFit')
  BY DEF EnabledMatches, SiteMatches, CallFitsSite, WritesFit

LEMMA JobRowsKept ==
  ASSUME UNCHANGED <<job, result, worker, saving, task>>
  PROVE  (WorkerFits => WorkerFits') /\ (JobsFit => JobsFit')
  BY DEF WorkerFits, JobsFit

\* A job that ends, or is not begun, makes room.
LEMMA QuietJob ==
  ASSUME SiteIInv, NEW j \in Jobs, NEW s \in JobStatuses \ BusyStates, UNCHANGED <<site, sLapsed, operator>>,
         \/ SetStatus(j, s)
         \/ job' = [job EXCEPT ![j].status = s, ![j].token = FALSE]
  PROVE  TaskOwnsTheSite' /\ (SiteIdle => SiteIdle')
<1>1. /\ job'[j].status \notin BusyStates
      /\ \A k \in Jobs \ {j} : job'[k] = job[k]
  BY SetStatusRow DEF SiteIInv
<1>2. SiteIdle => SiteIdle'
  BY <1>1 DEF SiteIdle
<1>3. TaskOwnsTheSite'
  BY <1>1 DEF SiteIInv, TaskOwnsTheSite, SiteMatches
<1> QED
  BY <1>2, <1>3

LEMMA EditFits ==
  ASSUME SiteIInv, EditSite
  PROVE  SiteIInv'
<1>1. PICK e \in BOOLEAN, t \in BOOLEAN :
        /\ e /\ ~site.enabled => SiteMatches
        /\ site' = [site EXCEPT !.enabled = e, !.template = t]
  BY DEF EditSite
<1>2. site'.status = site.status /\ site'.rev = site.rev /\ site'.enabled = e
  BY <1>1 DEF SiteIInv, SiteTypeOK, SiteRows
<1>3. UNCHANGED <<job, result, sLease, worker, operator, saving, task, written, sFaults, sLapsed>>
  BY DEF EditSite, OperatorOnly
<1>4. SiteTypeOK'
  BY ShortCallType DEF SiteIInv
<1>5. EnabledMatches'
  BY <1>1, <1>2 DEF SiteIInv, EnabledMatches, SiteMatches
<1>6. CallFitsSite' /\ CallOwnsSite' /\ WritesFit'
  BY <1>2, <1>3 DEF SiteIInv, CallFitsSite, CallOwnsSite, SiteIdle, WritesFit
<1>7. WorkerFits' /\ JobsFit'
  BY <1>3, JobRowsKept DEF SiteIInv
<1>8. TaskOwnsTheSite'
  BY <1>2, <1>3 DEF SiteIInv, TaskOwnsTheSite, SiteMatches
<1> QED
  BY <1>4, <1>5, <1>6, <1>7, <1>8 DEF SiteIInv

\* The operator schedules, cancels and resolves jobs that no worker has.
LEMMA JobCallFits ==
  ASSUME SiteIInv, NEW j \in Jobs, ScheduleJob(j) \/ CancelSiteJob(j) \/ ResolveSiteJob(j)
  PROVE  SiteIInv'
<1>1. UNCHANGED <<site, result, sLease, worker, operator, saving, task, written, sFaults, sLapsed>>
  BY DEF ScheduleJob, CancelSiteJob, ResolveSiteJob, OperatorOnly
<1>2. PICK s \in {"QUEUED", "CANCELLED"} :
        /\ s = "QUEUED" => job[j].status = "NONE"
        /\ job[j].status \in {"NONE", "QUEUED", "UNCONFIRMED", "TIMED_OUT"}
        /\ SetStatus(j, s) \/ job' = [job EXCEPT ![j].status = s, ![j].token = FALSE]
  BY DEF ScheduleJob, CancelSiteJob, ResolveSiteJob, SetStatus
<1>3. job'[j].status = s /\ \A k \in Jobs \ {j} : job'[k] = job[k]
  BY <1>2, SetStatusRow DEF SiteIInv
<1>4. SiteTypeOK'
  BY ShortCallType DEF SiteIInv
<1>5. s \in JobStatuses \ BusyStates
  BY DEF JobStatuses, BusyStates
<1>6. TaskOwnsTheSite' /\ (SiteIdle => SiteIdle')
  BY <1>1, <1>2, <1>5, QuietJob
<1>7. EnabledMatches' /\ CallFitsSite' /\ WritesFit' /\ CallOwnsSite'
  BY <1>1, <1>6, SiteRowKept DEF SiteIInv, CallOwnsSite
<1>8. WorkerFits'
  <2>1. worker.pc # "idle" => worker.job # j /\ worker.job \in Jobs
    BY <1>2 DEF SiteIInv, WorkerFits
  <2> QED
    BY <1>1, <1>3, <2>1 DEF SiteIInv, WorkerFits
<1>9. JobsFit'
  BY <1>1, <1>2, <1>3 DEF SiteIInv, JobsFit
<1> QED
  BY <1>4, <1>6, <1>7, <1>8, <1>9 DEF SiteIInv

LEMMA CallJobs ==
  ASSUME SiteIInv, Calls
  PROVE  UNCHANGED <<job, result, worker, saving, task, sFaults, sLapsed>>
  BY DEF Calls, SiteOnly, PrepareBegins, PrepareEnds, ApplyBegins, ApplyStarts, ApplyFails, ApplyGps, ApplyWifi,
     ApplyAccepted, ApplyVerifies

\* While no lease has lapsed, a long call changes the site's row under no job.
LEMMA CallOwns ==
  ASSUME SiteIInv, Calls
  PROVE  CallOwnsSite' /\ TaskOwnsTheSite'
<1> USE DEF SiteIInv, SiteTypeOK, OperatorCalls
<1>1. UNCHANGED <<job, sLapsed>>
  BY CallJobs
<1>2. CASE PrepareBegins \/ ApplyBegins
  <2>1. sLease' = "operator" /\ SiteIdle /\ UNCHANGED site
    BY <1>2 DEF PrepareBegins, ApplyBegins
  <2> QED
    BY <1>1, <2>1 DEF CallOwnsSite, SiteIdle, TaskOwnsTheSite, SiteMatches
<1>3. CASE ~(PrepareBegins \/ ApplyBegins)
  <2>1. operator.pc # "idle"
    BY <1>3 DEF Calls, OperatorAt, PrepareEnds, ApplyStarts, ApplyFails, ApplyGps, ApplyWifi, ApplyAccepted, ApplyVerifies
  <2>2. operator'.pc = "idle" \/ UNCHANGED sLease
    BY <1>3 DEF Calls, OperatorLeaves, OperatorIdle, PrepareEnds, ApplyStarts, ApplyFails, ApplyGps, ApplyWifi,
       ApplyAccepted, ApplyVerifies
  <2>3. ~sLapsed => SiteIdle /\ sLease = "operator"
    BY <2>1 DEF CallOwnsSite
  <2>4. CallOwnsSite'
    BY <1>1, <2>2, <2>3 DEF CallOwnsSite, SiteIdle
  <2>5. TaskOwnsTheSite'
    BY <1>1, <2>3 DEF TaskOwnsTheSite, SiteIdle, SiteMatches
  <2> QED
    BY <2>4, <2>5
<1> QED
  BY <1>2, <1>3

\* The call's place, the row and what was written go together.
LEMMA CallFits ==
  ASSUME SiteIInv, Calls
  PROVE  EnabledMatches' /\ CallFitsSite' /\ WritesFit'
<1> USE DEF SiteIInv, EnabledMatches, SiteMatches, CallFitsSite, WritesFit, OperatorAt, OperatorGoes, OperatorLeaves, OperatorIdle
<1>0. site \in SiteRows /\ operator \in OperatorCalls /\ written \in [Revisions -> [gps : Nat, wifi : Nat]]
  BY DEF SiteTypeOK
<1>1. CASE PrepareBegins
  <2>1. /\ site.rev < MaxProfiles /\ operator'.pc = "prepare"
        /\ UNCHANGED <<site, written>>
    BY <1>0, <1>1 DEF PrepareBegins, OperatorCalls
  <2> QED
    BY <2>1
<1>2. CASE PrepareEnds
  <2>1. operator' = OperatorIdle /\ UNCHANGED written
    BY <1>2 DEF PrepareEnds
  <2>2. CASE UNCHANGED site
    BY <2>1, <2>2
  <2>3. CASE site' # site
    <3>1. PICK s \in {"PREPARED", "BLOCKED"} : site' = [site EXCEPT !.status = s, !.rev = @ + 1, !.enabled = FALSE]
      BY <1>2, <2>3 DEF PrepareEnds
    <3>2. site'.rev = site.rev + 1 /\ ~site'.enabled
      BY <1>0, <3>1 DEF SiteRows
    <3>3. site.rev + 1 \in Revisions /\ site.rev \in Nat /\ site.rev + 1 > site.rev
      BY <1>0, <1>2, SiteAssumption DEF PrepareEnds, SiteRows, Revisions
    <3>4. written[site.rev + 1] = [gps |-> 0, wifi |-> 0]
      BY <3>3
    <3>5. \A r \in Revisions : r > site'.rev => r > site.rev
      BY <3>2, <3>3, SiteAssumption DEF Revisions
    <3> QED
      BY <2>1, <3>2, <3>4, <3>5
  <2> QED
    BY <2>2, <2>3
<1>3. CASE ApplyBegins
  <2>1. /\ operator'.pc = "apply" /\ operator'.rev = site.rev /\ ~operator'.wrote /\ ~operator'.wifi
        /\ site.status = "PREPARED" /\ UNCHANGED <<site, written>>
    BY <1>3 DEF ApplyBegins
  <2> QED
    BY <2>1
<1>4. CASE ApplyStarts
  <2>1. CASE OperatorLeaves /\ UNCHANGED site
    BY <1>4, <2>1 DEF ApplyStarts
  <2>2. CASE site' = [site EXCEPT !.status = "APPLYING", !.enabled = FALSE] /\ OperatorGoes("gps")
    <3>1. site'.status = "APPLYING" /\ ~site'.enabled /\ site'.rev = site.rev
      BY <1>0, <2>2 DEF SiteRows
    <3>2. operator'.pc = "gps" /\ operator'.rev = operator.rev /\ operator'.wrote = operator.wrote /\ operator'.wifi = operator.wifi
      BY <1>0, <2>2 DEF OperatorCalls
    <3>3. operator.pc = "apply" /\ UNCHANGED written
      BY <1>4 DEF ApplyStarts
    <3> QED
      BY <3>1, <3>2, <3>3
  <2> QED
    BY <1>4, <2>1, <2>2 DEF ApplyStarts
<1>5. CASE ApplyFails
  <2>1. /\ site'.status = IF operator.wrote THEN "UNCONFIRMED" ELSE "BLOCKED"
        /\ site'.rev = site.rev /\ site'.enabled = site.enabled
    BY <1>0, <1>5 DEF ApplyFails, SiteRows
  <2>2. operator.pc \in {"gps", "wifi", "accepted", "verify"} /\ operator' = OperatorIdle /\ UNCHANGED written
    BY <1>5 DEF ApplyFails
  <2>3. ~site.enabled
    BY <2>2
  <2>4. ~operator.wrote => written[site.rev] = [gps |-> 0, wifi |-> 0]
    BY <2>2
  <2> QED
    BY <2>1, <2>2, <2>3, <2>4
<1>6. CASE ApplyGps
  <2> DEFINE r == operator.rev
  <2>1. operator.pc = "gps" /\ UNCHANGED site /\ r = site.rev /\ site.status = "APPLYING" /\ r \in Revisions
    BY <1>0, <1>6 DEF ApplyGps, OperatorCalls
  <2>2. operator'.pc = "wifi" /\ operator'.rev = r /\ operator'.wrote /\ operator'.wifi = operator.wifi
    BY <1>0, <1>6 DEF ApplyGps, OperatorCalls
  <2>3. /\ written'[r].gps = 1 /\ written'[r].wifi = 0
        /\ \A q \in Revisions \ {r} : written'[q] = written[q]
    BY <1>0, <1>6, <2>1 DEF ApplyGps
  <2>4. \A q \in Revisions : q > site.rev => q # r
    BY <2>1, SiteAssumption DEF Revisions
  <2> HIDE DEF r
  <2> QED
    BY <2>1, <2>2, <2>3, <2>4
<1>7. CASE ApplyWifi
  <2> DEFINE r == operator.rev
  <2>1. /\ operator.pc = "wifi" /\ UNCHANGED site /\ r = site.rev /\ site.status = "APPLYING" /\ r \in Revisions
        /\ ~operator.wifi
    BY <1>0, <1>7 DEF ApplyWifi, OperatorCalls
  <2>2. operator'.pc \in {"wifi", "accepted"} /\ operator'.rev = r /\ operator'.wrote /\ operator'.wifi
    BY <1>0, <1>7 DEF ApplyWifi, OperatorCalls
  <2>3. /\ written'[r].gps = written[r].gps /\ written'[r].wifi = 1
        /\ \A q \in Revisions \ {r} : written'[q] = written[q]
    BY <1>0, <1>7, <2>1 DEF ApplyWifi
  <2>4. \A q \in Revisions : q > site.rev => q # r
    BY <2>1, SiteAssumption DEF Revisions
  <2> HIDE DEF r
  <2> QED
    BY <2>1, <2>2, <2>3, <2>4
<1>8. CASE ApplyAccepted
  <2>1. site'.status = "API_ACCEPTED" /\ site'.rev = site.rev /\ site'.enabled = site.enabled
    BY <1>0, <1>8 DEF ApplyAccepted, SiteRows
  <2>2. operator'.pc = "verify" /\ operator'.rev = operator.rev /\ operator'.wrote = operator.wrote
    BY <1>0, <1>8 DEF ApplyAccepted, OperatorCalls
  <2>3. operator.pc = "accepted" /\ UNCHANGED written
    BY <1>8 DEF ApplyAccepted
  <2> QED
    BY <2>1, <2>2, <2>3
<1>9. CASE ApplyVerifies
  <2>1. site'.status \in {"PROVIDER_MATCH", "MISMATCH"} /\ site'.rev = site.rev /\ site'.enabled = site.enabled
    BY <1>0, <1>9 DEF ApplyVerifies, SiteRows
  <2>2. operator.pc = "verify" /\ operator' = OperatorIdle /\ UNCHANGED written
    BY <1>9 DEF ApplyVerifies
  <2> QED
    BY <2>1, <2>2
<1> QED
  BY <1>1, <1>2, <1>3, <1>4, <1>5, <1>6, <1>7, <1>8, <1>9 DEF Calls

LEMMA LongCallFits ==
  ASSUME SiteIInv, Calls
  PROVE  SiteIInv'
<1>1. SiteTypeOK'
  BY LongCallType DEF SiteIInv
<1>2. WorkerFits' /\ JobsFit'
  BY CallJobs, JobRowsKept DEF SiteIInv
<1> QED
  BY <1>1, <1>2, CallOwns, CallFits DEF SiteIInv

\* A busy job stays busy, under the same revision, or ends: no other job is
\* busy, and the operator's call is not under way unless a lease has lapsed.
LEMMA BusyJobMoves ==
  ASSUME SiteIInv, NEW j \in Jobs, job[j].status \in BusyStates,
         UNCHANGED <<site, sLapsed, operator>>,
         job'[j].rev = job[j].rev, \A k \in Jobs \ {j} : job'[k] = job[k],
         job[j].status = "PREFLIGHT" /\ job'[j].status \in BusyStates =>
           SiteMatches /\ site.rev = job[j].rev
  PROVE  TaskOwnsTheSite' /\ CallOwnsSite'
<1>1. ~SiteIdle
  BY DEF SiteIdle
<1>2. CallOwnsSite'
  BY <1>1 DEF SiteIInv, CallOwnsSite
<1>3. \A k \in Jobs \ {j} : job[k].status \notin BusyStates /\ job'[k].status \notin BusyStates
  BY DEF SiteIInv, TaskOwnsTheSite
<1>4. ASSUME ~sLapsed, job'[j].status \in BusyStates PROVE SiteMatches /\ site.rev = job[j].rev
  BY <1>4 DEF SiteIInv, TaskOwnsTheSite
<1>5. TaskOwnsTheSite'
  BY <1>3, <1>4 DEF TaskOwnsTheSite, SiteMatches
<1> QED
  BY <1>2, <1>5

LEMMA ClaimFits ==
  ASSUME SiteIInv, NEW j \in Jobs, ClaimJob(j)
  PROVE  SiteIInv'
<1>1. UNCHANGED <<site, result, operator, saving, task, written, sFaults, sLapsed>>
  BY DEF ClaimJob, WorkerOnly
<1>2. /\ job[j].status = "QUEUED" /\ SiteIdle /\ sLease = "free"
      /\ worker' = [RunIdle EXCEPT !.pc = "preflight", !.job = j]
      /\ SetStatus(j, "PREFLIGHT")
  BY DEF ClaimJob
<1>3. job'[j].status = "PREFLIGHT" /\ \A k \in Jobs \ {j} : job'[k] = job[k]
  BY <1>2, SetStatusRow DEF SiteIInv
<1>4. worker'.pc = "preflight" /\ worker'.job = j /\ ~worker'.submitted
  BY <1>2 DEF RunIdle
<1>5. SiteTypeOK'
  BY WorkerType DEF SiteIInv, SiteWorker
<1>6. EnabledMatches' /\ CallFitsSite' /\ WritesFit'
  BY <1>1, SiteRowKept DEF SiteIInv
<1>7. CallOwnsSite'
  BY <1>1, <1>2 DEF SiteIInv, CallOwnsSite
<1>8. WorkerFits'
  BY <1>3, <1>4 DEF WorkerFits
<1>9. JobsFit'
  BY <1>1, <1>2, <1>3 DEF SiteIInv, JobsFit
<1>10. TaskOwnsTheSite'
  BY <1>2, <1>3 DEF TaskOwnsTheSite, SiteIdle
<1> QED
  BY <1>5, <1>6, <1>7, <1>8, <1>9, <1>10 DEF SiteIInv

LEMMA WorkerFitsStep ==
  ASSUME SiteIInv, PreflightJob \/ BeforeTask \/ SendTask \/ TaskAccepted \/ CatchJob
  PROVE  SiteIInv'
<1> DEFINE j == worker.job
<1>0. /\ SiteTypeOK /\ WorkerFits /\ JobsFit
      /\ worker \in WorkerCalls /\ job \in [Jobs -> JobRows] /\ task \in [Jobs -> Nat]
  BY DEF SiteIInv, SiteTypeOK
<1>1. worker.pc # "idle" /\ j \in Jobs
  BY <1>0 DEF WorkerFits, PreflightJob, BeforeTask, SendTask, TaskAccepted, CatchJob
<1>2. UNCHANGED <<site, result, operator, saving, written, sFaults, sLapsed>>
  BY DEF WorkerOnly, PreflightJob, BeforeTask, SendTask, TaskAccepted, CatchJob
<1>3. SiteTypeOK'
  BY WorkerType DEF SiteIInv, SiteWorker
<1>4. EnabledMatches' /\ CallFitsSite' /\ WritesFit'
  BY <1>2, SiteRowKept DEF SiteIInv
<1>5. CASE PreflightJob
  <2>1. worker.pc = "preflight" /\ job[j].status = "PREFLIGHT" /\ ~worker.submitted /\ UNCHANGED <<sLease, task>>
    BY <1>0, <1>5 DEF PreflightJob, WorkerFits
  <2>2. CASE WorkerGoes("catch") /\ UNCHANGED job
    <3>1. worker'.pc = "catch" /\ worker'.job = j /\ ~worker'.submitted
      BY <1>0, <2>1, <2>2 DEF WorkerGoes, WorkerCalls
    <3>2. WorkerFits' /\ JobsFit'
      BY <1>0, <1>1, <1>2, <2>1, <2>2, <3>1 DEF WorkerFits, JobsFit
    <3>3. CallOwnsSite' /\ TaskOwnsTheSite'
      BY <1>2, <2>1, <2>2 DEF SiteIInv, CallOwnsSite, SiteIdle, TaskOwnsTheSite, SiteMatches
    <3> QED
      BY <1>3, <1>4, <3>2, <3>3 DEF SiteIInv
  <2>3. CASE /\ job' = [job EXCEPT ![j].rev = site.rev, ![j].token = TRUE]
             /\ worker' = [worker EXCEPT !.pc = "trigger", !.rev = site.rev]
    <3>1. worker'.pc = "trigger" /\ worker'.job = j /\ ~worker'.submitted /\ worker'.rev = site.rev
      BY <1>0, <2>1, <2>3 DEF WorkerCalls
    <3>2. /\ job'[j].status = "PREFLIGHT" /\ job'[j].rev = site.rev
          /\ \A k \in Jobs \ {j} : job'[k] = job[k]
      BY <1>0, <1>1, <2>1, <2>3 DEF JobRows
    <3>3. task[j] = 0
      BY <1>0, <1>1, <2>1 DEF JobsFit
    <3>4. WorkerFits'
      BY <1>1, <2>1, <3>1, <3>2, <3>3 DEF WorkerFits
    <3>5. JobsFit'
      BY <1>0, <1>1, <1>2, <2>1, <3>2 DEF JobsFit
    <3>6. \A k \in Jobs : job'[k].status = job[k].status
      BY <2>1, <3>2
    <3>7. \A k \in Jobs : job[k].status # "PREFLIGHT" => job'[k].rev = job[k].rev
      BY <2>1, <3>2
    <3>8. CallOwnsSite' /\ TaskOwnsTheSite'
      BY <1>2, <2>1, <3>6, <3>7 DEF SiteIInv, CallOwnsSite, SiteIdle, TaskOwnsTheSite, SiteMatches
    <3> QED
      BY <1>3, <1>4, <3>4, <3>5, <3>8 DEF SiteIInv
  <2> QED
    BY <1>5, <2>2, <2>3 DEF PreflightJob
<1>6. CASE BeforeTask
  <2>1. worker.pc = "trigger" /\ task[j] = 0 /\ job[j].rev = worker.rev /\ UNCHANGED <<sLease, task>>
    BY <1>0, <1>6 DEF BeforeTask, WorkerFits
  <2>2. CASE WorkerGoes("catch") /\ UNCHANGED job
    <3>1. worker'.pc = "catch" /\ worker'.job = j /\ worker'.submitted = worker.submitted
      BY <1>0, <2>1, <2>2 DEF WorkerGoes, WorkerCalls
    <3>2. WorkerFits' /\ JobsFit'
      BY <1>0, <1>1, <1>2, <2>1, <2>2, <3>1 DEF WorkerFits, JobsFit
    <3>3. CallOwnsSite' /\ TaskOwnsTheSite'
      BY <1>2, <2>1, <2>2 DEF SiteIInv, CallOwnsSite, SiteIdle, TaskOwnsTheSite, SiteMatches
    <3> QED
      BY <1>3, <1>4, <3>2, <3>3 DEF SiteIInv
  <2>3. CASE /\ site.enabled /\ site.rev = worker.rev /\ job[j].status = "PREFLIGHT"
             /\ SetStatus(j, "SUBMITTING") /\ worker' = [worker EXCEPT !.pc = "send", !.submitted = TRUE]
    <3>1. worker'.pc = "send" /\ worker'.job = j /\ worker'.submitted /\ worker'.rev = worker.rev
      BY <1>0, <2>3 DEF WorkerCalls
    <3>2. /\ job'[j].status = "SUBMITTING" /\ job'[j].rev = job[j].rev
          /\ \A k \in Jobs \ {j} : job'[k] = job[k]
      BY <1>0, <1>1, <2>3, SetStatusRow
    <3>3. SiteMatches /\ site.rev = job[j].rev
      BY <2>1, <2>3 DEF SiteIInv, EnabledMatches
    <3>4. WorkerFits'
      BY <1>1, <2>1, <3>1, <3>2 DEF WorkerFits
    <3>5. JobsFit'
      BY <1>0, <1>1, <1>2, <2>1, <2>3, <3>2 DEF JobsFit
    <3>6. job[j].status \in BusyStates
      BY <2>3 DEF BusyStates
    <3>7. CallOwnsSite' /\ TaskOwnsTheSite'
      BY <1>1, <1>2, <3>2, <3>3, <3>6, BusyJobMoves
    <3> QED
      BY <1>3, <1>4, <3>4, <3>5, <3>7 DEF SiteIInv
  <2> QED
    BY <1>6, <2>2, <2>3 DEF BeforeTask
<1>7. CASE SendTask
  <2>1. worker.pc = "send" /\ worker.submitted /\ task[j] = 0 /\ UNCHANGED <<job, sLease>>
    BY <1>0, <1>7 DEF SendTask, WorkerFits
  <2>2. PICK sent \in BOOLEAN, next \in {"accepted", "trigger", "catch"} :
          /\ next = "trigger" => ~sent
          /\ task' = [task EXCEPT ![j] = IF sent THEN @ + 1 ELSE @]
          /\ WorkerGoes(next)
    BY <1>7 DEF SendTask
  <2>3. worker'.pc = next /\ worker'.job = j /\ worker'.submitted /\ worker'.rev = worker.rev
    BY <1>0, <2>1, <2>2 DEF WorkerGoes, WorkerCalls
  <2>4. task'[j] <= 1 /\ (next = "trigger" => task'[j] = 0) /\ \A k \in Jobs \ {j} : task'[k] = task[k]
    BY <1>0, <1>1, <2>1, <2>2
  <2>5. job[j].status \in {"SUBMITTING", "COMPLETED"} /\ job[j].rev = worker.rev
    BY <1>0, <2>1 DEF WorkerFits
  <2>6. WorkerFits'
    BY <1>1, <2>1, <2>3, <2>4, <2>5 DEF WorkerFits
  <2>7. JobsFit'
    BY <1>0, <1>2, <2>1, <2>4, <2>5 DEF JobsFit
  <2>8. CallOwnsSite' /\ TaskOwnsTheSite'
    BY <1>2, <2>1 DEF SiteIInv, CallOwnsSite, SiteIdle, TaskOwnsTheSite, SiteMatches
  <2> QED
    BY <1>3, <1>4, <2>6, <2>7, <2>8 DEF SiteIInv
<1>8. CASE TaskAccepted \/ CatchJob
  <2>1. worker'.pc = "idle" /\ (sLease' = sLease \/ sLease = "worker") /\ UNCHANGED task
    BY <1>8 DEF TaskAccepted, CatchJob, WorkerLeaves, LeaseFreed, RunIdle
  <2>2. WorkerFits'
    BY <2>1 DEF WorkerFits
  <2>3. CASE UNCHANGED job
    <3>1. JobsFit'
      BY <1>0, <1>2, <2>1, <2>3 DEF JobsFit
    <3>2. CallOwnsSite' /\ TaskOwnsTheSite'
      BY <1>2, <2>1, <2>3 DEF SiteIInv, CallOwnsSite, SiteIdle, TaskOwnsTheSite, SiteMatches
    <3> QED
      BY <1>3, <1>4, <2>2, <3>1, <3>2 DEF SiteIInv
  <2>4. CASE job' # job
    <3>1. PICK s \in {"AWAITING_RESULT", "UNCONFIRMED", "BLOCKED"} :
            /\ IF s = "BLOCKED" THEN ~worker.submitted /\ job[j].status \in {"PREFLIGHT", "SUBMITTING"}
               ELSE job[j].status = "SUBMITTING" \/ (worker.submitted /\ job[j].status = "PREFLIGHT")
            /\ SetStatus(j, s) \/ job' = [job EXCEPT ![j].status = s, ![j].token = FALSE]
      BY <1>8, <2>4 DEF TaskAccepted, CatchJob, SetStatus
    <3>2. /\ job'[j].status = s /\ job'[j].rev = job[j].rev
          /\ \A k \in Jobs \ {j} : job'[k] = job[k]
      BY <1>0, <1>1, <3>1, SetStatusRow
    <3>3. IF s = "BLOCKED" THEN job[j].status = "PREFLIGHT" ELSE job[j].status = "SUBMITTING"
      BY <1>0, <1>1, <3>1 DEF WorkerFits
    <3>4. JobsFit'
      BY <1>0, <1>1, <1>2, <2>1, <3>2, <3>3 DEF JobsFit
    <3>5. job[j].status \in BusyStates
      BY <3>3 DEF BusyStates
    <3>6. job[j].status = "PREFLIGHT" => job'[j].status \notin BusyStates
      BY <3>2, <3>3 DEF BusyStates
    <3>7. CallOwnsSite' /\ TaskOwnsTheSite'
      <4>1. TaskOwnsTheSite'
        BY <1>1, <1>2, <3>2, <3>5, <3>6, BusyJobMoves
      <4>2. CallOwnsSite'
        BY <1>1, <1>2, <3>2, <3>5, <3>6, BusyJobMoves
      <4> QED
        BY <4>1, <4>2
    <3> QED
      BY <1>3, <1>4, <2>2, <3>4, <3>7 DEF SiteIInv
  <2> QED
    BY <2>3, <2>4
<1> QED
  BY <1>5, <1>6, <1>7, <1>8

LEMMA AroundFits ==
  ASSUME SiteIInv, Around
  PROVE  SiteIInv'
<1>0. /\ SiteTypeOK /\ WorkerFits /\ JobsFit
      /\ worker \in WorkerCalls /\ job \in [Jobs -> JobRows] /\ site \in SiteRows
  BY DEF SiteIInv, SiteTypeOK
<1>1. SiteTypeOK'
  BY AroundType DEF SiteIInv
<1>2. CASE SaveResult \/ \E j \in Jobs : DeadlinePasses(j)
  <2>1. /\ UNCHANGED <<site, sLease, worker, operator, task, written, sLapsed>>
        /\ saving' = SavingIdle \/ UNCHANGED saving
    BY <1>2 DEF SaveResult, DeadlinePasses
  <2>2. SavingIdle.job \notin Jobs
    BY SiteAssumption DEF SavingIdle
  <2>3. EnabledMatches' /\ CallFitsSite' /\ WritesFit'
    BY <2>1, SiteRowKept DEF SiteIInv
  <2>4. CASE UNCHANGED <<job, result>>
    <3>1. WorkerFits' /\ JobsFit'
      BY <1>0, <2>1, <2>2, <2>4 DEF WorkerFits, JobsFit
    <3>2. CallOwnsSite' /\ TaskOwnsTheSite'
      BY <2>1, <2>4 DEF SiteIInv, CallOwnsSite, SiteIdle, TaskOwnsTheSite, SiteMatches
    <3> QED
      BY <1>1, <2>3, <3>1, <3>2 DEF SiteIInv
  <2>5. CASE ~UNCHANGED <<job, result>>
    <3>1. PICK j \in Jobs, s \in {"COMPLETED", "TIMED_OUT"} :
            /\ job[j].status \in {"SUBMITTING", "AWAITING_RESULT", "UNCONFIRMED", "TIMED_OUT"}
            /\ s = "TIMED_OUT" => job[j].status = "AWAITING_RESULT"
            /\ SetStatus(j, s)
            /\ result' = IF s = "COMPLETED" THEN result \cup {j} ELSE result
      <4>1. CASE SaveResult
        <5>1. saving.job \in Jobs /\ job[saving.job].status = saving.status
          BY <1>0, <2>5, <4>1 DEF SaveResult, SiteTypeOK
        <5>2. saving.status \in {"SUBMITTING", "AWAITING_RESULT", "UNCONFIRMED", "TIMED_OUT"}
          BY <1>0, <5>1 DEF JobsFit, BusyStates
        <5> QED
          BY <4>1, <5>1, <5>2 DEF SaveResult
      <4>2. CASE \E j \in Jobs : DeadlinePasses(j)
        BY <4>2 DEF DeadlinePasses
      <4> QED
        BY <1>2, <4>1, <4>2
    <3>2. /\ job'[j].status = s /\ job'[j].rev = job[j].rev
          /\ \A k \in Jobs \ {j} : job'[k] = job[k]
      BY <1>0, <3>1, SetStatusRow
    <3>3. JobsFit'
      BY <1>0, <2>1, <2>2, <3>1, <3>2 DEF JobsFit
    <3>4. WorkerFits'
      <4>1. CASE worker.pc = "idle"
        BY <2>1, <4>1 DEF WorkerFits
      <4>2. CASE worker.pc # "idle" /\ worker.job # j
        BY <1>0, <2>1, <3>2, <4>2 DEF WorkerFits
      <4>3. CASE worker.pc # "idle" /\ worker.job = j
        <5>1. worker.submitted /\ job[j].status = "SUBMITTING" /\ s = "COMPLETED"
          BY <1>0, <3>1, <4>3 DEF WorkerFits
        <5> QED
          BY <1>0, <2>1, <3>2, <4>3, <5>1 DEF WorkerFits
      <4> QED
        BY <4>1, <4>2, <4>3
    <3>5. job[j].status \in BusyStates /\ job[j].status # "PREFLIGHT"
      BY <3>1 DEF BusyStates
    <3>6. CallOwnsSite' /\ TaskOwnsTheSite'
      BY <2>1, <3>2, <3>5, BusyJobMoves
    <3> QED
      BY <1>1, <2>3, <3>3, <3>4, <3>6 DEF SiteIInv
  <2> QED
    BY <2>4, <2>5
<1>3. CASE SiteLeaseLapses
  <2>1. /\ UNCHANGED <<site, job, result, worker, operator, saving, task, written>>
        /\ sLapsed'
    BY <1>3 DEF SiteLeaseLapses
  <2>2. EnabledMatches' /\ CallFitsSite' /\ WritesFit' /\ WorkerFits' /\ JobsFit'
    BY <2>1, SiteRowKept, JobRowsKept DEF SiteIInv
  <2>3. CallOwnsSite' /\ TaskOwnsTheSite'
    BY <2>1 DEF SiteIInv, CallOwnsSite, TaskOwnsTheSite
  <2> QED
    BY <1>1, <2>2, <2>3 DEF SiteIInv
<1>4. CASE SiteRestarts
  <2>1. /\ worker' = RunIdle /\ operator' = OperatorIdle /\ saving' = SavingIdle
        /\ UNCHANGED <<result, task, written, sLapsed>>
    BY <1>4 DEF SiteRestarts
  <2>2. /\ site'.rev = site.rev
        /\ IF site.status = "APPLYING" THEN site'.status = "UNCONFIRMED" /\ ~site'.enabled
           ELSE site' = site
    BY <1>0, <1>4 DEF SiteRestarts, SiteRows
  <2>3. EnabledMatches' /\ CallFitsSite' /\ WritesFit' /\ CallOwnsSite' /\ WorkerFits'
    BY <2>1, <2>2 DEF SiteIInv, EnabledMatches, SiteMatches, CallFitsSite, WritesFit, CallOwnsSite, WorkerFits,
       RunIdle, OperatorIdle
  <2>4. \A j \in Jobs :
          /\ job'[j].rev = job[j].rev
          /\ job'[j].status = IF job[j].status = "PREFLIGHT" THEN "BLOCKED"
                              ELSE IF job[j].status = "SUBMITTING" THEN "UNCONFIRMED" ELSE job[j].status
    BY <1>0, <1>4 DEF SiteRestarts, JobRecovered, JobRows
  <2>5. JobsFit'
    <3>1. saving'.job \notin Jobs
      BY <2>1, SiteAssumption DEF SavingIdle
    <3> QED
      BY <1>0, <2>1, <2>4, <3>1 DEF JobsFit
  <2>6. \A j \in Jobs : job'[j].status \in BusyStates => job[j].status \in BusyStates /\ job[j].status # "PREFLIGHT"
    BY <2>4 DEF BusyStates
  <2>7. SiteMatches => SiteMatches'
    BY <2>2 DEF SiteMatches
  <2>8. TaskOwnsTheSite'
    BY <2>1, <2>2, <2>4, <2>6, <2>7 DEF SiteIInv, TaskOwnsTheSite
  <2> QED
    BY <1>1, <2>3, <2>5, <2>8 DEF SiteIInv
<1>5. CASE \E j \in Jobs : ReadForResult(j)
  <2>1. /\ UNCHANGED <<site, job, result, sLease, worker, operator, task, written, sLapsed>>
        /\ saving'.status \in BusyStates \ {"PREFLIGHT"}
    BY <1>5 DEF ReadForResult, BusyStates
  <2>2. EnabledMatches' /\ CallFitsSite' /\ WritesFit'
    BY <2>1, SiteRowKept DEF SiteIInv
  <2>3. WorkerFits' /\ JobsFit'
    BY <1>0, <2>1 DEF WorkerFits, JobsFit
  <2>4. CallOwnsSite' /\ TaskOwnsTheSite'
    BY <2>1 DEF SiteIInv, CallOwnsSite, SiteIdle, TaskOwnsTheSite, SiteMatches
  <2> QED
    BY <1>1, <2>2, <2>3, <2>4 DEF SiteIInv
<1> QED
  BY <1>2, <1>3, <1>4, <1>5 DEF Around

LEMMA SiteStepFits ==
  ASSUME SiteIInv, [SiteNext]_siteVars
  PROVE  SiteIInv'
<1>1. CASE SiteNext
  <2>1. CASE SiteOperator
    <3>1. \/ EditSite \/ Calls
          \/ \E j \in Jobs : ScheduleJob(j) \/ CancelSiteJob(j) \/ ResolveSiteJob(j)
      BY <2>1 DEF SiteOperator, Calls
    <3> QED
      BY <3>1, EditFits, LongCallFits, JobCallFits
  <2>2. CASE SiteWorker
    BY <2>2, ClaimFits, WorkerFitsStep DEF SiteWorker
  <2>3. CASE Around
    BY <2>3, AroundFits
  <2> QED
    BY <1>1, <2>1, <2>2, <2>3 DEF SiteNext, Around
<1>2. CASE UNCHANGED siteVars
  BY <1>2 DEF siteVars, SiteIInv, SiteTypeOK, EnabledMatches, CallFitsSite, CallOwnsSite, WritesFit, WorkerFits,
     JobsFit, TaskOwnsTheSite, SiteMatches, SiteIdle
<1> QED
  BY <1>1, <1>2

\* What the statuses of a site and its jobs say is true, and a task that may run
\* has the site for itself, whatever the number of jobs, profiles, restarts and
\* lapsed leases (sites/service.ts and jobs.ts).
THEOREM SiteHonest == SiteSpec => [](SiteTypeOK /\ SiteWorkIsTrue)
<1>1. SiteInit => SiteIInv
  BY SiteInitFits
<1>2. SiteIInv /\ [SiteNext]_siteVars => SiteIInv'
  BY SiteStepFits
<1>3. SiteIInv => SiteTypeOK /\ SiteWorkIsTrue
  BY DEF SiteIInv, WritesFit, JobsFit, Revisions, SiteWorkIsTrue, SiteStatusIsTrue
<1> QED
  BY <1>1, <1>2, <1>3, PTL DEF SiteSpec

(***************************************************************************)
(* The paid library of a site's phone.                                     *)
(***************************************************************************)

\* One refresh of the key at a time.
OneFlight == \A a, b \in Flying : a = b

\* What a refresh has still to ask for is as old in the library as it was
\* when the refresh looked: nobody else saves an answer meanwhile.
FlightFits ==
  \A a \in Askers :
    /\ flight[a].at <= lClock
    /\ flight[a].pc = "query" => flight[a].pages < MaxPages
    /\ flight[a].pc \in {"query", "save"} =>
         /\ flight[a].missing # <<>>
         /\ \A i \in 1..Len(flight[a].missing), u \in library :
              u.endpoint = flight[a].missing[i] => u.at + Ttl <= flight[a].at

\* An endpoint that is not to be asked for any more has an answer.
QueueFits ==
  \A a \in Askers :
    /\ flight[a].pc = "done" => flight[a].missing = <<>>
    /\ flight[a].pc \in {"query", "save", "done"} =>
         \A k \in 1..2 : \/ \E u \in library : u.endpoint = Endpoints[k]
                        \/ \E i \in 1..Len(flight[a].missing) : flight[a].missing[i] = Endpoints[k]

AnswersArePast == \A u \in library : u.at <= lClock

LibraryIInv ==
  /\ LibraryTypeOK /\ OneFlight /\ FlightFits /\ QueueFits /\ AnswersArePast
  /\ LibraryIsHonest

-----------------------------------------------------------------------------
(* A bounded set of times has a latest one, so Checked is what it says.    *)

LEMMA Earliest ==
  ASSUME NEW D \in SUBSET Nat, D # {}
  PROVE  \E d \in D : \A e \in D : d <= e
<1>1. \E d \in D : \A e \in D : ~(<<e, d>> \in OpToRel(<, Nat))
  BY NatLessThanWellFounded, WFMin
<1>2. \A d \in D, e \in D : ~(<<e, d>> \in OpToRel(<, Nat)) => d <= e
  BY DEF OpToRel
<1> QED
  BY <1>1, <1>2

LEMMA Latest ==
  ASSUME NEW m \in Nat, NEW S \in SUBSET (0..m), S # {}
  PROVE  \E t \in S : \A s \in S : s <= t
<1> DEFINE D == {m - s : s \in S}
<1>1. \A s \in S : m - s \in Nat
  OBVIOUS
<1>2. D # {}
  OBVIOUS
<1>3. D \in SUBSET Nat
  BY <1>1
<1>4. PICK d \in D : \A e \in D : d <= e
  BY <1>2, <1>3, Earliest
<1>5. PICK t \in S : d = m - t
  OBVIOUS
<1>6. \A s \in S : m - t <= m - s
  BY <1>4, <1>5
<1> QED
  BY <1>6

\* checkedEndpoints: unset when there is no answer, else the time of the newest.
LEMMA CheckedIsNewest ==
  ASSUME LibraryTypeOK, NEW e
  PROVE  /\ Checked(e) = Unset => \A u \in library : u.endpoint # e
         /\ Checked(e) # Unset =>
              /\ \E u \in library : u.endpoint = e /\ u.at = Checked(e)
              /\ \A u \in library : u.endpoint = e => u.at <= Checked(e)
<1> DEFINE times == {u.at : u \in {v \in library : v.endpoint = e}}
<1>1. Checked(e) = IF times = {} THEN Unset ELSE CHOOSE t \in times : \A s \in times : s <= t
  BY DEF Checked
<1>2. CASE times = {}
  <2>1. \A u \in library : u.endpoint # e
    BY <1>2
  <2> QED
    BY <1>1, <1>2, <2>1
<1>3. CASE times # {}
  <2>1. times \in SUBSET (0..MaxLibraryClock)
    BY DEF LibraryTypeOK, Answers
  <2>2. \E t \in times : \A s \in times : s <= t
    BY <1>3, <2>1, SiteLibraryAssumption, Latest
  <2>3. Checked(e) \in times /\ \A s \in times : s <= Checked(e)
    BY <1>1, <1>3, <2>2
  <2>4. Checked(e) # Unset
    BY <2>1, <2>3 DEF Unset
  <2>5. \A u \in library : u.endpoint = e => u.at \in times
    OBVIOUS
  <2> QED
    BY <2>3, <2>4, <2>5
<1> QED
  BY <1>2, <1>3

\* An endpoint that is missing was answered a week ago or more, if at all.
LEMMA MissingIsOld ==
  ASSUME LibraryTypeOK, NEW e, IsMissing(e)
  PROVE  \A u \in library : u.endpoint = e => u.at + Ttl <= lClock
<1>1. CASE Checked(e) = Unset
  BY <1>1, CheckedIsNewest
<1>2. CASE Checked(e) # Unset
  <2>1. lClock - Checked(e) >= Ttl /\ Checked(e) \in 0..MaxLibraryClock
    BY <1>2, CheckedIsNewest DEF IsMissing, LibraryTypeOK, Answers
  <2> SUFFICES ASSUME NEW u \in library, u.endpoint = e PROVE u.at + Ttl <= lClock
    OBVIOUS
  <2>2. u.at <= Checked(e) /\ u.at \in 0..MaxLibraryClock /\ lClock \in 0..MaxLibraryClock
    BY <1>2, CheckedIsNewest DEF LibraryTypeOK, Answers
  <2> QED
    BY <2>1, <2>2, SiteLibraryAssumption
<1> QED
  BY <1>1, <1>2

Queues == {<<>>, <<Endpoints[1]>>, <<Endpoints[2]>>, Endpoints}

LEMMA TwoEndpoints ==
  /\ Endpoints = <<Endpoints[1], Endpoints[2]>> /\ Endpoints[1] # Endpoints[2]
  /\ Len(Endpoints) = 2 /\ Endpoints # <<>>
  BY DEF Endpoints

LEMMA PairOf ==
  ASSUME NEW x, NEW y
  PROVE  <<x>> \o <<y>> = <<x, y>>
<1> DEFINE s == <<x>> \o <<y>>
           t == <<x, y>>
<1>1. <<x>> \in Seq({x, y}) /\ <<y>> \in Seq({x, y}) /\ t \in Seq({x, y})
  OBVIOUS
<1>2. Len(<<x>>) = 1 /\ Len(<<y>>) = 1 /\ Len(t) = 2
  OBVIOUS
<1>3. s \in Seq({x, y}) /\ Len(s) = 2
  BY <1>1, <1>2, ConcatProperties
<1>4. s[1] = x /\ s[2] = y
  BY <1>1, <1>2, ConcatProperties
<1>5. t[1] = x /\ t[2] = y
  OBVIOUS
<1> HIDE DEF s, t
<1>6. Len(s) = Len(t) /\ \A i \in 1..Len(s) : s[i] = t[i]
  BY <1>2, <1>3, <1>4, <1>5
<1>7. s = t
  BY <1>1, <1>3, <1>6, SeqEqual
<1> QED
  BY <1>7 DEF s, t

LEMMA TailOfOne ==
  ASSUME NEW x
  PROVE  Tail(<<x>>) = <<>> /\ Head(<<x>>) = x /\ Len(<<x>>) = 1 /\ <<x>>[1] = x
<1>1. <<x>> \in Seq({x}) /\ Len(<<x>>) = 1
  OBVIOUS
<1>2. Tail(<<x>>) \in Seq({x}) /\ Len(Tail(<<x>>)) = 0
  BY <1>1
<1> QED
  BY <1>1, <1>2

\* The queue of a refresh: the endpoints that are missing, in their order.
LEMMA MissingQueue ==
  /\ MissingEndpoints \in Queues
  /\ \A i \in 1..Len(MissingEndpoints) : IsMissing(MissingEndpoints[i])
  /\ \A k \in 1..2 : IsMissing(Endpoints[k]) => \E i \in 1..Len(MissingEndpoints) : MissingEndpoints[i] = Endpoints[k]
<1> DEFINE a == Endpoints[1]
           b == Endpoints[2]
<1>0. Endpoints = <<a, b>>
  BY TwoEndpoints
<1>1. CASE IsMissing(a) /\ IsMissing(b)
  <2>1. MissingEndpoints = <<a, b>>
    BY <1>1, PairOf DEF MissingEndpoints, IfMissing
  <2> QED
    BY <1>0, <1>1, <2>1 DEF Queues
<1>2. CASE IsMissing(a) /\ ~IsMissing(b)
  <2>1. MissingEndpoints = <<a>>
    BY <1>2 DEF MissingEndpoints, IfMissing
  <2> QED
    BY <1>2, <2>1 DEF Queues
<1>3. CASE ~IsMissing(a) /\ IsMissing(b)
  <2>1. MissingEndpoints = <<b>>
    BY <1>3 DEF MissingEndpoints, IfMissing
  <2> QED
    BY <1>3, <2>1 DEF Queues
<1>4. CASE ~IsMissing(a) /\ ~IsMissing(b)
  <2>1. MissingEndpoints = <<>>
    BY <1>4 DEF MissingEndpoints, IfMissing
  <2> QED
    BY <1>4, <2>1 DEF Queues
<1> QED
  BY <1>1, <1>2, <1>3, <1>4

\* What is left of a queue is a queue, without the endpoint that was answered.
LEMMA QueueTail ==
  ASSUME NEW q \in Queues, q # <<>>
  PROVE  /\ Head(q) \in {Endpoints[1], Endpoints[2]} /\ Tail(q) \in Queues
         /\ Head(q) = q[1] /\ Len(q) \in Nat \ {0}
         /\ Len(q) # 1 => Tail(q) # <<>>
         /\ \A i \in 1..Len(Tail(q)) : i + 1 \in 1..Len(q) /\ Tail(q)[i] = q[i + 1] /\ Tail(q)[i] # Head(q)
         /\ \A i \in 1..Len(q) : i # 1 => i - 1 \in 1..Len(Tail(q)) /\ Tail(q)[i - 1] = q[i]
<1>1. CASE q = <<Endpoints[1]>> \/ q = <<Endpoints[2]>>
  <2>0. PICK e \in {Endpoints[1], Endpoints[2]} : q = <<e>>
    BY <1>1
  <2>1. Tail(q) = <<>> /\ Len(q) = 1 /\ Head(q) = e /\ q[1] = e
    BY <2>0, TailOfOne
  <2>2. Head(q) \in {Endpoints[1], Endpoints[2]} /\ Head(q) = q[1]
    BY <2>1
  <2> QED
    BY <2>1, <2>2 DEF Queues
<1>2. CASE q = Endpoints
  <2>1. q = <<Endpoints[1], Endpoints[2]>> /\ Endpoints[1] # Endpoints[2]
    BY <1>2, TwoEndpoints
  <2>2. Tail(q) = <<Endpoints[2]>> /\ Head(q) = Endpoints[1] /\ Len(q) = 2 /\ q[2] = Endpoints[2]
    BY <2>1
  <2> QED
    BY <2>1, <2>2 DEF Queues
<1> QED
  BY <1>1, <1>2 DEF Queues

LEMMA LibraryInitFits == LibraryInit => LibraryIInv
<1> SUFFICES ASSUME LibraryInit PROVE LibraryIInv
  OBVIOUS
<1>0. \A a \in Askers : flight[a] = NoFlight
  BY DEF LibraryInit
<1>1. NoFlight \in Flights
  BY SiteLibraryAssumption DEF NoFlight, Flights
<1>2. Cardinality(library) = 0 /\ IsFiniteSet(library) /\ library = {}
  BY FS_EmptySet DEF LibraryInit
<1>3. Size <= MaxLibrary
  BY <1>2, SiteLibraryAssumption DEF LibraryInit, Size
<1>4. LibraryTypeOK
  BY <1>1, <1>2, <1>3, SiteLibraryAssumption DEF LibraryInit, LibraryTypeOK
<1>5. OneFlight /\ FlightFits /\ QueueFits
  BY <1>0, SiteLibraryAssumption DEF LibraryInit, OneFlight, Flying, FlightFits, QueueFits, NoFlight
<1>6. AnswersArePast /\ LibraryIsHonest
  BY <1>2 DEF LibraryInit, AnswersArePast, LibraryIsHonest, AnswersAreSpaced, RetriesAreSpaced, CheckIsSaved
<1> QED
  BY <1>4, <1>5, <1>6 DEF LibraryIInv

-----------------------------------------------------------------------------
LEMMA NoFlightType == NoFlight \in Flights
  BY SiteLibraryAssumption DEF NoFlight, Flights

\* What a refresh that is over leaves.
LEMMA LandsFits ==
  ASSUME LibraryIInv, NEW who \in Askers, Lands(who), UNCHANGED <<lClock, library>>
  PROVE  /\ flight' \in [Askers -> Flights] /\ awaits' \in [Askers -> Askers \cup {Nobody}]
         /\ OneFlight' /\ FlightFits' /\ QueueFits' /\ AnswersArePast'
<1>1. flight \in [Askers -> Flights] /\ awaits \in [Askers -> Askers \cup {Nobody}] /\ lClock \in Nat
  BY SiteLibraryAssumption DEF LibraryIInv, LibraryTypeOK
<1>2. flight' = [flight EXCEPT ![who] = NoFlight]
  BY DEF Lands
<1>3. flight' \in [Askers -> Flights] /\ awaits' \in [Askers -> Askers \cup {Nobody}]
  BY <1>1, <1>2, NoFlightType DEF Lands
<1>4. flight'[who] = NoFlight /\ \A a \in Askers \ {who} : flight'[a] = flight[a]
  BY <1>1, <1>2
<1>5. OneFlight'
  BY <1>4 DEF LibraryIInv, OneFlight, Flying, NoFlight
<1>6. FlightFits' /\ QueueFits'
  BY <1>1, <1>4 DEF LibraryIInv, FlightFits, QueueFits, NoFlight
<1>7. AnswersArePast'
  BY DEF LibraryIInv, AnswersArePast
<1> QED
  BY <1>3, <1>5, <1>6, <1>7

LEMMA AbortsFits ==
  ASSUME LibraryIInv, NEW who \in Askers, Aborts(who)
  PROVE  LibraryIInv'
<1>1. Lands(who) /\ UNCHANGED <<lClock, library, files, weekly, failedAt, lFaults>>
  BY DEF Aborts
<1>2. /\ flight' \in [Askers -> Flights] /\ awaits' \in [Askers -> Askers \cup {Nobody}]
      /\ OneFlight' /\ FlightFits' /\ QueueFits' /\ AnswersArePast'
  BY <1>1, LandsFits
<1>3. LibraryTypeOK'
  BY <1>1, <1>2 DEF LibraryIInv, LibraryTypeOK, Size
<1>4. LibraryIsHonest'
  BY <1>1 DEF LibraryIInv, LibraryIsHonest, AnswersAreSpaced, RetriesAreSpaced, CheckIsSaved
<1> QED
  BY <1>2, <1>3, <1>4 DEF LibraryIInv

\* The time a refresh that succeeds stores is the older of the two newest answers.
LEMMA SettlesFits ==
  ASSUME LibraryIInv, NEW who \in Askers, Settles(who),
         \A k \in 1..2 : Checked(Endpoints[k]) # Unset
  PROVE  LibraryIInv'
<1>1. /\ Lands(who) /\ UNCHANGED <<lClock, library, files, lFaults>>
      /\ weekly' = [weekly EXCEPT !.checked = CompletedCheck, !.next = CompletedCheck + Ttl]
      /\ failedAt' = Unset
  BY DEF Settles
<1>2. /\ flight' \in [Askers -> Flights] /\ awaits' \in [Askers -> Askers \cup {Nobody}]
      /\ OneFlight' /\ FlightFits' /\ QueueFits' /\ AnswersArePast'
  BY <1>1, LandsFits
<1>3. LibraryTypeOK
  BY DEF LibraryIInv
<1>4. \A k \in 1..2 : Checked(Endpoints[k]) \in Nat
  BY <1>3, CheckedIsNewest DEF LibraryTypeOK, Answers
<1>5. /\ CompletedCheck \in Nat
      /\ \A k \in 1..2 : CompletedCheck <= Checked(Endpoints[k])
  BY <1>4 DEF CompletedCheck
<1>6. CompletedCheck + Ttl \in Nat
  BY <1>5, SiteLibraryAssumption
<1> DEFINE checked == CompletedCheck
           next  == CompletedCheck + Ttl
<1>7. weekly' = [weekly EXCEPT !.checked = checked, !.next = next] /\ checked \in Nat /\ next \in Nat
  BY <1>1, <1>5, <1>6
<1>8. \A k \in 1..2 : \E u \in library : u.endpoint = Endpoints[k] /\ u.at >= checked
  <2> SUFFICES ASSUME NEW k \in 1..2
               PROVE  \E u \in library : u.endpoint = Endpoints[k] /\ u.at >= checked
    OBVIOUS
  <2>1. PICK u \in library : u.endpoint = Endpoints[k] /\ u.at = Checked(Endpoints[k])
    BY <1>3, CheckedIsNewest
  <2>2. u.at >= checked
    BY <1>4, <1>5, <2>1
  <2> QED
    BY <2>1, <2>2
<1> HIDE DEF checked, next
<1>9. weekly' \in [on : BOOLEAN, next : Nat \cup {Unset}, checked : Nat \cup {Unset}] /\ weekly'.checked = checked
  BY <1>3, <1>7 DEF LibraryTypeOK
<1>10. LibraryTypeOK'
  BY <1>1, <1>2, <1>9 DEF LibraryIInv, LibraryTypeOK, Size
<1>11. LibraryIsHonest'
  BY <1>1, <1>8, <1>9 DEF LibraryIInv, LibraryIsHonest, AnswersAreSpaced, RetriesAreSpaced, CheckIsSaved
<1> QED
  BY <1>2, <1>10, <1>11 DEF LibraryIInv

LEMMA ReadFits ==
  ASSUME LibraryIInv, NEW who \in Askers, ReadLibrary(who)
  PROVE  LibraryIInv'
<1>0. LibraryTypeOK /\ lClock \in Nat
  BY SiteLibraryAssumption DEF LibraryIInv, LibraryTypeOK
<1>1. CASE MissingEndpoints = <<>>
  <2>1. \A k \in 1..2 : ~IsMissing(Endpoints[k])
    BY <1>1, MissingQueue
  <2>2. \A k \in 1..2 : Checked(Endpoints[k]) # Unset
    BY <2>1 DEF IsMissing
  <2> QED
    BY <1>1, <2>2, SettlesFits DEF ReadLibrary
<1>2. CASE MissingEndpoints # <<>> /\ Size + Len(MissingEndpoints) > MaxLibrary
  BY <1>2, AbortsFits DEF ReadLibrary
<1>3. CASE MissingEndpoints # <<>> /\ ~(Size + Len(MissingEndpoints) > MaxLibrary)
  <2> DEFINE new == [pc |-> "query", missing |-> MissingEndpoints, at |-> lClock, pages |-> 0]
  <2>1. /\ flight[who].pc = "read" /\ flight' = [flight EXCEPT ![who] = new]
        /\ UNCHANGED <<lClock, library, files, awaits, weekly, failedAt, lFaults>>
    BY <1>3 DEF ReadLibrary, Flies
  <2>2. flight'[who] = new /\ \A a \in Askers \ {who} : flight'[a] = flight[a]
    BY <1>0, <2>1 DEF LibraryTypeOK
  <2>3. new \in Flights
    BY <1>0, MissingQueue, SiteLibraryAssumption DEF Flights, Queues, LibraryTypeOK
  <2>4. LibraryTypeOK'
    BY <1>0, <2>1, <2>3 DEF LibraryTypeOK, Size
  <2>5. OneFlight'
    BY <2>1, <2>2 DEF LibraryIInv, OneFlight, Flying
  <2>6. \A i \in 1..Len(MissingEndpoints), u \in library : u.endpoint = MissingEndpoints[i] => u.at + Ttl <= lClock
    BY <1>0, MissingQueue, MissingIsOld
  <2>7. FlightFits'
    BY <1>0, <1>3, <2>1, <2>2, <2>6, SiteLibraryAssumption DEF LibraryIInv, FlightFits
  <2>8. \A k \in 1..2 : \/ \E u \in library : u.endpoint = Endpoints[k]
                        \/ \E i \in 1..Len(MissingEndpoints) : MissingEndpoints[i] = Endpoints[k]
    BY <1>0, MissingQueue, CheckedIsNewest DEF IsMissing
  <2>9. QueueFits'
    BY <2>1, <2>2, <2>8 DEF LibraryIInv, QueueFits
  <2>10. AnswersArePast' /\ LibraryIsHonest'
    BY <2>1 DEF LibraryIInv, AnswersArePast, LibraryIsHonest, AnswersAreSpaced, RetriesAreSpaced, CheckIsSaved
  <2> QED
    BY <2>4, <2>5, <2>7, <2>9, <2>10 DEF LibraryIInv
<1> QED
  BY <1>1, <1>2, <1>3

PageAnswers == {"error", "oversize", "more", "repeat", "last"}

LEMMA QueryFits ==
  ASSUME LibraryIInv, NEW who \in Askers, NEW answer \in PageAnswers, QueryPage(who, answer)
  PROVE  LibraryIInv'
<1>0. LibraryTypeOK /\ flight[who] \in Flights /\ flight[who].pc = "query" /\ flight[who].pages < MaxPages
  BY DEF LibraryIInv, LibraryTypeOK, FlightFits, QueryPage
<1>1. CASE answer = "error" \/ (answer = "oversize" /\ flight[who].pages = 0)
  BY <1>1, AbortsFits DEF QueryPage
<1>2. CASE ~(answer = "error" \/ (answer = "oversize" /\ flight[who].pages = 0))
  <2> DEFINE pages == IF answer = "oversize" THEN flight[who].pages ELSE flight[who].pages + 1
             stage == IF answer = "more" /\ flight[who].pages + 1 < MaxPages THEN "query" ELSE "save"
  <2>1. /\ flight' = [flight EXCEPT ![who] = [flight[who] EXCEPT !.pages = pages, !.pc = stage]]
        /\ UNCHANGED <<lClock, library, files, awaits, weekly, failedAt, lFaults>>
    BY <1>2 DEF QueryPage, Flies
  <2>2. pages \in 0..MaxPages /\ stage \in {"query", "save"} /\ (stage = "query" => pages < MaxPages)
    BY <1>0, SiteLibraryAssumption DEF Flights
  <2> HIDE DEF pages, stage
  <2>3. /\ flight'[who] = [flight[who] EXCEPT !.pages = pages, !.pc = stage]
        /\ \A a \in Askers \ {who} : flight'[a] = flight[a]
    BY <1>0, <2>1 DEF LibraryTypeOK
  <2>4. /\ flight'[who] \in Flights /\ flight'[who].missing = flight[who].missing /\ flight'[who].at = flight[who].at
        /\ flight'[who].pc = stage /\ flight'[who].pages = pages
    BY <1>0, <2>2, <2>3 DEF Flights
  <2>5. LibraryTypeOK'
    BY <1>0, <2>1, <2>3, <2>4 DEF LibraryTypeOK, Size
  <2>6. OneFlight'
    BY <1>0, <2>2, <2>3, <2>4 DEF LibraryIInv, OneFlight, Flying
  <2>7. FlightFits' /\ QueueFits'
    BY <1>0, <2>1, <2>2, <2>3, <2>4 DEF LibraryIInv, FlightFits, QueueFits
  <2>8. AnswersArePast' /\ LibraryIsHonest'
    BY <2>1 DEF LibraryIInv, AnswersArePast, LibraryIsHonest, AnswersAreSpaced, RetriesAreSpaced, CheckIsSaved
  <2> QED
    BY <2>5, <2>6, <2>7, <2>8 DEF LibraryIInv
<1> QED
  BY <1>1, <1>2

LEMMA NewFlight ==
  ASSUME NEW p \in {"query", "done"}, NEW m \in Queues, NEW t \in 0..MaxLibraryClock
  PROVE  [pc |-> p, missing |-> m, at |-> t, pages |-> 0] \in Flights
  BY SiteLibraryAssumption DEF Flights, Queues

\* saveWigleUpload: the endpoint leaves the queue with the answer that is saved.
LEMMA SaveFits ==
  ASSUME LibraryIInv, NEW who \in Askers, SaveUpload(who)
  PROVE  LibraryIInv'
<1>0. /\ LibraryTypeOK /\ flight[who] \in Flights /\ flight[who].pc = "save"
      /\ flight \in [Askers -> Flights] /\ lClock \in 0..MaxLibraryClock
  BY DEF LibraryIInv, LibraryTypeOK, SaveUpload
<1>1. CASE Size >= MaxLibrary
  BY <1>1, AbortsFits DEF SaveUpload
<1>2. CASE ~(Size >= MaxLibrary)
  <2> DEFINE q      == flight[who].missing
             answer == [endpoint |-> Head(q), at |-> flight[who].at]
             stage  == IF Len(q) = 1 THEN "done" ELSE "query"
             new    == [pc |-> stage, missing |-> Tail(q), at |-> lClock, pages |-> 0]
  <2>1. q \in Queues /\ q # <<>>
    BY <1>0 DEF LibraryIInv, FlightFits, Flights, Queues
  <2>2. /\ Head(q) \in {Endpoints[1], Endpoints[2]} /\ Tail(q) \in Queues
        /\ Head(q) = q[1] /\ Len(q) \in Nat \ {0}
        /\ Len(q) # 1 => Tail(q) # <<>>
        /\ \A i \in 1..Len(Tail(q)) : i + 1 \in 1..Len(q) /\ Tail(q)[i] = q[i + 1] /\ Tail(q)[i] # Head(q)
        /\ \A i \in 1..Len(q) : i # 1 => i - 1 \in 1..Len(Tail(q)) /\ Tail(q)[i - 1] = q[i]
    BY <2>1, QueueTail
  <2>3. Len(q) = 1 => Tail(q) = <<>>
    BY <2>1, TailOfOne, TwoEndpoints DEF Queues
  <2>5. /\ library' = library \cup {answer} /\ flight' = [flight EXCEPT ![who] = new]
        /\ UNCHANGED <<lClock, files, awaits, weekly, failedAt, lFaults>>
    BY <1>2 DEF SaveUpload, Flies
  <2>6. answer \in Answers /\ answer.endpoint = Head(q) /\ answer.at = flight[who].at
    BY <1>0, <2>2 DEF Answers, Flights
  <2>7. new \in Flights
    <3>1. stage \in {"query", "done"}
      OBVIOUS
    <3> QED
      BY <1>0, <2>2, <3>1, NewFlight
  <2>8. flight'[who] = new /\ \A a \in Askers \ {who} : flight'[a] = flight[a]
    BY <1>0, <2>5
  <2>9. new.pc = stage /\ new.missing = Tail(q) /\ new.at = lClock /\ new.pages = 0 /\ stage \in {"query", "done"}
    OBVIOUS
  <2>10. stage = "query" <=> Len(q) # 1
    OBVIOUS
  <2> HIDE DEF answer, new, stage
  <2>0. /\ flight'[who].pc \in {"query", "done"} /\ (flight'[who].pc = "query" <=> Len(q) # 1)
        /\ flight'[who].missing = Tail(q) /\ flight'[who].at = lClock /\ flight'[who].pages = 0
    BY <2>8, <2>9, <2>10
  <2>11. LibraryTypeOK'
    <3>1. IsFiniteSet(library \cup {answer}) /\ Cardinality(library \cup {answer}) <= Cardinality(library) + 1
      <4>1. IsFiniteSet(library)
        BY <1>0 DEF LibraryTypeOK
      <4>2. Cardinality(library) \in Nat
        BY <4>1, FS_CardinalityType
      <4>3. /\ IsFiniteSet(library \cup {answer})
            /\ \/ Cardinality(library \cup {answer}) = Cardinality(library)
               \/ Cardinality(library \cup {answer}) = Cardinality(library) + 1
        BY <4>1, FS_AddElement
      <4> QED
        BY <4>2, <4>3
    <3>2. Cardinality(library) \in Nat /\ Cardinality(library \cup {answer}) \in Nat
      BY <1>0, <3>1, FS_CardinalityType DEF LibraryTypeOK
    <3>3. Size' <= MaxLibrary
      BY <1>0, <1>2, <2>5, <3>1, <3>2, SiteLibraryAssumption DEF Size, LibraryTypeOK
    <3> QED
      BY <1>0, <2>5, <2>6, <2>7, <3>1, <3>3 DEF LibraryTypeOK
  <2>12. OneFlight'
    BY <1>0, <2>8 DEF LibraryIInv, OneFlight, Flying
  <2>13. \A a \in Askers \ {who} : flight[a].pc = "idle"
    BY <1>0 DEF LibraryIInv, OneFlight, Flying
  <2>14. /\ flight[who].at <= lClock /\ flight[who].at \in Nat /\ lClock \in Nat /\ Ttl \in Nat
         /\ \A i \in 1..Len(q), u \in library : u.endpoint = q[i] => u.at + Ttl <= flight[who].at
    BY <1>0, SiteLibraryAssumption DEF LibraryIInv, FlightFits, Flights
  <2>15. \A u \in library : u.at \in Nat
    BY <1>0 DEF LibraryTypeOK, Answers
  <2>16. FlightFits'
    <3> SUFFICES ASSUME NEW a \in Askers
                 PROVE  /\ flight'[a].at <= lClock'
                        /\ flight'[a].pc = "query" => flight'[a].pages < MaxPages
                        /\ flight'[a].pc \in {"query", "save"} =>
                             /\ flight'[a].missing # <<>>
                             /\ \A i \in 1..Len(flight'[a].missing), u \in library' :
                                  u.endpoint = flight'[a].missing[i] => u.at + Ttl <= flight'[a].at
      BY DEF FlightFits
    <3>1. CASE a # who
      BY <2>5, <2>8, <2>13, <3>1 DEF LibraryIInv, FlightFits
    <3>2. CASE a = who
      <4>1. \A i \in 1..Len(Tail(q)), u \in library' : u.endpoint = Tail(q)[i] => u.at + Ttl <= lClock
        <5> SUFFICES ASSUME NEW i \in 1..Len(Tail(q)), NEW u \in library', u.endpoint = Tail(q)[i]
                     PROVE  u.at + Ttl <= lClock
          OBVIOUS
        <5>1. u # answer
          BY <2>2, <2>6
        <5>2. u \in library /\ u.endpoint = q[i + 1] /\ i + 1 \in 1..Len(q)
          BY <2>2, <2>5, <5>1
        <5>3. u.at + Ttl <= flight[who].at
          BY <2>14, <5>2
        <5> QED
          BY <2>14, <2>15, <5>2, <5>3
      <4>2. /\ flight'[a].pc \in {"query", "done"} /\ (flight'[a].pc = "query" => Len(q) # 1)
            /\ flight'[a].missing = Tail(q) /\ flight'[a].at = lClock /\ flight'[a].pages = 0
        BY <2>0, <3>2
      <4>3. flight'[a].at <= lClock'
        BY <2>5, <2>14, <4>2
      <4>4. flight'[a].pages < MaxPages
        BY <4>2, SiteLibraryAssumption
      <4>5. flight'[a].pc \in {"query", "save"} => flight'[a].missing # <<>>
        BY <2>2, <4>2
      <4>6. \A i \in 1..Len(flight'[a].missing), u \in library' :
              u.endpoint = flight'[a].missing[i] => u.at + Ttl <= flight'[a].at
        BY <4>1, <4>2
      <4> QED
        BY <4>3, <4>4, <4>5, <4>6
    <3> QED
      BY <3>1, <3>2
  <2>17. QueueFits'
    <3> SUFFICES ASSUME NEW a \in Askers
                 PROVE  /\ flight'[a].pc = "done" => flight'[a].missing = <<>>
                        /\ flight'[a].pc \in {"query", "save", "done"} =>
                             \A k \in 1..2 :
                               \/ \E u \in library' : u.endpoint = Endpoints[k]
                               \/ \E i \in 1..Len(flight'[a].missing) : flight'[a].missing[i] = Endpoints[k]
      BY DEF QueueFits
    <3>1. CASE a # who
      BY <2>8, <2>13, <3>1
    <3>2. CASE a = who
      <4>1. \A k \in 1..2 : \/ \E u \in library' : u.endpoint = Endpoints[k]
                            \/ \E i \in 1..Len(Tail(q)) : Tail(q)[i] = Endpoints[k]
        <5> SUFFICES ASSUME NEW k \in 1..2
                     PROVE  \/ \E u \in library' : u.endpoint = Endpoints[k]
                            \/ \E i \in 1..Len(Tail(q)) : Tail(q)[i] = Endpoints[k]
          OBVIOUS
        <5>1. CASE \E u \in library : u.endpoint = Endpoints[k]
          BY <2>5, <5>1
        <5>2. CASE \E i \in 1..Len(q) : q[i] = Endpoints[k]
          <6>1. PICK i \in 1..Len(q) : q[i] = Endpoints[k]
            BY <5>2
          <6>2. CASE i = 1
            BY <2>2, <2>5, <2>6, <6>1, <6>2
          <6>3. CASE i # 1
            BY <2>2, <6>1, <6>3
          <6> QED
            BY <6>2, <6>3
        <5> QED
          BY <1>0, <5>1, <5>2 DEF LibraryIInv, QueueFits
      <4>2. flight'[a].missing = Tail(q) /\ (flight'[a].pc # "query" => Len(q) = 1)
        BY <2>0, <3>2
      <4>3. flight'[a].pc = "done" => flight'[a].missing = <<>>
        BY <2>3, <4>2
      <4>4. \A k \in 1..2 : \/ \E u \in library' : u.endpoint = Endpoints[k]
                            \/ \E i \in 1..Len(flight'[a].missing) : flight'[a].missing[i] = Endpoints[k]
        BY <4>1, <4>2
      <4> QED
        BY <4>3, <4>4
    <3> QED
      BY <3>1, <3>2
  <2>18. AnswersArePast'
    BY <2>5, <2>6, <2>14 DEF LibraryIInv, AnswersArePast
  <2>19. AnswersAreSpaced'
    <3> SUFFICES ASSUME NEW u \in library', NEW v \in library', u.endpoint = v.endpoint, u.at < v.at
                 PROVE  v.at - u.at >= Ttl
      BY DEF AnswersAreSpaced
    <3>1. CASE u \in library /\ v \in library
      BY <3>1 DEF LibraryIInv, LibraryIsHonest, AnswersAreSpaced
    <3>2. \A w \in library : w.endpoint = Head(q) => w.at + Ttl <= flight[who].at
      BY <2>2, <2>14
    <3>3. CASE v = answer /\ u \in library
      BY <2>6, <2>14, <2>15, <3>2, <3>3
    <3>4. CASE u = answer /\ v \in library
      BY <2>6, <2>14, <2>15, <3>2, <3>4
    <3>5. CASE u = answer /\ v = answer
      BY <2>6, <2>14, <3>5
    <3> QED
      BY <2>5, <3>1, <3>3, <3>4, <3>5
  <2>20. LibraryIsHonest'
    BY <2>5, <2>19 DEF LibraryIInv, LibraryIsHonest, RetriesAreSpaced, CheckIsSaved
  <2> QED
    BY <2>11, <2>12, <2>16, <2>17, <2>18, <2>20 DEF LibraryIInv
<1> QED
  BY <1>1, <1>2

LEMMA EndFits ==
  ASSUME LibraryIInv, NEW who \in Askers, RefreshEnds(who)
  PROVE  LibraryIInv'
<1>1. flight[who].pc = "done" /\ flight[who].missing = <<>>
  BY DEF RefreshEnds, LibraryIInv, QueueFits
<1>2. \A k \in 1..2 : \E u \in library : u.endpoint = Endpoints[k]
  BY <1>1 DEF LibraryIInv, QueueFits
<1>3. \A k \in 1..2 : Checked(Endpoints[k]) # Unset
  BY <1>2, CheckedIsNewest DEF LibraryIInv
<1> QED
  BY <1>3, SettlesFits DEF RefreshEnds

\* Whoever asks begins a refresh only when none is under way.
LEMMA JoinsFits ==
  ASSUME LibraryIInv, NEW who \in Askers, Joins(who), UNCHANGED <<lClock, library>>
  PROVE  /\ flight' \in [Askers -> Flights] /\ awaits' \in [Askers -> Askers \cup {Nobody}]
         /\ OneFlight' /\ FlightFits' /\ QueueFits' /\ AnswersArePast'
<1>0. flight \in [Askers -> Flights] /\ awaits \in [Askers -> Askers \cup {Nobody}] /\ lClock \in Nat
  BY SiteLibraryAssumption DEF LibraryIInv, LibraryTypeOK
<1>1. CASE Flying = {}
  <2> DEFINE new == [NoFlight EXCEPT !.pc = "read"]
  <2>1. flight' = [flight EXCEPT ![who] = new] /\ awaits' = [awaits EXCEPT ![who] = who]
    BY <1>1 DEF Joins, Begins
  <2>2. new \in Flights /\ new.pc = "read" /\ new.at = 0
    BY NoFlightType DEF NoFlight, Flights
  <2>3. flight'[who] = new /\ \A a \in Askers \ {who} : flight'[a] = flight[a]
    BY <1>0, <2>1
  <2> HIDE DEF new
  <2>4. flight' \in [Askers -> Flights] /\ awaits' \in [Askers -> Askers \cup {Nobody}]
    BY <1>0, <2>1, <2>2
  <2>5. OneFlight'
    BY <1>1, <2>3 DEF OneFlight, Flying
  <2>6. FlightFits' /\ QueueFits' /\ AnswersArePast'
    BY <1>0, <2>2, <2>3 DEF LibraryIInv, FlightFits, QueueFits, AnswersArePast
  <2> QED
    BY <2>4, <2>5, <2>6
<1>2. CASE Flying # {}
  <2>1. UNCHANGED flight /\ \E other \in Askers : awaits' = [awaits EXCEPT ![who] = other]
    BY <1>2 DEF Joins, Flying
  <2>2. OneFlight' /\ FlightFits' /\ QueueFits' /\ AnswersArePast'
    BY <2>1 DEF LibraryIInv, OneFlight, Flying, FlightFits, QueueFits, AnswersArePast
  <2> QED
    BY <1>0, <2>1, <2>2
<1> QED
  BY <1>1, <1>2

LEMMA OperatorAsksFits ==
  ASSUME LibraryIInv, OperatorRefreshes
  PROVE  LibraryIInv'
<1>1. Joins("operator") /\ UNCHANGED <<lClock, library, files, weekly, failedAt, lFaults>>
  BY DEF OperatorRefreshes
<1>2. /\ flight' \in [Askers -> Flights] /\ awaits' \in [Askers -> Askers \cup {Nobody}]
      /\ OneFlight' /\ FlightFits' /\ QueueFits' /\ AnswersArePast'
  BY <1>1, JoinsFits DEF Askers
<1>3. LibraryTypeOK' /\ LibraryIsHonest'
  BY <1>1, <1>2 DEF LibraryIInv, LibraryTypeOK, Size, LibraryIsHonest, AnswersAreSpaced, RetriesAreSpaced, CheckIsSaved
<1> QED
  BY <1>2, <1>3 DEF LibraryIInv

LEMMA PlannerAsksFits ==
  ASSUME LibraryIInv, PlannerRefreshes
  PROVE  LibraryIInv'
<1> DEFINE retry == lClock + RetryAfter
<1>1. /\ Joins("planner") /\ UNCHANGED <<lClock, library, files, lFaults>>
      /\ weekly' = [weekly EXCEPT !.next = retry] /\ failedAt' = lClock
  BY DEF PlannerRefreshes
<1>2. /\ flight' \in [Askers -> Flights] /\ awaits' \in [Askers -> Askers \cup {Nobody}]
      /\ OneFlight' /\ FlightFits' /\ QueueFits' /\ AnswersArePast'
  BY <1>1, JoinsFits DEF Askers
<1>3. retry \in Nat /\ retry >= lClock + RetryAfter
  BY SiteLibraryAssumption DEF LibraryIInv, LibraryTypeOK
<1> HIDE DEF retry
<1>4. /\ weekly' \in [on : BOOLEAN, next : Nat \cup {Unset}, checked : Nat \cup {Unset}]
      /\ weekly'.next = retry /\ weekly'.checked = weekly.checked
  BY <1>1, <1>3 DEF LibraryIInv, LibraryTypeOK
<1>5. LibraryTypeOK'
  BY <1>1, <1>2, <1>4 DEF LibraryIInv, LibraryTypeOK, Size
<1>6. RetriesAreSpaced'
  BY <1>1, <1>3, <1>4 DEF RetriesAreSpaced
<1>7. LibraryIsHonest'
  BY <1>1, <1>4, <1>6 DEF LibraryIInv, LibraryIsHonest, AnswersAreSpaced, CheckIsSaved
<1> QED
  BY <1>2, <1>5, <1>7 DEF LibraryIInv

\* A refresh that was never due is due at once; one that failed keeps its window.
LEMMA ToggleFits ==
  ASSUME LibraryIInv, ToggleWeekly
  PROVE  LibraryIInv'
<1>1. UNCHANGED <<lClock, library, files, flight, awaits, failedAt, lFaults>>
  BY DEF ToggleWeekly
<1>2. weekly \in [on : BOOLEAN, next : Nat \cup {Unset}, checked : Nat \cup {Unset}] /\ lClock \in Nat
  BY SiteLibraryAssumption DEF LibraryIInv, LibraryTypeOK
<1>3. PICK on \in BOOLEAN, next \in {weekly.next, lClock} :
        /\ weekly' = [weekly EXCEPT !.on = on, !.next = next]
        /\ next # weekly.next => weekly.next = Unset
  <2> DEFINE on   == ~weekly.on
             next == IF ~weekly.on /\ weekly.next = Unset THEN lClock ELSE weekly.next
  <2>1. weekly' = [weekly EXCEPT !.on = on, !.next = next]
    BY DEF ToggleWeekly
  <2>2. on \in BOOLEAN /\ next \in {weekly.next, lClock} /\ (next # weekly.next => weekly.next = Unset)
    OBVIOUS
  <2> HIDE DEF on, next
  <2> QED
    BY <2>1, <2>2
<1>4. /\ weekly' \in [on : BOOLEAN, next : Nat \cup {Unset}, checked : Nat \cup {Unset}]
      /\ weekly'.next = next /\ weekly'.checked = weekly.checked
  BY <1>2, <1>3
<1>5. LibraryTypeOK'
  BY <1>1, <1>4 DEF LibraryIInv, LibraryTypeOK, Size
<1>6. OneFlight' /\ FlightFits' /\ QueueFits' /\ AnswersArePast'
  BY <1>1 DEF LibraryIInv, OneFlight, Flying, FlightFits, QueueFits, AnswersArePast
<1>7. RetriesAreSpaced'
  <2> SUFFICES ASSUME failedAt # Unset PROVE next >= failedAt + RetryAfter
    BY <1>1, <1>4 DEF RetriesAreSpaced
  <2>1. weekly.next >= failedAt + RetryAfter /\ failedAt \in Nat
    BY SiteLibraryAssumption DEF LibraryIInv, LibraryTypeOK, LibraryIsHonest, RetriesAreSpaced
  <2>2. weekly.next # Unset
    BY <2>1, SiteLibraryAssumption DEF Unset
  <2> QED
    BY <1>3, <2>1, <2>2
<1>8. LibraryIsHonest'
  BY <1>1, <1>4, <1>7 DEF LibraryIInv, LibraryIsHonest, AnswersAreSpaced, CheckIsSaved
<1> QED
  BY <1>5, <1>6, <1>8 DEF LibraryIInv

LEMMA UserSavesFits ==
  ASSUME LibraryIInv, UserSaves
  PROVE  LibraryIInv'
<1>1. Size < MaxLibrary /\ files' = files + 1 /\ UNCHANGED <<lClock, library, flight, awaits, weekly, failedAt, lFaults>>
  BY DEF UserSaves
<1>2. Cardinality(library) \in Nat
  BY FS_CardinalityType DEF LibraryIInv, LibraryTypeOK
<1>3. Size' <= MaxLibrary /\ files' \in Nat
  BY <1>1, <1>2, SiteLibraryAssumption DEF LibraryIInv, LibraryTypeOK, Size
<1>4. LibraryTypeOK'
  BY <1>1, <1>3 DEF LibraryIInv, LibraryTypeOK
<1>5. OneFlight' /\ FlightFits' /\ QueueFits' /\ AnswersArePast'
  BY <1>1 DEF LibraryIInv, OneFlight, Flying, FlightFits, QueueFits, AnswersArePast
<1>6. LibraryIsHonest'
  BY <1>1 DEF LibraryIInv, LibraryIsHonest, AnswersAreSpaced, RetriesAreSpaced, CheckIsSaved
<1> QED
  BY <1>4, <1>5, <1>6 DEF LibraryIInv

LEMMA LibraryTickFits ==
  ASSUME LibraryIInv, LibraryTick
  PROVE  LibraryIInv'
<1>1. lClock' = lClock + 1 /\ lClock < MaxLibraryClock /\ UNCHANGED <<library, files, flight, awaits, weekly, failedAt, lFaults>>
  BY DEF LibraryTick
<1>2. lClock' \in 0..MaxLibraryClock /\ lClock \in Nat /\ lClock <= lClock'
  BY <1>1, SiteLibraryAssumption DEF LibraryIInv, LibraryTypeOK
<1>3. LibraryTypeOK'
  BY <1>1, <1>2 DEF LibraryIInv, LibraryTypeOK, Size
<1>4. \A a \in Askers : flight[a].at \in Nat
  BY DEF LibraryIInv, LibraryTypeOK, Flights
<1>5. \A u \in library : u.at \in Nat
  BY DEF LibraryIInv, LibraryTypeOK, Answers
<1>6. FlightFits' /\ AnswersArePast'
  BY <1>1, <1>2, <1>4, <1>5 DEF LibraryIInv, FlightFits, AnswersArePast
<1>7. OneFlight' /\ QueueFits'
  BY <1>1 DEF LibraryIInv, OneFlight, Flying, QueueFits
<1>8. LibraryIsHonest'
  BY <1>1 DEF LibraryIInv, LibraryIsHonest, AnswersAreSpaced, RetriesAreSpaced, CheckIsSaved
<1> QED
  BY <1>3, <1>6, <1>7, <1>8 DEF LibraryIInv

LEMMA LibraryRestartFits ==
  ASSUME LibraryIInv, LibraryRestarts
  PROVE  LibraryIInv'
<1>1. /\ flight' = [a \in Askers |-> NoFlight] /\ awaits' = [a \in Askers |-> Nobody]
      /\ lFaults' \in 0..MaxLibraryFaults /\ UNCHANGED <<lClock, library, files, weekly, failedAt>>
  BY SiteLibraryAssumption DEF LibraryRestarts, LibraryIInv, LibraryTypeOK
<1>2. LibraryTypeOK'
  BY <1>1, NoFlightType DEF LibraryIInv, LibraryTypeOK, Size
<1>3. OneFlight' /\ FlightFits' /\ QueueFits' /\ AnswersArePast'
  BY <1>1, SiteLibraryAssumption DEF LibraryIInv, LibraryTypeOK, OneFlight, Flying, FlightFits, QueueFits, AnswersArePast, NoFlight
<1>4. LibraryIsHonest'
  BY <1>1 DEF LibraryIInv, LibraryIsHonest, AnswersAreSpaced, RetriesAreSpaced, CheckIsSaved
<1> QED
  BY <1>2, <1>3, <1>4 DEF LibraryIInv

LEMMA LibraryStepFits ==
  ASSUME LibraryIInv, [LibraryNext]_libraryVars
  PROVE  LibraryIInv'
<1>1. CASE LibraryNext
  <2>1. CASE \E who \in Askers : ReadLibrary(who) \/ SaveUpload(who) \/ RefreshEnds(who)
    BY <2>1, ReadFits, SaveFits, EndFits
  <2>2. CASE \E who \in Askers, answer \in PageAnswers : QueryPage(who, answer)
    BY <2>2, QueryFits
  <2>3. CASE OperatorRefreshes \/ PlannerRefreshes \/ ToggleWeekly \/ UserSaves \/ LibraryTick \/ LibraryRestarts
    BY <2>3, OperatorAsksFits, PlannerAsksFits, ToggleFits, UserSavesFits, LibraryTickFits, LibraryRestartFits
  <2> QED
    BY <1>1, <2>1, <2>2, <2>3 DEF LibraryNext, PageAnswers
<1>2. CASE UNCHANGED libraryVars
  BY <1>2 DEF libraryVars, LibraryIInv, LibraryTypeOK, Size, OneFlight, Flying, FlightFits, QueueFits, AnswersArePast,
     LibraryIsHonest, AnswersAreSpaced, RetriesAreSpaced, CheckIsSaved
<1> QED
  BY <1>1, <1>2

\* The paid search is asked once a week per endpoint, a refresh that failed is
\* not tried before its window ends, and a site's check rests on saved answers,
\* for every week, window, page limit and number of restarts (sites/profile.ts).
THEOREM LibraryHonest == LibrarySpec => [](LibraryTypeOK /\ LibraryIsHonest)
<1>1. LibraryInit => LibraryIInv
  BY LibraryInitFits
<1>2. LibraryIInv /\ [LibraryNext]_libraryVars => LibraryIInv'
  BY LibraryStepFits
<1>3. LibraryIInv => LibraryTypeOK /\ LibraryIsHonest
  BY DEF LibraryIInv
<1> QED
  BY <1>1, <1>2, <1>3, PTL DEF LibrarySpec

(***************************************************************************)
(* The environment of a phone.                                             *)
(***************************************************************************)

Applying   == {"eligible", "trigger", "update", "accepted", "readback", "verdict"}
Rechecking == {"recheck", "recheck verdict"}

\* A preview is sent only under its marker, once, and accepted only when sent.
UpdatesFit ==
  /\ \A r \in Previews : updates[r] <= 1
  /\ \A r \in Previews : r > env.rev => updates[r] = 0
  /\ ~env.sent => updates[env.rev] = 0
  /\ accepted.rev > 0 => updates[accepted.rev] = 1
  /\ env.status = "PREPARED" => ~env.sent

\* The operation in the window is about the present revision, which nobody has
\* accepted until it stores the acceptance itself.
OperationFits ==
  /\ envOp.pc = "preview" => envOp.rev < MaxRevision
  /\ envOp.pc \in Applying => envOp.rev = env.rev /\ env.rev > 0
  /\ envOp.pc \in {"eligible", "trigger", "update", "accepted"} => accepted.rev # env.rev
  /\ envOp.pc \in {"trigger", "update", "accepted"} => env.status = "APPLYING"
  /\ envOp.pc = "update" => env.sent /\ updates[env.rev] = 0
  /\ envOp.pc = "accepted" => env.sent /\ updates[env.rev] = 1
  /\ envOp.pc \in {"readback", "verdict"} => accepted.rev = env.rev
  /\ envOp.pc \in Rechecking => envOp.rev = accepted.rev /\ envOp.rev > 0
  /\ envOp.pc \in {"verdict", "recheck verdict"} =>
       (envOp.read = "VERIFIED" => envOp.rev \in matched) /\ envOp.read # "PENDING"

\* The rows say no more of a revision than was seen.
RowsFit ==
  /\ env.status = "ACCEPTED" => accepted.rev = env.rev /\ env.rev > 0
  /\ accepted.status = "VERIFIED" => accepted.rev \in matched
  /\ accepted.rev = env.rev /\ accepted.status = "MISMATCH" => env.status = "FAILED"
  /\ verified \in matched \cup {0}

EnvIInv == EnvTypeOK /\ UpdatesFit /\ OperationFits /\ RowsFit

-----------------------------------------------------------------------------
LEMMA IdleEnvOp == NoEnvOp \in EnvOps /\ NoEnvOp.pc = "idle" /\ NoEnvOp.anchor \in Anchors
<1>1. (CHOOSE a \in Anchors : TRUE) \in Anchors
  BY EnvAssumption
<1>2. 0 \in Previews
  BY EnvAssumption DEF Previews
<1> QED
  BY <1>1, <1>2 DEF NoEnvOp, EnvOps

LEMMA EnvInitFits == EnvInit => EnvIInv
<1> SUFFICES ASSUME EnvInit PROVE EnvIInv
  OBVIOUS
<1>1. 0 \in Previews /\ MaxMoves \in Nat /\ MaxEnvFaults \in Nat
  BY EnvAssumption DEF Previews
<1>2. /\ anchor \in Anchors /\ verified = 0 /\ phoneWifi = 0 /\ matched = {} /\ moves = 0 /\ envFaults = 0
      /\ env = [rev |-> 0, status |-> "NONE", anchor |-> anchor, sent |-> FALSE]
      /\ accepted = [rev |-> 0, anchor |-> anchor, status |-> "NONE"]
      /\ envOp = NoEnvOp
      /\ updates = [r \in Previews |-> 0]
  BY DEF EnvInit, Previews
<1>3. env \in EnvRows /\ accepted \in Acceptances
  BY <1>1, <1>2 DEF EnvRows, Acceptances
<1>4. EnvTypeOK
  BY <1>1, <1>2, <1>3, IdleEnvOp DEF EnvTypeOK
<1>5. UpdatesFit
  BY <1>1, <1>2 DEF UpdatesFit
<1>6. OperationFits /\ RowsFit
  BY <1>2, IdleEnvOp DEF OperationFits, RowsFit, Applying, Rechecking
<1> QED
  BY <1>4, <1>5, <1>6 DEF EnvIInv

\* What an operation leaves of itself when it moves on.
LEMMA EnvGoesTo ==
  ASSUME EnvTypeOK, NEW stage \in {"trigger", "update", "accepted", "readback", "catch"}, EnvGoes(stage)
  PROVE  envOp' \in EnvOps /\ envOp'.pc = stage /\ envOp'.rev = envOp.rev /\ envOp'.anchor = envOp.anchor /\ envOp'.read = envOp.read
  BY DEF EnvTypeOK, EnvGoes, EnvOps

\* A step that leaves the rows alone and ends the operation.
LEMMA EnvLeavesFits ==
  ASSUME EnvIInv, EnvLeaves, RowsKept, EnvHistory
  PROVE  EnvIInv'
<1>1. envOp' = NoEnvOp /\ UNCHANGED <<anchor, env, accepted, verified, phoneWifi, updates, matched, moves, envFaults>>
  BY DEF EnvLeaves, RowsKept, EnvHistory
<1>2. EnvTypeOK'
  BY <1>1, IdleEnvOp DEF EnvIInv, EnvTypeOK
<1>3. UpdatesFit' /\ RowsFit'
  BY <1>1 DEF EnvIInv, UpdatesFit, RowsFit
<1>4. OperationFits'
  BY <1>1, IdleEnvOp DEF OperationFits, Applying, Rechecking
<1> QED
  BY <1>2, <1>3, <1>4 DEF EnvIInv

\* A step that begins an operation on the rows as they are.
LEMMA EnvBeginsFits ==
  ASSUME EnvIInv, PreviewBegins \/ ApplyEnvironment \/ RecheckBegins
  PROVE  EnvIInv'
<1>0. EnvTypeOK /\ env \in EnvRows /\ accepted \in Acceptances /\ anchor \in Anchors
  BY DEF EnvIInv, EnvTypeOK
<1>1. UNCHANGED <<anchor, env, accepted, verified, phoneWifi, updates, matched, moves, envFaults>>
  BY DEF PreviewBegins, ApplyEnvironment, RecheckBegins, RowsKept, EnvHistory
<1>2. UpdatesFit' /\ RowsFit'
  BY <1>1 DEF EnvIInv, UpdatesFit, RowsFit
<1>3. \E stage \in {"preview", "eligible", "recheck"}, a \in Anchors, r \in Previews :
        /\ envOp' = [NoEnvOp EXCEPT !.pc = stage, !.anchor = a, !.rev = r]
        /\ stage = "preview" => r < MaxRevision
        /\ stage = "eligible" => r = env.rev /\ r > 0 /\ accepted.rev # env.rev
        /\ stage = "recheck" => r = accepted.rev /\ r > 0
  <2>1. CASE PreviewBegins
    <3>1. envOp' = [NoEnvOp EXCEPT !.pc = "preview", !.anchor = anchor, !.rev = env.rev] /\ env.rev < MaxRevision
      BY <2>1 DEF PreviewBegins
    <3> QED
      BY <1>0, <3>1 DEF EnvRows
  <2>2. CASE ApplyEnvironment
    <3>1. /\ envOp' = [NoEnvOp EXCEPT !.pc = "eligible", !.anchor = env.anchor, !.rev = env.rev]
          /\ env.rev > 0 /\ accepted.rev # env.rev
      BY <2>2, IdleEnvOp DEF ApplyEnvironment, EnvOps
    <3> QED
      BY <1>0, <3>1 DEF EnvRows
  <2>3. CASE RecheckBegins
    <3>1. /\ envOp' = [NoEnvOp EXCEPT !.pc = "recheck", !.anchor = accepted.anchor, !.rev = accepted.rev]
          /\ accepted.rev > 0
      BY <2>3, IdleEnvOp DEF RecheckBegins, EnvOps
    <3> QED
      BY <1>0, <3>1 DEF Acceptances
  <2> QED
    BY <2>1, <2>2, <2>3
<1>4. PICK stage \in {"preview", "eligible", "recheck"}, a \in Anchors, r \in Previews :
        /\ envOp' = [NoEnvOp EXCEPT !.pc = stage, !.anchor = a, !.rev = r]
        /\ stage = "preview" => r < MaxRevision
        /\ stage = "eligible" => r = env.rev /\ r > 0 /\ accepted.rev # env.rev
        /\ stage = "recheck" => r = accepted.rev /\ r > 0
  BY <1>3
<1>5. envOp' \in EnvOps /\ envOp'.pc = stage /\ envOp'.rev = r
  BY <1>4, IdleEnvOp DEF EnvOps
<1>6. EnvTypeOK'
  BY <1>1, <1>5 DEF EnvIInv, EnvTypeOK
<1>7. OperationFits'
  BY <1>1, <1>4, <1>5 DEF OperationFits, Applying, Rechecking
<1> QED
  BY <1>2, <1>6, <1>7 DEF EnvIInv

LEMMA PreviewEndsFits ==
  ASSUME EnvIInv, PreviewEnds
  PROVE  EnvIInv'
<1> DEFINE n == env.rev + 1
<1>0. EnvTypeOK /\ env \in EnvRows /\ accepted \in Acceptances /\ anchor \in Anchors /\ updates \in [Previews -> Nat]
  BY DEF EnvIInv, EnvTypeOK
<1>1. EnvLeaves /\ UNCHANGED <<anchor, accepted, verified>> /\ EnvHistory
  BY DEF PreviewEnds
<1>2. CASE UNCHANGED env
  BY <1>1, <1>2, EnvLeavesFits DEF RowsKept
<1>3. CASE /\ env.rev = envOp.rev
           /\ env' = [rev |-> n, status |-> "PREPARED", anchor |-> anchor, sent |-> FALSE]
  <2>1. env.rev < MaxRevision /\ env.rev \in Nat
    BY <1>0, <1>3, EnvAssumption DEF PreviewEnds, EnvAt, EnvIInv, OperationFits, EnvRows, Previews
  <2>2. n \in Previews /\ n > env.rev /\ n \in Nat
    BY <2>1, EnvAssumption DEF Previews
  <2>3. accepted.rev <= env.rev /\ accepted.rev \in Nat
    BY <1>0, EnvAssumption DEF EnvTypeOK, Acceptances, Previews
  <2>4. accepted.rev < n /\ accepted.rev # n
    BY <2>1, <2>3
  <2>5. \A r \in Previews : r > n => r > env.rev
    BY <2>1, EnvAssumption DEF Previews
  <2>6. updates[n] = 0
    BY <2>2 DEF EnvIInv, UpdatesFit
  <2> HIDE DEF n
  <2>7. env' \in EnvRows /\ env'.rev = n /\ env'.status = "PREPARED" /\ ~env'.sent
    BY <1>0, <1>3, <2>2 DEF EnvRows
  <2>8. EnvTypeOK'
    BY <1>0, <1>1, <2>2, <2>3, <2>4, <2>7, IdleEnvOp DEF EnvTypeOK, EnvLeaves, EnvHistory
  <2>9. UpdatesFit'
    BY <1>1, <2>5, <2>6, <2>7 DEF EnvIInv, UpdatesFit, EnvHistory
  <2>10. OperationFits'
    BY <1>1, IdleEnvOp DEF OperationFits, EnvLeaves, Applying, Rechecking
  <2>11. RowsFit'
    BY <1>1, <2>4, <2>7 DEF EnvIInv, RowsFit, EnvHistory
  <2> QED
    BY <2>8, <2>9, <2>10, <2>11 DEF EnvIInv
<1> QED
  BY <1>2, <1>3 DEF PreviewEnds

\* The claim and the marker: the row's status and `sent`, and where the operation is.
LEMMA EnvMarksFits ==
  ASSUME EnvIInv, ClaimEnvironment \/ MarkDispatched
  PROVE  EnvIInv'
<1>0. EnvTypeOK /\ env \in EnvRows /\ envOp \in EnvOps
  BY DEF EnvIInv, EnvTypeOK
<1>1. UNCHANGED <<anchor, accepted, verified, phoneWifi, updates, matched, moves, envFaults>>
  BY DEF ClaimEnvironment, MarkDispatched, EnvHistory
<1>2. CASE EnvLeaves /\ UNCHANGED env
  BY <1>1, <1>2, EnvLeavesFits DEF RowsKept, EnvHistory
<1>3. CASE EnvGoes("catch") /\ UNCHANGED env
  <2>1. EnvTypeOK' /\ envOp'.pc = "catch"
    BY <1>0, <1>1, <1>3, EnvGoesTo DEF EnvTypeOK
  <2>2. UpdatesFit' /\ RowsFit' /\ OperationFits'
    BY <1>1, <1>3, <2>1 DEF EnvIInv, UpdatesFit, RowsFit, OperationFits, Applying, Rechecking
  <2> QED
    BY <2>1, <2>2 DEF EnvIInv
<1>4. CASE EnvAt("eligible") /\ env' = [env EXCEPT !.status = "APPLYING"] /\ EnvGoes("trigger")
  <2>1. env' \in EnvRows /\ env'.rev = env.rev /\ env'.sent = env.sent /\ env'.status = "APPLYING"
    BY <1>0, <1>4 DEF EnvRows
  <2>2. envOp' \in EnvOps /\ envOp'.pc = "trigger" /\ envOp'.rev = envOp.rev
    BY <1>0, <1>4, EnvGoesTo
  <2>3. EnvTypeOK'
    BY <1>0, <1>1, <2>1, <2>2 DEF EnvTypeOK
  <2>4. accepted.rev # env.rev /\ envOp.rev = env.rev /\ env.rev > 0
    BY <1>4 DEF EnvIInv, OperationFits, EnvAt, Applying
  <2>5. UpdatesFit' /\ RowsFit'
    BY <1>1, <2>1, <2>4 DEF EnvIInv, UpdatesFit, RowsFit
  <2>6. OperationFits'
    BY <1>1, <2>1, <2>2, <2>4 DEF OperationFits, Applying, Rechecking
  <2> QED
    BY <2>3, <2>5, <2>6 DEF EnvIInv
<1>5. CASE EnvAt("trigger") /\ ~env.sent /\ env.status = "APPLYING" /\ env' = [env EXCEPT !.sent = TRUE] /\ EnvGoes("update")
  <2>1. env' \in EnvRows /\ env'.rev = env.rev /\ env'.sent /\ env'.status = "APPLYING"
    BY <1>0, <1>5 DEF EnvRows
  <2>2. envOp' \in EnvOps /\ envOp'.pc = "update" /\ envOp'.rev = envOp.rev
    BY <1>0, <1>5, EnvGoesTo
  <2>3. EnvTypeOK'
    BY <1>0, <1>1, <2>1, <2>2 DEF EnvTypeOK
  <2>4. accepted.rev # env.rev /\ envOp.rev = env.rev /\ env.rev > 0 /\ updates[env.rev] = 0
    BY <1>5 DEF EnvIInv, OperationFits, UpdatesFit, EnvAt, Applying
  <2>5. UpdatesFit' /\ RowsFit'
    BY <1>1, <2>1, <2>4 DEF EnvIInv, UpdatesFit, RowsFit
  <2>6. OperationFits'
    BY <1>1, <2>1, <2>2, <2>4 DEF OperationFits, Applying, Rechecking
  <2> QED
    BY <2>3, <2>5, <2>6 DEF EnvIInv
<1> QED
  BY <1>2, <1>3, <1>4, <1>5 DEF ClaimEnvironment, MarkDispatched

\* One update of a revision that had none, whatever comes of it.
LEMMA UpdateFits ==
  ASSUME EnvIInv, UpdateWifi
  PROVE  EnvIInv'
<1> DEFINE r == envOp.rev
<1>0. EnvTypeOK /\ env \in EnvRows /\ envOp \in EnvOps /\ updates \in [Previews -> Nat]
  BY DEF EnvIInv, EnvTypeOK
<1>1. /\ envOp.pc = "update" /\ UNCHANGED <<anchor, env, accepted, verified, matched, moves, envFaults>>
      /\ phoneWifi' \in {r, phoneWifi}
      /\ updates' = [updates EXCEPT ![r] = @ + 1]
  BY DEF UpdateWifi, EnvAt, RowsKept
<1>2. /\ r = env.rev /\ env.rev > 0 /\ accepted.rev # env.rev /\ env.status = "APPLYING" /\ env.sent
      /\ updates[r] = 0 /\ r \in Previews
  BY <1>0, <1>1 DEF EnvIInv, OperationFits, Applying, EnvRows
<1>3. PICK stage \in {"accepted", "trigger", "catch"} : EnvGoes(stage)
  BY DEF UpdateWifi
<1>4. envOp' \in EnvOps /\ envOp'.pc = stage /\ envOp'.rev = r
  BY <1>0, <1>3, EnvGoesTo
<1> HIDE DEF r
<1>5. updates' \in [Previews -> Nat] /\ updates'[r] = 1 /\ \A q \in Previews \ {r} : updates'[q] = updates[q]
  BY <1>0, <1>1, <1>2
<1>6. EnvTypeOK'
  BY <1>0, <1>1, <1>2, <1>4, <1>5 DEF EnvTypeOK
<1>7. accepted.rev \in Previews
  BY <1>0 DEF EnvTypeOK, Acceptances
<1>8. \A q \in Previews : q > r => q # r
  BY <1>2, EnvAssumption DEF Previews
<1>9. UpdatesFit'
  BY <1>1, <1>2, <1>5, <1>7, <1>8 DEF EnvIInv, UpdatesFit
<1>10. OperationFits'
  BY <1>1, <1>2, <1>4, <1>5 DEF OperationFits, Applying, Rechecking
<1>11. RowsFit'
  BY <1>1 DEF EnvIInv, RowsFit
<1> QED
  BY <1>6, <1>9, <1>10, <1>11 DEF EnvIInv

LEMMA AcceptanceFits ==
  ASSUME EnvIInv, StoreAcceptance
  PROVE  EnvIInv'
<1>0. EnvTypeOK /\ env \in EnvRows /\ envOp \in EnvOps
  BY DEF EnvIInv, EnvTypeOK
<1>1. envOp.pc = "accepted" /\ UNCHANGED <<anchor, verified, phoneWifi, updates, matched, moves>>
  BY DEF StoreAcceptance, EnvAt
<1>2. /\ envOp.rev = env.rev /\ env.rev > 0 /\ updates[env.rev] = 1 /\ env.sent
      /\ env.rev \in Previews /\ envOp.anchor \in Anchors
  BY <1>0, <1>1 DEF EnvIInv, OperationFits, Applying, EnvRows, EnvOps
<1>3. CASE /\ envFaults < MaxEnvFaults /\ envFaults' = envFaults + 1
           /\ EnvGoes("catch") /\ UNCHANGED <<env, accepted>>
  <2>1. envOp' \in EnvOps /\ envOp'.pc = "catch"
    BY <1>0, <1>3, EnvGoesTo
  <2>2. EnvTypeOK'
    BY <1>0, <1>1, <1>3, <2>1, EnvAssumption DEF EnvTypeOK
  <2>3. UpdatesFit' /\ RowsFit' /\ OperationFits'
    BY <1>1, <1>3, <2>1 DEF EnvIInv, UpdatesFit, RowsFit, OperationFits, Applying, Rechecking
  <2> QED
    BY <2>2, <2>3 DEF EnvIInv
<1>4. CASE /\ \E s \in {"ACCEPTED", "FAILED"} : env' = [env EXCEPT !.status = s]
           /\ accepted' = [rev |-> envOp.rev, anchor |-> envOp.anchor, status |-> "PENDING"]
           /\ EnvGoes("readback") /\ UNCHANGED envFaults
  <2>1. env' \in EnvRows /\ env'.rev = env.rev /\ env'.sent = env.sent /\ env'.status \in {"ACCEPTED", "FAILED"}
    BY <1>0, <1>4 DEF EnvRows
  <2>2. accepted' \in Acceptances /\ accepted'.rev = env.rev /\ accepted'.status = "PENDING"
    BY <1>2, <1>4 DEF Acceptances
  <2>3. envOp' \in EnvOps /\ envOp'.pc = "readback" /\ envOp'.rev = envOp.rev
    BY <1>0, <1>4, EnvGoesTo
  <2>4. env.rev \in Nat
    BY <1>2, EnvAssumption DEF Previews
  <2>5. EnvTypeOK'
    BY <1>0, <1>1, <1>4, <2>1, <2>2, <2>3, <2>4 DEF EnvTypeOK
  <2>6. UpdatesFit'
    BY <1>1, <1>2, <2>1, <2>2 DEF EnvIInv, UpdatesFit
  <2>7. OperationFits'
    BY <1>2, <2>1, <2>2, <2>3 DEF OperationFits, Applying, Rechecking
  <2>8. RowsFit'
    BY <1>1, <1>2, <2>1, <2>2 DEF EnvIInv, RowsFit
  <2> QED
    BY <2>5, <2>6, <2>7, <2>8 DEF EnvIInv
<1> QED
  BY <1>3, <1>4 DEF StoreAcceptance

\* What the readback finds is kept with the operation.
LEMMA ReadWifiFits ==
  ASSUME EnvIInv, ReadWifi
  PROVE  EnvIInv'
<1>0. EnvTypeOK /\ envOp \in EnvOps
  BY DEF EnvIInv, EnvTypeOK
<1>1. envOp.pc \in {"readback", "recheck"} /\ UNCHANGED <<anchor, env, accepted, verified, phoneWifi, updates, moves, envFaults>>
  BY DEF ReadWifi, RowsKept
<1>2. PICK read \in {"UNAVAILABLE", "VERIFIED", "MISMATCH"} :
        /\ envOp' = [envOp EXCEPT !.read = read, !.pc = IF @ = "readback" THEN "verdict" ELSE "recheck verdict"]
        /\ matched' = IF read = "VERIFIED" THEN matched \cup {envOp.rev} ELSE matched
  BY DEF ReadWifi
<1>3. /\ envOp' \in EnvOps /\ envOp'.rev = envOp.rev /\ envOp'.read = read
      /\ envOp'.pc = IF envOp.pc = "readback" THEN "verdict" ELSE "recheck verdict"
  BY <1>0, <1>1, <1>2 DEF EnvOps
<1>4. matched \subseteq matched' /\ matched' \subseteq Previews /\ (read = "VERIFIED" => envOp.rev \in matched')
  BY <1>0, <1>2 DEF EnvTypeOK, EnvOps
<1>5. EnvTypeOK'
  BY <1>0, <1>1, <1>3, <1>4 DEF EnvTypeOK
<1>6. UpdatesFit' /\ RowsFit'
  BY <1>1, <1>4 DEF EnvIInv, UpdatesFit, RowsFit
<1>7. CASE envOp.pc = "readback"
  <2>1. envOp.rev = env.rev /\ env.rev > 0 /\ accepted.rev = env.rev
    BY <1>7 DEF EnvIInv, OperationFits, Applying
  <2>2. envOp'.pc = "verdict"
    BY <1>3, <1>7
  <2>3. OperationFits'
    BY <1>1, <1>3, <1>4, <2>1, <2>2 DEF OperationFits, Applying, Rechecking
  <2> QED
    BY <1>5, <1>6, <2>3 DEF EnvIInv
<1>8. CASE envOp.pc = "recheck"
  <2>1. envOp.rev = accepted.rev /\ envOp.rev > 0
    BY <1>8 DEF EnvIInv, OperationFits, Rechecking
  <2>2. envOp'.pc = "recheck verdict"
    BY <1>3, <1>8
  <2>3. OperationFits'
    BY <1>1, <1>3, <1>4, <2>1, <2>2 DEF OperationFits, Applying, Rechecking
  <2> QED
    BY <1>5, <1>6, <2>3 DEF EnvIInv
<1> QED
  BY <1>1, <1>7, <1>8

\* A verdict of the present revision: MISMATCH fails it, anything else leaves it
\* accepted where the phone still is at its anchor.
LEMMA VerdictFits ==
  ASSUME EnvIInv, StoreVerdict \/ RecheckEnds
  PROVE  EnvIInv'
<1>0. EnvTypeOK /\ env \in EnvRows /\ envOp \in EnvOps /\ accepted \in Acceptances /\ env.rev \in Nat
  BY EnvAssumption DEF EnvIInv, EnvTypeOK, EnvRows, Previews
<1>1. /\ envOp.pc \in {"verdict", "recheck verdict"}
      /\ UNCHANGED <<anchor, phoneWifi, updates, matched, moves>>
  BY DEF StoreVerdict, RecheckEnds, EnvAt, EnvHistory
<1>2. /\ envOp.rev = accepted.rev /\ envOp.rev > 0 /\ envOp.read # "PENDING"
      /\ envOp.read = "VERIFIED" => envOp.rev \in matched
      /\ envOp.pc = "verdict" => env.rev = accepted.rev
  BY <1>0, <1>1 DEF EnvIInv, OperationFits, Applying, Rechecking, EnvRows
<1>3. CASE EnvLeaves /\ UNCHANGED <<env, accepted, verified, envFaults>>
  BY <1>1, <1>3, EnvLeavesFits DEF RowsKept, EnvHistory
<1>4. CASE /\ envFaults < MaxEnvFaults /\ envFaults' = envFaults + 1
           /\ EnvGoes("catch") /\ UNCHANGED <<env, accepted, verified>>
  <2>1. envOp' \in EnvOps /\ envOp'.pc = "catch"
    BY <1>0, <1>4, EnvGoesTo
  <2>0. envFaults' \in 0..MaxEnvFaults
    BY <1>0, <1>4, EnvAssumption DEF EnvTypeOK
  <2>2. EnvTypeOK'
    BY <1>0, <1>1, <1>4, <2>0, <2>1 DEF EnvTypeOK
  <2>3. UpdatesFit' /\ RowsFit' /\ OperationFits'
    BY <1>1, <1>4, <2>1 DEF EnvIInv, UpdatesFit, RowsFit, OperationFits, Applying, Rechecking
  <2> QED
    BY <2>2, <2>3 DEF EnvIInv
<1>5. CASE /\ env' = IF env.rev = envOp.rev THEN [env EXCEPT !.status = Verdict] ELSE env
           /\ accepted' = [accepted EXCEPT !.status = envOp.read]
           /\ verified' \in {verified, accepted.rev} /\ (verified' # verified => accepted.rev \in matched)
           /\ EnvLeaves /\ UNCHANGED envFaults
  <2>1. Verdict \in {"FAILED", "ACCEPTED"} /\ (envOp.read = "MISMATCH" => Verdict = "FAILED")
    BY DEF Verdict
  <2>2. /\ env' \in EnvRows /\ env'.rev = env.rev /\ env'.sent = env.sent
        /\ env'.status = IF env.rev = envOp.rev THEN Verdict ELSE env.status
    BY <1>0, <1>5, <2>1 DEF EnvRows
  <2>3. envOp.read \in {"VERIFIED", "MISMATCH", "UNAVAILABLE"}
    BY <1>0, <1>2 DEF EnvOps
  <2>4. accepted' \in Acceptances /\ accepted'.rev = accepted.rev /\ accepted'.status = envOp.read
    BY <1>0, <1>5, <2>3 DEF Acceptances
  <2>5. envOp' \in EnvOps /\ envOp'.pc = "idle"
    BY <1>5, IdleEnvOp DEF EnvLeaves
  <2>6. accepted.rev \in Previews
    BY <1>0 DEF Acceptances
  <2>7. EnvTypeOK'
    BY <1>0, <1>1, <1>5, <2>2, <2>4, <2>5, <2>6 DEF EnvTypeOK
  <2>8. UpdatesFit'
    BY <1>1, <2>1, <2>2, <2>4 DEF EnvIInv, UpdatesFit
  <2>9. OperationFits'
    BY <2>5 DEF OperationFits, Applying, Rechecking
  <2>10. env'.status = "ACCEPTED" => accepted'.rev = env'.rev /\ env'.rev > 0
    BY <1>2, <2>1, <2>2, <2>4 DEF EnvIInv, RowsFit
  <2>11. accepted'.status = "VERIFIED" => accepted'.rev \in matched'
    BY <1>1, <1>2, <2>4
  <2>12. accepted'.rev = env'.rev /\ accepted'.status = "MISMATCH" => env'.status = "FAILED"
    BY <1>2, <2>1, <2>2, <2>4
  <2>13. verified' \in matched' \cup {0}
    BY <1>1, <1>5 DEF EnvIInv, RowsFit
  <2>14. RowsFit'
    BY <2>10, <2>11, <2>12, <2>13 DEF RowsFit
  <2> QED
    BY <2>7, <2>8, <2>9, <2>14 DEF EnvIInv
<1>6. CASE StoreVerdict
  <2>1. env.rev = envOp.rev
    BY <1>2, <1>6 DEF StoreVerdict, EnvAt
  <2> QED
    BY <1>2, <1>4, <1>5, <1>6, <2>1 DEF StoreVerdict
<1>7. CASE RecheckEnds
  BY <1>3, <1>5, <1>7 DEF RecheckEnds, EnvHistory
<1> QED
  BY <1>6, <1>7

\* The handler of a failed application, and startup recovery: a row that is still
\* APPLYING becomes FAILED, a pending acceptance unknown.
LEMMA EnvFailsFits ==
  ASSUME EnvIInv, CatchEnvironment \/ EnvRestarts
  PROVE  EnvIInv'
<1>0. EnvTypeOK /\ env \in EnvRows /\ accepted \in Acceptances
  BY DEF EnvIInv, EnvTypeOK
<1>1. /\ UNCHANGED <<anchor, verified, phoneWifi, updates, matched, moves>>
      /\ envOp' = NoEnvOp /\ envFaults' \in 0..MaxEnvFaults
  BY <1>0, EnvAssumption DEF CatchEnvironment, EnvRestarts, EnvHistory, EnvLeaves, EnvTypeOK
<1>2. env' = env \/ (env.status = "APPLYING" /\ env' = [env EXCEPT !.status = "FAILED"])
  BY DEF CatchEnvironment, EnvRestarts
<1>3. accepted' = accepted \/ accepted' = [accepted EXCEPT !.status = "UNAVAILABLE"]
  BY DEF CatchEnvironment, EnvRestarts
<1>4. /\ env' \in EnvRows /\ env'.rev = env.rev /\ env'.sent = env.sent
      /\ env'.status = env.status \/ (env.status = "APPLYING" /\ env'.status = "FAILED")
  BY <1>0, <1>2 DEF EnvRows
<1>5. accepted' \in Acceptances /\ accepted'.rev = accepted.rev /\ accepted'.status \in {accepted.status, "UNAVAILABLE"}
  BY <1>0, <1>3 DEF Acceptances
<1>6. EnvTypeOK'
  BY <1>0, <1>1, <1>4, <1>5, IdleEnvOp DEF EnvTypeOK
<1>7. UpdatesFit'
  BY <1>1, <1>4, <1>5 DEF EnvIInv, UpdatesFit
<1>8. OperationFits'
  BY <1>1, IdleEnvOp DEF OperationFits, Applying, Rechecking
<1>9. RowsFit'
  BY <1>1, <1>4, <1>5 DEF EnvIInv, RowsFit
<1> QED
  BY <1>6, <1>7, <1>8, <1>9 DEF EnvIInv

LEMMA AnchorMovesFits ==
  ASSUME EnvIInv, AnchorMoves
  PROVE  EnvIInv'
<1>1. /\ anchor' \in Anchors /\ moves' \in 0..MaxMoves
      /\ UNCHANGED <<env, accepted, verified, envOp, phoneWifi, updates, matched, envFaults>>
  BY EnvAssumption DEF AnchorMoves, EnvIInv, EnvTypeOK
<1>2. EnvTypeOK'
  BY <1>1 DEF EnvIInv, EnvTypeOK
<1>3. UpdatesFit' /\ RowsFit'
  BY <1>1 DEF EnvIInv, UpdatesFit, RowsFit
<1>4. OperationFits'
  BY <1>1 DEF EnvIInv, OperationFits
<1> QED
  BY <1>2, <1>3, <1>4 DEF EnvIInv

LEMMA EnvStepFits ==
  ASSUME EnvIInv, [EnvNext]_envVars
  PROVE  EnvIInv'
<1>1. CASE EnvNext
  BY <1>1, EnvBeginsFits, PreviewEndsFits, EnvMarksFits, UpdateFits, AcceptanceFits, ReadWifiFits, VerdictFits,
     EnvFailsFits, AnchorMovesFits DEF EnvNext
<1>2. CASE UNCHANGED envVars
  <2>1. UNCHANGED <<anchor, env, accepted, verified, envOp, phoneWifi, updates, matched, moves, envFaults>>
    BY <1>2 DEF envVars
  <2>2. EnvTypeOK' /\ UpdatesFit' /\ RowsFit'
    BY <2>1 DEF EnvIInv, EnvTypeOK, UpdatesFit, RowsFit
  <2>3. OperationFits'
    BY <2>1 DEF EnvIInv, OperationFits
  <2> QED
    BY <2>2, <2>3 DEF EnvIInv
<1> QED
  BY <1>1, <1>2

\* An environment's revision is sent once, and the rows say of it what happened,
\* whatever the number of revisions, moves of the anchor, failed transactions and
\* restarts (orchestrator/environment.ts).
THEOREM EnvironmentSentOnce == EnvSpec => [](EnvTypeOK /\ RevisionIsSentOnce)
<1>1. EnvInit => EnvIInv
  BY EnvInitFits
<1>2. EnvIInv /\ [EnvNext]_envVars => EnvIInv'
  BY EnvStepFits
<1>3. ASSUME EnvIInv PROVE EnvTypeOK /\ RevisionIsSentOnce
  <2>1. \A r \in 1..MaxRevision : r \in Previews
    BY EnvAssumption DEF Previews
  <2>2. env.rev \in Previews
    BY <1>3 DEF EnvIInv, EnvTypeOK, EnvRows
  <2> QED
    BY <1>3, <2>1, <2>2 DEF EnvIInv, UpdatesFit, RowsFit, RevisionIsSentOnce
<1> QED
  BY <1>1, <1>2, <1>3, PTL DEF EnvSpec

(***************************************************************************)
(* The keys of the workspaces.                                             *)
(***************************************************************************)

KeysTyped ==
  /\ clock \in 0..MaxClock /\ keyFaults \in 0..MaxKeyFaults
  /\ line \in [Keys -> Seq(KeyCalls)]
  /\ nextStart \in [Keys -> Nat] /\ cooling \in [Keys -> Nat] /\ turnEnd \in [Keys -> Int]
  /\ rows \in [Tenants -> [Keys -> KeyRows]]
  /\ call \in [KeyCalls -> CallRows]
  /\ effects \in [KeyCalls -> Nat]
  /\ asked \in [Tenants -> [Keys -> Nat]]
  /\ turnKnown \in [Keys -> BOOLEAN]
  /\ pauseKept \in [Tenants -> [Keys -> {"row", "memory", "nowhere"}]]

Waits(c) == InTurn(c) \/ call[c].pc = "queued"

\* A call stands once in the line of its key, and has its turn at the head.
LinesFit ==
  /\ \A k \in Keys : \A i \in 1..Len(line[k]) : Waits(line[k][i]) /\ call[line[k][i]].key = k
  /\ \A k \in Keys : \A i, j \in 1..Len(line[k]) : line[k][i] = line[k][j] => i = j
  /\ \A c \in KeyCalls : Waits(c) => call[c].key \in Keys /\ \E i \in 1..Len(line[call[c].key]) : line[call[c].key][i] = c
  /\ \A c \in KeyCalls : InTurn(c) => line[call[c].key] # <<>> /\ line[call[c].key][1] = c

\* The next turn of a key is an interval after the last one this process knows of.
TurnsFit ==
  \A k \in Keys : (turnKnown[k] => turnEnd[k] + Interval <= nextStart[k]) /\ turnEnd[k] <= clock

\* A pause is over, or it is where it is said to be remembered.
PauseFits(t, k) ==
  \/ asked[t][k] <= clock \/ pauseKept[t][k] = "nowhere"
  \/ asked[t][k] <= rows[t][k].until
  \/ pauseKept[t][k] # "row" /\ asked[t][k] <= cooling[k]

PausesFit == \A t \in Tenants, k \in Keys : PauseFits(t, k)

\* Nothing that is remembered forbids a workspace to use a key.
Free(t, k) == cooling[k] <= clock /\ (asked[t][k] <= clock \/ pauseKept[t][k] = "nowhere")

\* Who may send found no pause when it looked, and nobody else has the key since.
SendersFit ==
  \A c \in KeyCalls : call[c].pc \in {"send", "answered", "lost", "limited", "denied"} =>
    Free(TenantOf[c], call[c].key)

\* What a call did by where it is.
EffectsFit ==
  \A c \in KeyCalls :
    /\ effects[c] <= 1
    /\ call[c].pc \in {"idle", "next", "queued", "turn", "send", "limited", "denied"} => effects[c] = 0
    /\ call[c].pc \in {"answered", "done"} => effects[c] = 1

KeysIInv == KeysTyped /\ LinesFit /\ TurnsFit /\ PausesFit /\ SendersFit /\ EffectsFit
-----------------------------------------------------------------------------
KeyPlaces == {"idle", "next", "queued", "turn", "send", "answered", "lost", "limited", "denied", "failed", "done"}

Sending == {"send", "answered", "lost", "limited", "denied"}

LEMMA KeysInitFits == KeysInit => KeysIInv
<1> SUFFICES ASSUME KeysInit PROVE KeysIInv
  OBVIOUS
<1> USE KeysAssumption DEF KeysInit
<1>1. IdleCall \in CallRows /\ IdleCall.pc = "idle"
  BY DEF IdleCall, CallRows
<1>2. [dead |-> FALSE, until |-> 0] \in KeyRows
  BY DEF KeyRows
<1>3. KeysTyped
  BY <1>1, <1>2 DEF KeysTyped
<1>4. \A c \in KeyCalls : call[c].pc = "idle" /\ ~Waits(c) /\ ~InTurn(c)
  BY <1>1 DEF Waits, InTurn
<1>5. LinesFit
  BY <1>4 DEF LinesFit
<1>6. TurnsFit /\ PausesFit
  BY DEF TurnsFit, PausesFit, PauseFits
<1>7. SendersFit /\ EffectsFit
  BY <1>4 DEF SendersFit, Free, EffectsFit
<1> QED
  BY <1>3, <1>5, <1>6, <1>7 DEF KeysIInv

\* So the line of a key is what the type invariant says it is.
LEMMA LinesAreFull == KeysTyped /\ LinesFit => KeysTypeOK
<1> SUFFICES ASSUME KeysTyped, LinesFit PROVE KeysTypeOK
  OBVIOUS
<1>1. ASSUME NEW k \in Keys
      PROVE  Range(line[k]) = {c \in KeyCalls : call[c].key = k /\ (InTurn(c) \/ call[c].pc = "queued")}
  <2>1. line[k] \in Seq(KeyCalls) /\ DOMAIN line[k] = 1..Len(line[k])
    BY DEF KeysTyped
  <2>2. ASSUME NEW x \in Range(line[k])
        PROVE  x \in KeyCalls /\ call[x].key = k /\ Waits(x)
    <3>1. PICK i \in 1..Len(line[k]) : x = line[k][i]
      BY <2>1, <2>2 DEF Range
    <3> QED
      BY <2>1, <3>1, ElementOfSeq DEF LinesFit
  <2>3. ASSUME NEW c \in KeyCalls, call[c].key = k, Waits(c)
        PROVE  c \in Range(line[k])
    BY <2>1, <2>3 DEF LinesFit, Range
  <2> QED
    BY <2>2, <2>3 DEF Waits
<1> QED
  BY <1>1 DEF KeysTypeOK, KeysTyped

\* The step of a call to another place, its key and the others kept.
LEMMA CallMoves ==
  ASSUME KeysTyped, NEW c \in KeyCalls, NEW w \in KeyPlaces, CallGoes(c, w)
  PROVE  /\ call' \in [KeyCalls -> CallRows]
         /\ call'[c].pc = w /\ call'[c].key = call[c].key
         /\ \A d \in KeyCalls \ {c} : call'[d] = call[d]
<1> DEFINE row == [call[c] EXCEPT !.pc = w]
<1>1. call \in [KeyCalls -> CallRows] /\ call[c] \in CallRows
  BY DEF KeysTyped
<1>2. row \in CallRows /\ row.pc = w /\ row.key = call[c].key
  BY <1>1 DEF CallRows, KeyPlaces
<1>3. call' = [call EXCEPT ![c] = row]
  BY DEF CallGoes
<1> HIDE DEF row
<1> QED
  BY <1>1, <1>2, <1>3

LEMMA TurnHasKey ==
  ASSUME KeysTyped, LinesFit, NEW c \in KeyCalls, Waits(c)
  PROVE  /\ call[c].key \in Keys /\ TenantOf[c] \in Tenants
         /\ line[call[c].key] \in Seq(KeyCalls) /\ line[call[c].key] # <<>>
<1>1. call[c].key \in Keys
  BY DEF LinesFit
<1>2. line[call[c].key] \in Seq(KeyCalls)
  BY <1>1 DEF KeysTyped
<1>3. PICK i \in 1..Len(line[call[c].key]) : line[call[c].key][i] = c
  BY DEF LinesFit
<1>4. line[call[c].key] # <<>>
  BY <1>2, <1>3
<1> QED
  BY <1>1, <1>2, <1>4, KeysAssumption

\* Two calls never have the turn of one key.
LEMMA OneTurn ==
  ASSUME LinesFit, NEW c \in KeyCalls, NEW d \in KeyCalls, InTurn(c), InTurn(d), call[c].key = call[d].key
  PROVE  c = d
BY DEF LinesFit

\* A call that waits, or has its turn, moves on without leaving the line.
LEMMA LineKept ==
  ASSUME KeysTyped, LinesFit, NEW c \in KeyCalls, Waits(c),
         NEW w \in KeyPlaces, w \in {"turn"} \cup Sending, CallGoes(c, w), UNCHANGED line,
         Head(line[call[c].key]) = c
  PROVE  LinesFit'
<1>1. /\ call'[c].pc = w /\ call'[c].key = call[c].key
      /\ \A d \in KeyCalls \ {c} : call'[d] = call[d]
  BY CallMoves
<1>2. \A d \in KeyCalls : call'[d].key = call[d].key /\ (Waits(d)' <=> Waits(d))
  BY <1>1 DEF Waits, InTurn, Sending
<1>3. \A d \in KeyCalls \ {c} : InTurn(d)' <=> InTurn(d)
  BY <1>1 DEF InTurn
<1>4. line[call[c].key] # <<>> /\ line[call[c].key][1] = c
  BY TurnHasKey
<1>5. \A k \in Keys : \A i \in 1..Len(line[k]) : line[k][i] \in KeyCalls
  BY DEF KeysTyped
<1>6. (\A k \in Keys : \A i \in 1..Len(line[k]) : Waits(line[k][i]) /\ call[line[k][i]].key = k)'
  BY <1>2, <1>5 DEF LinesFit
<1>7. (\A k \in Keys : \A i, j \in 1..Len(line[k]) : line[k][i] = line[k][j] => i = j)'
  BY DEF LinesFit
<1>8. (\A d \in KeyCalls : Waits(d) => call[d].key \in Keys /\ \E i \in 1..Len(line[call[d].key]) : line[call[d].key][i] = d)'
  BY <1>2 DEF LinesFit
<1>9. (\A d \in KeyCalls : InTurn(d) => line[call[d].key] # <<>> /\ line[call[d].key][1] = d)'
  BY <1>2, <1>3, <1>4 DEF LinesFit
<1> QED
  BY <1>6, <1>7, <1>8, <1>9 DEF LinesFit

\* The call at the head leaves: the calls behind it move up.
LEMMA LineLeft ==
  ASSUME KeysTyped, LinesFit, NEW c \in KeyCalls, InTurn(c),
         NEW w \in KeyPlaces, w \in {"next", "failed", "done"}, CallGoes(c, w), LeaveTurn(c)
  PROVE  LinesFit' /\ line' \in [Keys -> Seq(KeyCalls)]
<1> DEFINE k == call[c].key
           s == line[k]
<1>1. /\ call'[c].pc = w /\ call'[c].key = call[c].key
      /\ \A d \in KeyCalls \ {c} : call'[d] = call[d]
  BY CallMoves
<1>2. k \in Keys /\ s \in Seq(KeyCalls) /\ s # <<>>
  BY TurnHasKey DEF Waits
<1>3. line \in [Keys -> Seq(KeyCalls)]
  BY DEF KeysTyped
<1>4. /\ Tail(s) \in Seq(KeyCalls) /\ Len(Tail(s)) = Len(s) - 1
      /\ \A i \in 1..Len(Tail(s)) : Tail(s)[i] = s[i + 1] /\ i + 1 \in 1..Len(s)
  BY <1>2, HeadTailProperties
<1>5. line' = [line EXCEPT ![k] = Tail(s)]
  BY DEF LeaveTurn
<1>6. line'[k] = Tail(s) /\ \A m \in Keys \ {k} : line'[m] = line[m]
  BY <1>2, <1>3, <1>5
<1>7. s[1] = c /\ 1 \in 1..Len(s)
  BY <1>2 DEF LinesFit
<1>8. \A d \in KeyCalls \ {c} : (Waits(d)' <=> Waits(d)) /\ (InTurn(d)' <=> InTurn(d)) /\ call'[d].key = call[d].key
  BY <1>1 DEF Waits, InTurn
<1>9. ~InTurn(c)' /\ ~Waits(c)'
  BY <1>1 DEF Waits, InTurn
<1>10. ASSUME NEW i \in 1..Len(Tail(s)) PROVE Tail(s)[i] \in KeyCalls \ {c}
  <2>1. s[i + 1] # s[1]
    BY <1>2, <1>4, <1>7 DEF LinesFit
  <2> QED
    BY <1>2, <1>4, <1>7, <2>1
<1>11. ASSUME NEW m \in Keys \ {k}, NEW i \in 1..Len(line[m]) PROVE line[m][i] \in KeyCalls \ {c}
  BY <1>3 DEF LinesFit
<1>12. ASSUME NEW m \in Keys, NEW i \in 1..Len(line'[m])
       PROVE  Waits(line[m][i])' /\ call'[line'[m][i]].key = m
  <2>1. CASE m = k
    <3>1. line'[m][i] = s[i + 1] /\ s[i + 1] \in KeyCalls \ {c} /\ i + 1 \in 1..Len(s)
      BY <1>4, <1>6, <1>10, <2>1
    <3>2. Waits(s[i + 1]) /\ call[s[i + 1]].key = k
      BY <1>2, <3>1 DEF LinesFit
    <3> QED
      BY <1>8, <2>1, <3>1, <3>2 DEF Waits, InTurn
  <2>2. CASE m # k
    <3>1. line'[m][i] = line[m][i] /\ line[m][i] \in KeyCalls \ {c} /\ i \in 1..Len(line[m])
      BY <1>6, <1>11, <2>2
    <3>2. Waits(line[m][i]) /\ call[line[m][i]].key = m
      BY <3>1 DEF LinesFit
    <3> QED
      BY <1>8, <3>1, <3>2 DEF Waits, InTurn
  <2> QED
    BY <2>1, <2>2
<1>13. ASSUME NEW m \in Keys, NEW i \in 1..Len(line'[m]), NEW j \in 1..Len(line'[m]), line'[m][i] = line'[m][j]
       PROVE  i = j
  <2>1. CASE m = k
    <3>1. i \in 1..Len(Tail(s)) /\ j \in 1..Len(Tail(s))
      BY <1>6, <2>1
    <3>2. s[i + 1] = s[j + 1] /\ i + 1 \in 1..Len(s) /\ j + 1 \in 1..Len(s)
      BY <1>4, <1>6, <1>13, <2>1, <3>1
    <3>3. i + 1 = j + 1
      BY <1>2, <3>2 DEF LinesFit
    <3> QED
      BY <3>3
  <2>2. CASE m # k
    BY <1>6, <1>13, <2>2 DEF LinesFit
  <2> QED
    BY <2>1, <2>2
<1>14. ASSUME NEW d \in KeyCalls, Waits(d)'
       PROVE  call'[d].key \in Keys /\ \E i \in 1..Len(line'[call'[d].key]) : line'[call'[d].key][i] = d
  <2>1. d # c /\ Waits(d) /\ call'[d].key = call[d].key
    BY <1>8, <1>9, <1>14
  <2>2. call[d].key \in Keys
    BY <2>1 DEF LinesFit
  <2>3. PICK i \in 1..Len(line[call[d].key]) : line[call[d].key][i] = d
    BY <2>1 DEF LinesFit
  <2>4. CASE call[d].key = k
    <3>1. i \in 1..Len(s) /\ s[i] = d /\ i # 1
      BY <1>7, <2>1, <2>3, <2>4
    <3>2. i - 1 \in 1..Len(Tail(s)) /\ (i - 1) + 1 = i
      BY <1>2, <1>4, <3>1
    <3>3. Tail(s)[i - 1] = d
      BY <1>4, <3>1, <3>2
    <3> QED
      BY <1>6, <2>1, <2>2, <2>4, <3>2, <3>3
  <2>5. CASE call[d].key # k
    BY <1>6, <2>1, <2>2, <2>3, <2>5
  <2> QED
    BY <2>4, <2>5
<1>15. ASSUME NEW d \in KeyCalls, InTurn(d)'
       PROVE  line'[call'[d].key] # <<>> /\ line'[call'[d].key][1] = d
  <2>1. d # c /\ InTurn(d) /\ call'[d].key = call[d].key
    BY <1>8, <1>9, <1>15
  <2>2. call[d].key # k
    BY <2>1, OneTurn
  <2>3. call[d].key \in Keys
    BY <2>1 DEF LinesFit, Waits
  <2> QED
    BY <1>6, <2>1, <2>2, <2>3 DEF LinesFit
<1>16. line' \in [Keys -> Seq(KeyCalls)]
  BY <1>2, <1>3, <1>4, <1>5
<1> QED
  BY <1>12, <1>13, <1>14, <1>15, <1>16 DEF LinesFit

\* A call joins the end of the line of a key.
LEMMA LineJoined ==
  ASSUME KeysTyped, LinesFit, NEW c \in KeyCalls, call[c].pc = "next", NEW k \in call[c].left,
         NEW row, row = [pc |-> "queued", key |-> k, left |-> call[c].left \ {k}],
         call' = [call EXCEPT ![c] = row],
         line' = [line EXCEPT ![k] = Append(@, c)]
  PROVE  /\ LinesFit' /\ line' \in [Keys -> Seq(KeyCalls)] /\ call' \in [KeyCalls -> CallRows]
         /\ call'[c].pc = "queued" /\ \A d \in KeyCalls \ {c} : call'[d] = call[d]
<1> DEFINE s == line[k]
           t == Append(s, c)
<1>1. /\ call \in [KeyCalls -> CallRows] /\ call[c] \in CallRows
      /\ line \in [Keys -> Seq(KeyCalls)] /\ k \in Keys /\ s \in Seq(KeyCalls)
  BY DEF KeysTyped, CallRows
<1>2. row \in CallRows /\ row.pc = "queued" /\ row.key = k
  BY <1>1 DEF CallRows
<1>3. /\ t \in Seq(KeyCalls) /\ t # <<>> /\ Len(t) = Len(s) + 1
      /\ \A i \in 1..Len(s) : t[i] = s[i] /\ i \in 1..Len(t)
      /\ t[Len(s) + 1] = c /\ Len(s) \in Nat
  BY <1>1, AppendProperties
<1>4. line' = [line EXCEPT ![k] = t]
  OBVIOUS
<1> HIDE DEF t
<1>5. /\ call' \in [KeyCalls -> CallRows] /\ call'[c] = row
      /\ \A d \in KeyCalls \ {c} : call'[d] = call[d]
  BY <1>1, <1>2
<1>6. /\ line' \in [Keys -> Seq(KeyCalls)] /\ line'[k] = t
      /\ \A m \in Keys \ {k} : line'[m] = line[m]
  BY <1>1, <1>3, <1>4
<1>7. ~Waits(c) /\ Waits(c)' /\ ~InTurn(c)'
  BY <1>2, <1>5 DEF Waits, InTurn
<1>8. \A d \in KeyCalls \ {c} : (Waits(d)' <=> Waits(d)) /\ (InTurn(d)' <=> InTurn(d)) /\ call'[d].key = call[d].key
  BY <1>5 DEF Waits, InTurn
<1>9. ASSUME NEW m \in Keys, NEW i \in 1..Len(line[m]) PROVE line[m][i] \in KeyCalls \ {c}
  BY <1>1, <1>7 DEF LinesFit
<1>10. ASSUME NEW m \in Keys, NEW i \in 1..Len(line'[m])
       PROVE  \/ m = k /\ i = Len(s) + 1 /\ line'[m][i] = c
              \/ i \in 1..Len(line[m]) /\ line'[m][i] = line[m][i]
  BY <1>1, <1>3, <1>6
<1>11. ASSUME NEW m \in Keys, NEW i \in 1..Len(line'[m])
       PROVE  Waits(line[m][i])' /\ call'[line'[m][i]].key = m
  <2>1. CASE m = k /\ line'[m][i] = c
    BY <1>2, <1>5, <1>7, <2>1 DEF Waits, InTurn
  <2>2. CASE i \in 1..Len(line[m]) /\ line'[m][i] = line[m][i]
    <3>1. line[m][i] \in KeyCalls \ {c} /\ Waits(line[m][i]) /\ call[line[m][i]].key = m
      BY <1>9, <2>2 DEF LinesFit
    <3> QED
      BY <1>8, <2>2, <3>1 DEF Waits, InTurn
  <2> QED
    BY <1>10, <2>1, <2>2
<1>12. ASSUME NEW m \in Keys, NEW i \in 1..Len(line'[m]), NEW j \in 1..Len(line'[m]), line'[m][i] = line'[m][j]
       PROVE  i = j
  <2>1. CASE i \in 1..Len(line[m]) /\ j \in 1..Len(line[m])
    <3>1. line[m][i] = line[m][j]
      BY <1>1, <1>3, <1>6, <1>12, <2>1
    <3> QED
      BY <2>1, <3>1 DEF LinesFit
  <2>2. CASE i \notin 1..Len(line[m]) \/ j \notin 1..Len(line[m])
    BY <1>9, <1>10, <1>12, <2>2
  <2> QED
    BY <2>1, <2>2
<1>13. ASSUME NEW d \in KeyCalls, Waits(d)'
       PROVE  call'[d].key \in Keys /\ \E i \in 1..Len(line'[call'[d].key]) : line'[call'[d].key][i] = d
  <2>1. CASE d = c
    <3>1. Len(s) + 1 \in 1..Len(t)
      BY <1>3
    <3> QED
      BY <1>1, <1>2, <1>3, <1>5, <1>6, <2>1, <3>1
  <2>2. CASE d # c
    <3>1. Waits(d) /\ call'[d].key = call[d].key
      BY <1>8, <1>13, <2>2
    <3>2. call[d].key \in Keys
      BY <3>1 DEF LinesFit
    <3>3. PICK i \in 1..Len(line[call[d].key]) : line[call[d].key][i] = d
      BY <3>1 DEF LinesFit
    <3> QED
      BY <1>3, <1>6, <3>1, <3>2, <3>3
  <2> QED
    BY <2>1, <2>2
<1>14. ASSUME NEW d \in KeyCalls, InTurn(d)'
       PROVE  line'[call'[d].key] # <<>> /\ line'[call'[d].key][1] = d
  <2>1. d # c /\ InTurn(d) /\ call'[d].key = call[d].key
    BY <1>7, <1>8, <1>14
  <2>2. call[d].key \in Keys /\ line[call[d].key] # <<>> /\ line[call[d].key][1] = d /\ line[call[d].key] \in Seq(KeyCalls)
    BY <1>1, <2>1 DEF LinesFit, Waits
  <2>3. 1 \in 1..Len(line[call[d].key])
    BY <2>2
  <2> QED
    BY <1>3, <1>6, <2>1, <2>2, <2>3
<1>15. LinesFit'
  BY <1>11, <1>12, <1>13, <1>14 DEF LinesFit
<1> QED
  BY <1>2, <1>5, <1>6, <1>15

\* The database takes the row or fails.
LEMMA StoredRow ==
  ASSUME KeysTyped, NEW c \in KeyCalls, call[c].key \in Keys, NEW row \in KeyRows, Stored(c, row)
  PROVE  /\ rows' \in [Tenants -> [Keys -> KeyRows]] /\ keyFaults' \in 0..MaxKeyFaults
         /\ \A t \in Tenants, k \in Keys :
              t # TenantOf[c] \/ k # call[c].key \/ StoreFailed => rows'[t][k] = rows[t][k]
         /\ ~StoreFailed => rows'[TenantOf[c]][call[c].key] = row
<1>1. TenantOf[c] \in Tenants /\ rows \in [Tenants -> [Keys -> KeyRows]] /\ keyFaults \in 0..MaxKeyFaults /\ MaxKeyFaults \in Nat
  BY KeysAssumption DEF KeysTyped
<1>2. CASE rows' = [rows EXCEPT ![TenantOf[c]][call[c].key] = row] /\ UNCHANGED keyFaults
  BY <1>1, <1>2 DEF StoreFailed
<1>3. CASE keyFaults < MaxKeyFaults /\ keyFaults' = keyFaults + 1 /\ UNCHANGED rows
  BY <1>1, <1>3 DEF StoreFailed
<1> QED
  BY <1>2, <1>3 DEF Stored

-----------------------------------------------------------------------------
(* One lemma for each kind of step.                                        *)

\* A turn that ends leaves the interval behind it.
LEMMA TurnLeft ==
  ASSUME KeysTyped, LinesFit, TurnsFit, NEW c \in KeyCalls, InTurn(c), LeaveTurn(c), UNCHANGED clock
  PROVE  nextStart' \in [Keys -> Nat] /\ turnEnd' \in [Keys -> Int] /\ turnKnown' \in [Keys -> BOOLEAN] /\ TurnsFit'
<1> DEFINE k == call[c].key
           n == clock + Interval
<1>1. k \in Keys /\ clock \in Nat /\ n \in Nat /\ clock <= clock
  BY TurnHasKey, KeysAssumption DEF KeysTyped, Waits
<1>2. /\ nextStart' = [nextStart EXCEPT ![k] = n] /\ turnEnd' = [turnEnd EXCEPT ![k] = clock]
      /\ turnKnown' = [turnKnown EXCEPT ![k] = TRUE]
  BY DEF LeaveTurn
<1>3. nextStart' \in [Keys -> Nat] /\ turnEnd' \in [Keys -> Int] /\ turnKnown' \in [Keys -> BOOLEAN]
  BY <1>1, <1>2 DEF KeysTyped
<1>4. ASSUME NEW m \in Keys
      PROVE  (turnKnown'[m] => turnEnd'[m] + Interval <= nextStart'[m]) /\ turnEnd'[m] <= clock'
  <2>1. CASE m = k
    BY <1>1, <1>2, <2>1 DEF KeysTyped
  <2>2. CASE m # k
    BY <1>2, <2>2 DEF KeysTyped, TurnsFit
  <2> QED
    BY <2>1, <2>2
<1> QED
  BY <1>3, <1>4 DEF TurnsFit

\* The calls but the one that moves keep what they found, if their keys keep
\* their pauses.
LEMMA SendersKept ==
  ASSUME KeysTyped, LinesFit, SendersFit, NEW c \in KeyCalls, NEW w \in KeyPlaces, CallGoes(c, w), InTurn(c),
         w \in Sending => (Free(TenantOf[c], call[c].key) /\ UNCHANGED <<cooling, asked, pauseKept>>),
         UNCHANGED clock,
         \A k \in Keys : k # call[c].key => cooling'[k] = cooling[k],
         \A k \in Keys, t \in Tenants : k # call[c].key => asked'[t][k] = asked[t][k] /\ pauseKept'[t][k] = pauseKept[t][k]
  PROVE  SendersFit'
<1>1. /\ call'[c].pc = w /\ call'[c].key = call[c].key
      /\ \A d \in KeyCalls \ {c} : call'[d] = call[d]
  BY CallMoves
<1>2. ASSUME NEW d \in KeyCalls, call'[d].pc \in Sending
      PROVE  /\ cooling'[call'[d].key] <= clock'
             /\ asked'[TenantOf[d]][call'[d].key] <= clock' \/ pauseKept'[TenantOf[d]][call'[d].key] = "nowhere"
  <2>1. CASE d = c
    BY <1>1, <1>2, <2>1 DEF Free
  <2>2. CASE d # c
    <3>1. InTurn(d) /\ call'[d] = call[d] /\ call[d].pc \in Sending
      BY <1>1, <1>2, <2>2 DEF InTurn, Sending
    <3>2. call[d].key # call[c].key
      BY <2>2, <3>1, OneTurn
    <3>3. call[d].key \in Keys /\ TenantOf[d] \in Tenants
      BY <3>1, TurnHasKey DEF Waits
    <3>4. Free(TenantOf[d], call[d].key)
      BY <3>1 DEF SendersFit, Free, Sending
    <3> QED
      BY <3>1, <3>2, <3>3, <3>4 DEF Free
  <2> QED
    BY <2>1, <2>2
<1> QED
  BY <1>2 DEF SendersFit, Free, Sending

\* The effects fit a step of one call that is not the request.
LEMMA EffectsKept ==
  ASSUME KeysTyped, EffectsFit, NEW c \in KeyCalls, NEW w \in KeyPlaces, CallGoes(c, w), UNCHANGED effects,
         w \in {"turn", "send", "next"} => call[c].pc \in {"queued", "turn", "send", "limited", "denied"},
         w \in {"answered", "done"} => call[c].pc = "answered",
         w \in {"turn", "send", "next", "failed", "done"}
  PROVE  EffectsFit'
<1>1. call'[c].pc = w /\ \A d \in KeyCalls \ {c} : call'[d] = call[d]
  BY CallMoves
<1> QED
  BY <1>1 DEF EffectsFit

LEMMA BeginsFits ==
  ASSUME KeysIInv, NEW c \in KeyCalls, CallBegins(c)
  PROVE  KeysIInv'
<1> DEFINE row == [pc |-> "next", key |-> NoKey, left |-> {k \in Keys : ~Row(c, k).dead}]
<1>1. row \in CallRows /\ row.pc = "next"
  BY DEF CallRows
<1>2. call' = [call EXCEPT ![c] = row] /\ call[c].pc = "idle"
  BY DEF CallBegins
<1> HIDE DEF row
<1>3. call' \in [KeyCalls -> CallRows] /\ call'[c].pc = "next" /\ \A d \in KeyCalls \ {c} : call'[d] = call[d]
  BY <1>1, <1>2 DEF KeysIInv, KeysTyped
<1>4. UNCHANGED <<clock, line, nextStart, cooling, rows, effects, turnEnd, turnKnown, asked, pauseKept, keyFaults>>
  BY DEF CallBegins
<1>5. KeysTyped'
  BY <1>3, <1>4 DEF KeysIInv, KeysTyped
<1>6. \A d \in KeyCalls : (Waits(d)' <=> Waits(d)) /\ (InTurn(d)' <=> InTurn(d)) /\ (Waits(d) => call'[d] = call[d])
  BY <1>2, <1>3 DEF Waits, InTurn
<1>7. \A k \in Keys : \A i \in 1..Len(line[k]) : line[k][i] \in KeyCalls
  BY DEF KeysIInv, KeysTyped
<1>8. LinesFit'
  <2>1. (\A k \in Keys : \A i \in 1..Len(line[k]) : Waits(line[k][i]) /\ call[line[k][i]].key = k)'
    BY <1>4, <1>6, <1>7 DEF LinesFit, KeysIInv
  <2>2. (\A k \in Keys : \A i, j \in 1..Len(line[k]) : line[k][i] = line[k][j] => i = j)'
    BY <1>4 DEF LinesFit, KeysIInv
  <2>3. (\A d \in KeyCalls : Waits(d) => call[d].key \in Keys /\ \E i \in 1..Len(line[call[d].key]) : line[call[d].key][i] = d)'
    BY <1>4, <1>6 DEF LinesFit, KeysIInv
  <2>4. (\A d \in KeyCalls : InTurn(d) => line[call[d].key] # <<>> /\ line[call[d].key][1] = d)'
    BY <1>4, <1>6 DEF LinesFit, KeysIInv, Waits
  <2> QED
    BY <2>1, <2>2, <2>3, <2>4 DEF LinesFit
<1>9. TurnsFit' /\ PausesFit'
  BY <1>4 DEF KeysIInv, TurnsFit, PausesFit, PauseFits
<1>10. SendersFit' /\ EffectsFit'
  BY <1>2, <1>3, <1>4 DEF KeysIInv, SendersFit, Free, EffectsFit
<1> QED
  BY <1>5, <1>8, <1>9, <1>10 DEF KeysIInv

LEMMA ReserveFits ==
  ASSUME KeysIInv, NEW c \in KeyCalls, Reserve(c)
  PROVE  KeysIInv'
<1>1. UNCHANGED <<clock, nextStart, cooling, rows, effects, turnEnd, turnKnown, asked, pauseKept, keyFaults>> /\ call[c].pc = "next"
  BY DEF Reserve
<1>2. /\ LinesFit' /\ line' \in [Keys -> Seq(KeyCalls)] /\ call' \in [KeyCalls -> CallRows]
      /\ call'[c].pc \in {"queued", "failed"} /\ \A d \in KeyCalls \ {c} : call'[d] = call[d]
  <2>1. CASE CallGoes(c, "failed") /\ UNCHANGED line
    <3>1. /\ call' \in [KeyCalls -> CallRows] /\ call'[c].pc = "failed" /\ call'[c].key = call[c].key
          /\ \A d \in KeyCalls \ {c} : call'[d] = call[d]
      BY <2>1, CallMoves DEF KeysIInv, KeyPlaces
    <3>2. \A d \in KeyCalls : (Waits(d)' <=> Waits(d)) /\ (InTurn(d)' <=> InTurn(d)) /\ call'[d].key = call[d].key
      BY <1>1, <3>1 DEF Waits, InTurn
    <3>3. \A k \in Keys : \A i \in 1..Len(line[k]) : line[k][i] \in KeyCalls
      BY DEF KeysIInv, KeysTyped
    <3>4. (\A k \in Keys : \A i \in 1..Len(line[k]) : Waits(line[k][i]) /\ call[line[k][i]].key = k)'
      BY <2>1, <3>2, <3>3 DEF LinesFit, KeysIInv
    <3>5. (\A k \in Keys : \A i, j \in 1..Len(line[k]) : line[k][i] = line[k][j] => i = j)'
      BY <2>1 DEF LinesFit, KeysIInv
    <3>6. (\A d \in KeyCalls : Waits(d) => call[d].key \in Keys /\ \E i \in 1..Len(line[call[d].key]) : line[call[d].key][i] = d)'
      BY <2>1, <3>2 DEF LinesFit, KeysIInv
    <3>7. (\A d \in KeyCalls : InTurn(d) => line[call[d].key] # <<>> /\ line[call[d].key][1] = d)'
      BY <2>1, <3>2 DEF LinesFit, KeysIInv
    <3>8. LinesFit'
      BY <3>4, <3>5, <3>6, <3>7 DEF LinesFit
    <3> QED
      BY <2>1, <3>1, <3>8 DEF KeysIInv, KeysTyped
  <2>2. ASSUME NEW k \in call[c].left,
               call' = [call EXCEPT ![c] = [pc |-> "queued", key |-> k, left |-> @.left \ {k}]],
               line' = [line EXCEPT ![k] = Append(@, c)]
        PROVE  /\ LinesFit' /\ line' \in [Keys -> Seq(KeyCalls)] /\ call' \in [KeyCalls -> CallRows]
               /\ call'[c].pc \in {"queued", "failed"} /\ \A d \in KeyCalls \ {c} : call'[d] = call[d]
    BY <1>1, <2>2, LineJoined DEF KeysIInv
  <2> QED
    BY <2>1, <2>2 DEF Reserve
<1>3. KeysTyped'
  BY <1>1, <1>2 DEF KeysIInv, KeysTyped
<1>4. TurnsFit' /\ PausesFit'
  BY <1>1 DEF KeysIInv, TurnsFit, PausesFit, PauseFits
<1>5. SendersFit' /\ EffectsFit'
  BY <1>1, <1>2 DEF KeysIInv, SendersFit, Free, EffectsFit
<1> QED
  BY <1>2, <1>3, <1>4, <1>5 DEF KeysIInv

LEMMA TakeTurnFits ==
  ASSUME KeysIInv, NEW c \in KeyCalls, TakeTurn(c)
  PROVE  KeysIInv'
<1> DEFINE k == call[c].key
           n == clock + Interval
<1> USE DEF KeysIInv
<1>1. UNCHANGED <<clock, line, cooling, rows, effects, turnEnd, turnKnown, asked, pauseKept, keyFaults>>
  BY DEF TakeTurn
<1>2. /\ Waits(c) /\ call[c].pc = "queued" /\ CallGoes(c, "turn") /\ Head(line[k]) = c
      /\ nextStart[k] <= clock /\ nextStart' = [nextStart EXCEPT ![k] = n]
  BY DEF TakeTurn, Waits
<1>3. "turn" \in KeyPlaces /\ k \in Keys /\ n \in Nat
  BY <1>2, TurnHasKey, KeysAssumption DEF KeyPlaces, KeysTyped
<1>4. /\ call' \in [KeyCalls -> CallRows] /\ call'[c].pc = "turn"
      /\ \A d \in KeyCalls \ {c} : call'[d] = call[d]
  BY <1>2, <1>3, CallMoves
<1>5. KeysTyped'
  BY <1>1, <1>2, <1>3, <1>4 DEF KeysTyped
<1>6. LinesFit'
  BY <1>1, <1>2, <1>3, LineKept
<1>7. TurnsFit'
  <2>1. ASSUME NEW m \in Keys PROVE (turnKnown[m] => turnEnd[m] + Interval <= nextStart'[m]) /\ turnEnd[m] <= clock
    <3>1. CASE m = k
      BY <1>2, <1>3, <3>1, KeysAssumption DEF TurnsFit, KeysTyped
    <3>2. CASE m # k
      BY <1>2, <3>2 DEF TurnsFit, KeysTyped
    <3> QED
      BY <3>1, <3>2
  <2> QED
    BY <1>1, <2>1 DEF TurnsFit
<1>8. PausesFit' /\ SendersFit'
  BY <1>1, <1>4 DEF PausesFit, PauseFits, SendersFit, Free
<1>9. EffectsFit'
  BY <1>1, <1>2, <1>3, EffectsKept
<1> QED
  BY <1>5, <1>6, <1>7, <1>8, <1>9

\* What the end of a turn leaves to say about each step that ends one.
LEMMA EndsFit ==
  ASSUME KeysIInv, NEW c \in KeyCalls, InTurn(c), NEW w \in KeyPlaces, CallGoes(c, w), LeaveTurn(c),
         w \in {"next", "failed", "done"},
         w = "next" => call[c].pc \in {"turn", "limited", "denied"},
         w = "done" => call[c].pc = "answered",
         UNCHANGED <<clock, effects>>,
         keyFaults' \in 0..MaxKeyFaults, cooling' \in [Keys -> Nat],
         rows' \in [Tenants -> [Keys -> KeyRows]], asked' \in [Tenants -> [Keys -> Nat]],
         pauseKept' \in [Tenants -> [Keys -> {"row", "memory", "nowhere"}]],
         \A k \in Keys : k # call[c].key => cooling'[k] = cooling[k],
         \A k \in Keys, t \in Tenants : k # call[c].key => asked'[t][k] = asked[t][k] /\ pauseKept'[t][k] = pauseKept[t][k],
         PausesFit'
  PROVE  KeysIInv'
<1> USE DEF KeysIInv
<1>1. call' \in [KeyCalls -> CallRows]
  BY CallMoves
<1>2. LinesFit' /\ line' \in [Keys -> Seq(KeyCalls)]
  BY LineLeft
<1>3. nextStart' \in [Keys -> Nat] /\ turnEnd' \in [Keys -> Int] /\ turnKnown' \in [Keys -> BOOLEAN] /\ TurnsFit'
  BY TurnLeft
<1>4. KeysTyped'
  BY <1>1, <1>2, <1>3 DEF KeysTyped
<1>5. SendersFit'
  BY SendersKept DEF Sending
<1>6. EffectsFit'
  BY EffectsKept
<1> QED
  BY <1>2, <1>3, <1>4, <1>5, <1>6

LEMMA RecheckFits ==
  ASSUME KeysIInv, NEW c \in KeyCalls, Recheck(c)
  PROVE  KeysIInv'
<1> DEFINE k == call[c].key
<1> USE DEF KeysIInv
<1>1. UNCHANGED <<clock, cooling, rows, effects, asked, pauseKept, keyFaults>> /\ call[c].pc = "turn" /\ InTurn(c) /\ Waits(c)
  BY DEF Recheck, InTurn, Waits
<1>2. "next" \in KeyPlaces /\ "send" \in KeyPlaces
  BY DEF KeyPlaces
<1>3. CASE LeaveTurn(c) /\ CallGoes(c, "next")
  <2>1. PausesFit'
    BY <1>1 DEF PausesFit, PauseFits
  <2> QED
    BY <1>1, <1>2, <1>3, <2>1, EndsFit DEF KeysTyped
<1>4. CASE /\ ~(Row(c, k).dead \/ Cooldown(c, k) > clock)
           /\ CallGoes(c, "send") /\ UNCHANGED <<line, nextStart, turnEnd, turnKnown>>
  <2>1. k \in Keys /\ TenantOf[c] \in Tenants
    BY <1>1, TurnHasKey
  <2>2. cooling[k] <= clock /\ rows[TenantOf[c]][k].until <= clock
    <3>1. rows[TenantOf[c]][k] \in KeyRows /\ cooling[k] \in Nat /\ clock \in Nat
      BY <2>1, KeysAssumption DEF KeysTyped
    <3>2. rows[TenantOf[c]][k].until \in Nat
      BY <3>1 DEF KeyRows
    <3>3. ~(Cooldown(c, k) > clock)
      BY <1>4
    <3> QED
      BY <3>1, <3>2, <3>3 DEF Cooldown, Later, Row
  <2>3. Free(TenantOf[c], k)
    <3>1. rows[TenantOf[c]][k] \in KeyRows /\ asked[TenantOf[c]][k] \in Nat /\ cooling[k] \in Nat /\ clock \in Nat
      BY <2>1, KeysAssumption DEF KeysTyped
    <3>2. rows[TenantOf[c]][k].until \in Nat
      BY <3>1 DEF KeyRows
    <3> QED
      BY <2>1, <2>2, <3>1, <3>2 DEF PausesFit, PauseFits, Free
  <2>4. call' \in [KeyCalls -> CallRows]
    BY <1>2, <1>4, CallMoves
  <2>5. KeysTyped'
    BY <1>1, <1>4, <2>4 DEF KeysTyped
  <2>6. Head(line[k]) = c
    BY <1>1, TurnHasKey DEF LinesFit
  <2>7. LinesFit'
    BY <1>1, <1>2, <1>4, <2>6, LineKept DEF Sending
  <2>8. TurnsFit' /\ PausesFit'
    BY <1>1, <1>4 DEF TurnsFit, PausesFit, PauseFits
  <2>9. SendersFit'
    BY <1>1, <1>2, <1>4, <2>2, <2>3, SendersKept
  <2>10. EffectsFit'
    BY <1>1, <1>2, <1>4, EffectsKept
  <2> QED
    BY <2>5, <2>7, <2>8, <2>9, <2>10
<1> QED
  BY <1>3, <1>4 DEF Recheck

LEMMA RequestFits ==
  ASSUME KeysIInv, NEW c \in KeyCalls, SendRequest(c)
  PROVE  KeysIInv'
<1> DEFINE k == call[c].key
<1> USE DEF KeysIInv
<1>1. UNCHANGED <<clock, line, nextStart, cooling, rows, turnEnd, turnKnown, asked, pauseKept, keyFaults>> /\ call[c].pc = "send" /\ InTurn(c) /\ Waits(c)
  BY DEF SendRequest, InTurn, Waits
<1>2. PICK reply \in {"answered", "lost", "limited", "denied"}, done \in BOOLEAN :
         /\ reply = "answered" => done
         /\ reply \in {"limited", "denied"} => ~done
         /\ effects' = [effects EXCEPT ![c] = IF done THEN @ + 1 ELSE @]
         /\ CallGoes(c, reply)
  BY DEF SendRequest
<1> DEFINE n == IF done THEN effects[c] + 1 ELSE effects[c]
<1>3. effects[c] = 0 /\ effects \in [KeyCalls -> Nat]
  BY <1>1 DEF EffectsFit, KeysTyped
<1>4. n \in Nat /\ n <= 1 /\ (reply = "answered" => n = 1) /\ (reply \in {"limited", "denied"} => n = 0)
  BY <1>2, <1>3
<1>5. effects' = [effects EXCEPT ![c] = n]
  BY <1>2
<1> HIDE DEF n
<1>6. reply \in KeyPlaces /\ reply \in Sending
  BY <1>2 DEF KeyPlaces, Sending
<1>7. /\ call' \in [KeyCalls -> CallRows] /\ call'[c].pc = reply
      /\ \A d \in KeyCalls \ {c} : call'[d] = call[d]
  BY <1>2, <1>6, CallMoves
<1>8. KeysTyped'
  BY <1>1, <1>3, <1>4, <1>5, <1>7 DEF KeysTyped
<1>9. Head(line[k]) = c
  BY <1>1, TurnHasKey DEF LinesFit
<1>10. LinesFit'
  BY <1>1, <1>2, <1>6, <1>9, LineKept
<1>11. TurnsFit' /\ PausesFit'
  BY <1>1 DEF TurnsFit, PausesFit, PauseFits
<1>12. Free(TenantOf[c], k)
  BY <1>1 DEF SendersFit, Free
<1>13. SendersFit'
  BY <1>1, <1>2, <1>6, <1>12, SendersKept
<1>14. effects'[c] = n /\ \A d \in KeyCalls \ {c} : effects'[d] = effects[d]
  BY <1>3, <1>5
<1>15. EffectsFit'
  <2>1. ASSUME NEW d \in KeyCalls
        PROVE  /\ effects'[d] <= 1
               /\ call'[d].pc \in {"idle", "next", "queued", "turn", "send", "limited", "denied"} => effects'[d] = 0
               /\ call'[d].pc \in {"answered", "done"} => effects'[d] = 1
    <3>1. CASE d = c
      BY <1>4, <1>6, <1>7, <1>14, <3>1 DEF Sending
    <3>2. CASE d # c
      BY <1>7, <1>14, <3>2 DEF EffectsFit
    <3> QED
      BY <3>1, <3>2
  <2> QED
    BY <2>1 DEF EffectsFit
<1> QED
  BY <1>8, <1>10, <1>11, <1>13, <1>15

\* The steps that end a turn and leave the rows and the pauses alone.
LEMMA QuietEndFits ==
  ASSUME KeysIInv, NEW c \in KeyCalls, Refused(c) \/ Lost(c)
  PROVE  KeysIInv'
<1>1. InTurn(c) /\ LeaveTurn(c) /\ CallGoes(c, "failed") /\ UNCHANGED <<clock, cooling, rows, effects, asked, pauseKept, keyFaults>>
  BY DEF Refused, Lost, InTurn
<1>2. PausesFit' /\ "failed" \in KeyPlaces
  BY <1>1 DEF KeysIInv, PausesFit, PauseFits, KeyPlaces
<1> QED
  BY <1>1, <1>2, EndsFit DEF KeysIInv, KeysTyped

LEMMA AnsweredFits ==
  ASSUME KeysIInv, NEW c \in KeyCalls, Answered(c)
  PROVE  KeysIInv'
<1> DEFINE k == call[c].key
           row == [Row(c, k) EXCEPT !.until = 0]
           w == IF StoreFailed THEN "failed" ELSE "done"
<1> USE DEF KeysIInv
<1>1. call[c].pc = "answered" /\ InTurn(c) /\ Waits(c) /\ LeaveTurn(c) /\ CallGoes(c, w) /\ UNCHANGED <<clock, effects, asked, pauseKept>>
  BY DEF Answered, InTurn, Waits
<1>2. k \in Keys /\ TenantOf[c] \in Tenants /\ clock \in Nat
  BY <1>1, TurnHasKey, KeysAssumption DEF KeysTyped
<1>3. rows[TenantOf[c]][k] \in KeyRows
  BY <1>2 DEF KeysTyped
<1>4. row \in KeyRows /\ row.until = 0
  BY <1>3 DEF Row, KeyRows
<1>5. Stored(c, row)
  BY DEF Answered
<1> HIDE DEF row
<1>6. /\ rows' \in [Tenants -> [Keys -> KeyRows]] /\ keyFaults' \in 0..MaxKeyFaults
      /\ \A t \in Tenants, m \in Keys : t # TenantOf[c] \/ m # k \/ StoreFailed => rows'[t][m] = rows[t][m]
      /\ ~StoreFailed => rows'[TenantOf[c]][k] = row
  BY <1>2, <1>4, <1>5, StoredRow
<1>7. w \in KeyPlaces /\ w \in {"failed", "done"}
  BY DEF KeyPlaces
<1> HIDE DEF w
<1>8. cooling' = IF StoreFailed THEN cooling ELSE [cooling EXCEPT ![k] = 0]
  BY DEF Answered
<1>9. cooling' \in [Keys -> Nat] /\ \A m \in Keys : m # k => cooling'[m] = cooling[m]
  BY <1>8 DEF KeysTyped
<1>10. cooling[k] <= clock /\ (asked[TenantOf[c]][k] <= clock \/ pauseKept[TenantOf[c]][k] = "nowhere")
  BY <1>1 DEF SendersFit, Free
<1>11. PausesFit'
  <2>1. ASSUME NEW t \in Tenants, NEW m \in Keys
        PROVE  PauseFits(t, m)'
    <3>1. CASE StoreFailed \/ m # k
      BY <1>1, <1>6, <1>8, <1>9, <3>1 DEF PausesFit, PauseFits
    <3>2. CASE ~StoreFailed /\ m = k /\ t = TenantOf[c]
      BY <1>1, <1>10, <3>2 DEF PauseFits
    <3>3. CASE ~StoreFailed /\ m = k /\ t # TenantOf[c]
      <4>1. PauseFits(t, k)
        BY <1>2 DEF PausesFit
      <4>2. asked[t][k] \in Nat /\ cooling[k] \in Nat
        BY <1>2 DEF KeysTyped
      <4>3. asked[t][k] <= clock \/ pauseKept[t][k] = "nowhere" \/ asked[t][k] <= rows[t][k].until
        BY <1>2, <1>10, <4>1, <4>2 DEF PauseFits
      <4> QED
        BY <1>1, <1>2, <1>6, <3>3, <4>3 DEF PauseFits
    <3> QED
      BY <3>1, <3>2, <3>3
  <2> QED
    BY <1>1, <2>1 DEF PausesFit, PauseFits
<1>12. /\ asked' \in [Tenants -> [Keys -> Nat]] /\ pauseKept' \in [Tenants -> [Keys -> {"row", "memory", "nowhere"}]]
       /\ \A m \in Keys, t \in Tenants : m # k => asked'[t][m] = asked[t][m] /\ pauseKept'[t][m] = pauseKept[t][m]
  BY <1>1 DEF KeysTyped
<1> QED
  BY <1>1, <1>6, <1>7, <1>9, <1>11, <1>12, EndsFit

LEMMA LimitedFits ==
  ASSUME KeysIInv, NEW c \in KeyCalls, Limited(c)
  PROVE  KeysIInv'
<1> DEFINE k == call[c].key
           w == IF StoreFailed THEN "failed" ELSE "next"
<1> USE DEF KeysIInv
<1>1. call[c].pc = "limited" /\ InTurn(c) /\ Waits(c) /\ LeaveTurn(c) /\ CallGoes(c, w) /\ UNCHANGED <<clock, effects>>
  BY DEF Limited, InTurn, Waits
<1>2. k \in Keys /\ TenantOf[c] \in Tenants /\ clock \in Nat
  BY <1>1, TurnHasKey, KeysAssumption DEF KeysTyped
<1>3. PICK pause \in Pauses :
         /\ cooling' = [cooling EXCEPT ![k] = clock + pause]
         /\ Stored(c, [Row(c, k) EXCEPT !.until = clock + pause])
         /\ asked' = [asked EXCEPT ![TenantOf[c]][k] = clock + pause]
         /\ pauseKept' = [pauseKept EXCEPT ![TenantOf[c]][k] = IF StoreFailed THEN "memory" ELSE "row"]
  BY DEF Limited
<1> DEFINE n == clock + pause
           row == [Row(c, k) EXCEPT !.until = n]
           place == IF StoreFailed THEN "memory" ELSE "row"
<1>4. n \in Nat
  BY <1>2, KeysAssumption
<1>5. rows[TenantOf[c]][k] \in KeyRows
  BY <1>2 DEF KeysTyped
<1>6. /\ cooling' = [cooling EXCEPT ![k] = n] /\ Stored(c, row) /\ asked' = [asked EXCEPT ![TenantOf[c]][k] = n]
      /\ pauseKept' = [pauseKept EXCEPT ![TenantOf[c]][k] = place]
      /\ place \in {"row", "memory"} /\ (place = "row" => ~StoreFailed)
  BY <1>3
<1> HIDE DEF place
<1> HIDE DEF n
<1>7. row \in KeyRows /\ row.until = n
  BY <1>4, <1>5 DEF Row, KeyRows
<1> HIDE DEF row
<1>8. /\ rows' \in [Tenants -> [Keys -> KeyRows]] /\ keyFaults' \in 0..MaxKeyFaults
      /\ \A t \in Tenants, m \in Keys : t # TenantOf[c] \/ m # k \/ StoreFailed => rows'[t][m] = rows[t][m]
      /\ ~StoreFailed => rows'[TenantOf[c]][k] = row
  BY <1>2, <1>6, <1>7, StoredRow
<1>9. w \in KeyPlaces /\ w \in {"failed", "next"}
  BY DEF KeyPlaces
<1> HIDE DEF w
<1>10. cooling' \in [Keys -> Nat] /\ cooling'[k] = n /\ \A m \in Keys : m # k => cooling'[m] = cooling[m]
  BY <1>2, <1>4, <1>6 DEF KeysTyped
<1>11. /\ asked' \in [Tenants -> [Keys -> Nat]] /\ asked'[TenantOf[c]][k] = n
       /\ \A m \in Keys, t \in Tenants : m # k \/ t # TenantOf[c] => asked'[t][m] = asked[t][m]
  BY <1>2, <1>4, <1>6 DEF KeysTyped
<1>16. /\ pauseKept' \in [Tenants -> [Keys -> {"row", "memory", "nowhere"}]] /\ pauseKept'[TenantOf[c]][k] = place
       /\ \A m \in Keys, t \in Tenants : m # k \/ t # TenantOf[c] => pauseKept'[t][m] = pauseKept[t][m]
  BY <1>2, <1>6 DEF KeysTyped
<1>12. cooling[k] <= clock
  BY <1>1 DEF SendersFit, Free
<1>13. PausesFit'
  <2>1. ASSUME NEW t \in Tenants, NEW m \in Keys
        PROVE  PauseFits(t, m)'
    <3>1. CASE m # k
      BY <1>1, <1>8, <1>10, <1>11, <1>16, <3>1 DEF PausesFit, PauseFits
    <3>2. CASE m = k /\ t = TenantOf[c]
      BY <1>4, <1>6, <1>7, <1>8, <1>10, <1>11, <1>16, <3>2 DEF PauseFits
    <3>3. CASE m = k /\ t # TenantOf[c]
      <4>1. PauseFits(t, k)
        BY <1>2 DEF PausesFit
      <4>2. asked[t][k] \in Nat /\ cooling[k] \in Nat
        BY <1>2 DEF KeysTyped
      <4>3. asked[t][k] <= clock \/ pauseKept[t][k] = "nowhere" \/ asked[t][k] <= rows[t][k].until
        BY <1>2, <1>12, <4>1, <4>2 DEF PauseFits
      <4> QED
        BY <1>1, <1>2, <1>8, <1>11, <1>16, <3>3, <4>3 DEF PauseFits
    <3> QED
      BY <3>1, <3>2, <3>3
  <2> QED
    BY <1>1, <2>1 DEF PausesFit, PauseFits
<1>14. \A m \in Keys, t \in Tenants : m # k => asked'[t][m] = asked[t][m] /\ pauseKept'[t][m] = pauseKept[t][m]
  BY <1>11, <1>16
<1>15. asked' \in [Tenants -> [Keys -> Nat]]
  BY <1>11
<1> QED
  BY <1>1, <1>8, <1>9, <1>10, <1>13, <1>14, <1>15, <1>16, EndsFit

LEMMA DeniedFits ==
  ASSUME KeysIInv, NEW c \in KeyCalls, Denied(c)
  PROVE  KeysIInv'
<1> DEFINE k == call[c].key
           row == [Row(c, k) EXCEPT !.dead = TRUE]
           w == IF StoreFailed THEN "failed" ELSE "next"
<1> USE DEF KeysIInv
<1>1. call[c].pc = "denied" /\ InTurn(c) /\ Waits(c) /\ LeaveTurn(c) /\ CallGoes(c, w) /\ UNCHANGED <<clock, cooling, effects, asked, pauseKept>>
  BY DEF Denied, InTurn, Waits
<1>2. k \in Keys /\ TenantOf[c] \in Tenants /\ clock \in Nat
  BY <1>1, TurnHasKey, KeysAssumption DEF KeysTyped
<1>3. rows[TenantOf[c]][k] \in KeyRows
  BY <1>2 DEF KeysTyped
<1>4. row \in KeyRows /\ row.until = rows[TenantOf[c]][k].until
  BY <1>3 DEF Row, KeyRows
<1>5. Stored(c, row)
  BY DEF Denied
<1> HIDE DEF row
<1>6. /\ rows' \in [Tenants -> [Keys -> KeyRows]] /\ keyFaults' \in 0..MaxKeyFaults
      /\ \A t \in Tenants, m \in Keys : t # TenantOf[c] \/ m # k \/ StoreFailed => rows'[t][m] = rows[t][m]
      /\ ~StoreFailed => rows'[TenantOf[c]][k] = row
  BY <1>2, <1>4, <1>5, StoredRow
<1>7. w \in KeyPlaces /\ w \in {"failed", "next"}
  BY DEF KeyPlaces
<1> HIDE DEF w
<1>8. \A t \in Tenants, m \in Keys : rows'[t][m].until = rows[t][m].until
  BY <1>4, <1>6
<1>9. PausesFit'
  BY <1>1, <1>8 DEF PausesFit, PauseFits
<1>10. /\ cooling' \in [Keys -> Nat] /\ asked' \in [Tenants -> [Keys -> Nat]]
       /\ pauseKept' \in [Tenants -> [Keys -> {"row", "memory", "nowhere"}]]
  BY <1>1 DEF KeysTyped
<1> QED
  BY <1>1, <1>6, <1>7, <1>9, <1>10, EndsFit

LEMMA ClockFits ==
  ASSUME KeysIInv, ClockTicks
  PROVE  KeysIInv'
<1> USE DEF KeysIInv
<1>1. /\ UNCHANGED <<line, nextStart, cooling, rows, call, effects, turnEnd, turnKnown, asked, pauseKept, keyFaults>>
      /\ clock' = clock + 1 /\ clock' \in 0..MaxClock /\ clock \in Nat
  BY KeysAssumption DEF ClockTicks, KeysTyped
<1>2. KeysTyped' /\ LinesFit' /\ EffectsFit'
  BY <1>1 DEF KeysTyped, LinesFit, EffectsFit, Waits, InTurn
<1>3. TurnsFit'
  BY <1>1 DEF TurnsFit, KeysTyped
<1>4. PausesFit'
  BY <1>1 DEF PausesFit, PauseFits, KeysTyped
<1>5. SendersFit'
  <2>1. ASSUME NEW c \in KeyCalls, call[c].pc \in Sending
        PROVE  Free(TenantOf[c], call[c].key)'
    <3>1. call[c].key \in Keys /\ TenantOf[c] \in Tenants
      BY <2>1, TurnHasKey DEF Waits, InTurn, Sending
    <3>2. cooling[call[c].key] \in Nat /\ asked[TenantOf[c]][call[c].key] \in Nat
      BY <3>1 DEF KeysTyped
    <3> QED
      BY <1>1, <2>1, <3>1, <3>2 DEF SendersFit, Free, Sending
  <2> QED
    BY <1>1, <2>1 DEF SendersFit, Free, Sending
<1> QED
  BY <1>2, <1>3, <1>4, <1>5

LEMMA KeysRestartFits ==
  ASSUME KeysIInv, KeysRestart
  PROVE  KeysIInv'
<1> USE DEF KeysIInv
<1>1. UNCHANGED <<clock, rows, effects, asked>> /\ keyFaults' \in 0..MaxKeyFaults /\ clock \in Nat
  BY KeysAssumption DEF KeysRestart, KeysTyped
<1>2. ASSUME NEW c \in KeyCalls
      PROVE  call'[c] \in CallRows /\ ((call'[c] = call[c] /\ call[c].pc = "idle") \/ call'[c].pc = "failed")
    BY DEF KeysRestart, KeysTyped, CallRows
<1>3. call' \in [KeyCalls -> CallRows]
  BY <1>2 DEF KeysRestart
<1>4. line' \in [Keys -> Seq(KeyCalls)] /\ \A k \in Keys : line'[k] = <<>>
  BY DEF KeysRestart
<1>5. nextStart' \in [Keys -> Nat] /\ cooling' \in [Keys -> Nat] /\ turnKnown' \in [Keys -> BOOLEAN]
  BY KeysAssumption DEF KeysRestart
<1>6. turnEnd' \in [Keys -> Int] /\ \A k \in Keys : turnEnd'[k] \in {clock, turnEnd[k]} /\ ~turnKnown'[k]
  BY <1>1 DEF KeysRestart, KeysTyped
<1>7. /\ pauseKept' \in [Tenants -> [Keys -> {"row", "memory", "nowhere"}]]
      /\ \A t \in Tenants, k \in Keys :
           pauseKept'[t][k] = IF pauseKept[t][k] = "row" THEN "row" ELSE "nowhere"
  BY DEF KeysRestart
<1>8. KeysTyped'
  BY <1>1, <1>3, <1>4, <1>5, <1>6, <1>7 DEF KeysTyped
<1>9. \A c \in KeyCalls : ~Waits(c)' /\ ~InTurn(c)'
  BY <1>2 DEF Waits, InTurn
<1>10. LinesFit'
  BY <1>4, <1>9 DEF LinesFit
<1>11. TurnsFit'
  BY <1>1, <1>6 DEF TurnsFit
<1>12. PausesFit'
  BY <1>1, <1>7 DEF PausesFit, PauseFits
<1>13. SendersFit'
  BY <1>9 DEF SendersFit, InTurn
<1>14. EffectsFit'
  BY <1>1, <1>2 DEF EffectsFit
<1> QED
  BY <1>8, <1>10, <1>11, <1>12, <1>13, <1>14

\* What a restart and a reservation do to the calls.
LEMMA CallsCut ==
  ASSUME KeysTyped, KeysRestart, NEW c \in KeyCalls
  PROVE  /\ call'[c].pc \in {"idle", "failed"}
         /\ call'[c].key = call[c].key
<1>1. call[c] \in CallRows
  BY DEF KeysTyped
<1>2. call'[c] = IF call[c].pc = "idle" THEN call[c] ELSE [call[c] EXCEPT !.pc = "failed"]
  BY DEF KeysRestart
<1> QED
  BY <1>1, <1>2 DEF CallRows

LEMMA ReserveMoves ==
  ASSUME KeysTyped, NEW c \in KeyCalls, Reserve(c)
  PROVE  call'[c].pc \in {"queued", "failed"} /\ \A d \in KeyCalls \ {c} : call'[d] = call[d]
<1>1. CASE CallGoes(c, "failed")
  BY <1>1, CallMoves DEF KeyPlaces
<1>2. ASSUME NEW k, call' = [call EXCEPT ![c] = [pc |-> "queued", key |-> k, left |-> @.left \ {k}]]
      PROVE  call'[c].pc \in {"queued", "failed"} /\ \A d \in KeyCalls \ {c} : call'[d] = call[d]
  BY <1>2 DEF KeysTyped
<1> QED
  BY <1>1, <1>2 DEF Reserve

LEMMA KeysStepFits == KeysIInv /\ [KeysNext]_keyVars => KeysIInv'
<1> SUFFICES ASSUME KeysIInv, [KeysNext]_keyVars PROVE KeysIInv'
  OBVIOUS
<1>1. CASE UNCHANGED keyVars
  BY <1>1 DEF keyVars, KeysIInv, KeysTyped, LinesFit, TurnsFit, PausesFit, PauseFits, SendersFit, Free, EffectsFit, Waits, InTurn
<1> QED
  BY <1>1, BeginsFits, ReserveFits, TakeTurnFits, RecheckFits, RequestFits, QuietEndFits, AnsweredFits,
     LimitedFits, DeniedFits, ClockFits, KeysRestartFits DEF KeysNext

\* Calls on the tenants' keys (withTenantKey and the limiter): a line of the
\* limiter holds the calls that wait for its key or have it, and no failover, no
\* restart and no failure of the database makes a call be carried out twice or
\* report success without having been carried out.
THEOREM KeysSendOnce == KeysSpec => [](KeysTypeOK /\ FailoverSendsOnce)
<1>1. KeysInit => KeysIInv
  BY KeysInitFits
<1>2. KeysIInv /\ [KeysNext]_keyVars => KeysIInv'
  BY KeysStepFits
<1>3. KeysIInv => KeysTypeOK /\ FailoverSendsOnce
  BY LinesAreFull DEF KeysIInv, EffectsFit, FailoverSendsOnce
<1> QED
  BY <1>1, <1>2, <1>3, PTL DEF KeysSpec

\* The provider's limit (KeyRateLimiter and the cooldowns): for any number of
\* workspaces that share any keys, a turn of a key starts only when nobody has
\* it and an interval after the last one ended, the first turn after a restart
\* excepted, and no request leaves before the pause its workspace was asked for is
\* over, over restarts too if the database took the pause.
THEOREM LimitKept == KeysSpec => ProviderLimitKept
<1> DEFINE Kept(c) ==
      LET k == call'[c].key IN
       /\ ~InTurn(c) /\ InTurn(c)' =>
            /\ turnKnown[k] => clock >= turnEnd[k] + Interval
            /\ \A d \in KeyCalls \ {c} : InTurn(d) => call[d].key # k
       /\ call[c].pc = "send" /\ call'[c].pc \in {"answered", "lost", "limited", "denied"} =>
            clock >= asked[TenantOf[c]][k] \/ pauseKept[TenantOf[c]][k] = "nowhere"
<1>1. KeysInit => KeysIInv
  BY KeysInitFits
<1>2. KeysIInv /\ [KeysNext]_keyVars => KeysIInv'
  BY KeysStepFits
<1>3. KeysIInv /\ [KeysNext]_keyVars => [\A c \in KeyCalls : Kept(c)]_keyVars
  <2> SUFFICES ASSUME KeysIInv, KeysNext, NEW c \in KeyCalls PROVE Kept(c)
    OBVIOUS
  <2> USE DEF KeysIInv
  <2>1. ASSUME ~InTurn(c), InTurn(c)'
        PROVE  /\ turnKnown[call'[c].key] => clock >= turnEnd[call'[c].key] + Interval
               /\ \A d \in KeyCalls \ {c} : InTurn(d) => call[d].key # call'[c].key
    <3>1. TakeTurn(c)
      <4>1. ASSUME NEW d \in KeyCalls, NEW w \in KeyPlaces, CallGoes(d, w), w # "turn" \/ d # c,
                   w \in Sending => InTurn(d)
            PROVE  FALSE
        <5>1. call'[d].pc = w /\ \A e \in KeyCalls \ {d} : call'[e] = call[e]
          BY <4>1, CallMoves
        <5>2. d = c
          BY <2>1, <5>1 DEF InTurn
        <5> QED
          BY <2>1, <4>1, <5>1, <5>2 DEF InTurn, Sending
      <4>2. ~ClockTicks /\ ~KeysRestart
        BY <2>1, CallsCut DEF ClockTicks, InTurn
      <4>3. ASSUME NEW d \in KeyCalls, CallBegins(d) PROVE FALSE
        <5>1. CASE d = c
          BY <2>1, <4>3, <5>1 DEF CallBegins, InTurn, KeysTyped
        <5>2. CASE d # c
          BY <2>1, <4>3, <5>2 DEF CallBegins, InTurn, KeysTyped
        <5> QED
          BY <5>1, <5>2
      <4>4. ASSUME NEW d \in KeyCalls, Reserve(d) PROVE FALSE
        BY <2>1, <4>4, ReserveMoves DEF InTurn
      <4>5. ASSUME NEW d \in KeyCalls, Recheck(d) PROVE FALSE
        <5>1. InTurn(d) /\ "next" \in KeyPlaces /\ "send" \in KeyPlaces
          BY <4>5 DEF Recheck, InTurn, KeyPlaces
        <5> QED
          BY <4>1, <4>5, <5>1 DEF Recheck
      <4>6. ASSUME NEW d \in KeyCalls, SendRequest(d) PROVE FALSE
        <5>1. InTurn(d) /\ {"answered", "lost", "limited", "denied"} \subseteq KeyPlaces \ {"turn"}
          BY <4>6 DEF SendRequest, InTurn, KeyPlaces
        <5> QED
          BY <4>1, <4>6, <5>1 DEF SendRequest
      <4>7. ASSUME NEW d \in KeyCalls, Refused(d) \/ Answered(d) \/ Lost(d) \/ Limited(d) \/ Denied(d) PROVE FALSE
        <5>1. PICK w \in {"failed", "done", "next"} : CallGoes(d, w)
          BY <4>7 DEF Refused, Answered, Lost, Limited, Denied
        <5>2. w \in KeyPlaces /\ w \notin Sending /\ w # "turn"
          BY DEF KeyPlaces, Sending
        <5> QED
          BY <4>1, <5>1, <5>2
      <4>8. ASSUME NEW d \in KeyCalls, TakeTurn(d), d # c PROVE FALSE
        <5>1. CallGoes(d, "turn") /\ "turn" \in KeyPlaces /\ "turn" \notin Sending
          BY <4>8 DEF TakeTurn, KeyPlaces, Sending
        <5> QED
          BY <4>1, <4>8, <5>1
      <4> QED
        BY <4>2, <4>3, <4>4, <4>5, <4>6, <4>7, <4>8 DEF KeysNext
    <3> DEFINE k == call[c].key
    <3>2. Waits(c) /\ Head(line[k]) = c /\ nextStart[k] <= clock /\ CallGoes(c, "turn") /\ "turn" \in KeyPlaces
      BY <3>1 DEF TakeTurn, Waits, KeyPlaces
    <3>3. call'[c].key = k /\ k \in Keys /\ line[k] \in Seq(KeyCalls) /\ line[k] # <<>> /\ line[k][1] = c
      BY <3>2, CallMoves, TurnHasKey
    <3>4. /\ turnKnown[k] => turnEnd[k] + Interval <= nextStart[k]
          /\ turnEnd[k] \in Int /\ nextStart[k] \in Nat /\ clock \in Nat /\ Interval \in Nat
      BY <3>3, KeysAssumption DEF TurnsFit, KeysTyped
    <3>5. \A d \in KeyCalls \ {c} : InTurn(d) => call[d].key # k
      BY <3>3 DEF LinesFit
    <3> QED
      BY <3>2, <3>3, <3>4, <3>5
  <2>2. ASSUME call[c].pc = "send", call'[c].pc \in {"answered", "lost", "limited", "denied"}
        PROVE  clock >= asked[TenantOf[c]][call'[c].key] \/ pauseKept[TenantOf[c]][call'[c].key] = "nowhere"
    <3>1. call'[c].key = call[c].key
      <4>1. ASSUME NEW d \in KeyCalls, NEW w \in KeyPlaces, CallGoes(d, w)
            PROVE  call'[c].key = call[c].key
        <5>1. call'[d].key = call[d].key /\ \A e \in KeyCalls \ {d} : call'[e] = call[e]
          BY <4>1, CallMoves
        <5> QED
          BY <5>1
      <4>2. ClockTicks \/ KeysRestart => call'[c].key = call[c].key
        BY CallsCut DEF ClockTicks
      <4>3. ASSUME NEW d \in KeyCalls, CallBegins(d) \/ Reserve(d) PROVE call'[c].key = call[c].key
        <5>1. d # c /\ call'[c] = call[c]
          BY <2>2, <4>3, ReserveMoves DEF CallBegins, Reserve, KeysTyped
        <5> QED
          BY <5>1
      <4>4. ASSUME NEW d \in KeyCalls, ~CallBegins(d), ~Reserve(d),
                   TakeTurn(d) \/ Recheck(d) \/ Refused(d) \/ SendRequest(d) \/ Answered(d) \/ Lost(d) \/ Limited(d) \/ Denied(d)
            PROVE  call'[c].key = call[c].key
        <5>1. \E w \in KeyPlaces : CallGoes(d, w)
          BY <4>4 DEF KeyPlaces, TakeTurn, Recheck, Refused, SendRequest, Answered, Lost, Limited, Denied
        <5> QED
          BY <4>1, <5>1
      <4> QED
        BY <4>2, <4>3, <4>4 DEF KeysNext
    <3>2. call[c].key \in Keys /\ TenantOf[c] \in Tenants
      BY <2>2, TurnHasKey DEF InTurn, Waits
    <3>3. asked[TenantOf[c]][call[c].key] \in Nat /\ clock \in Nat
      BY <3>2, KeysAssumption DEF KeysTyped
    <3> QED
      BY <2>2, <3>1, <3>3 DEF SendersFit, Free
  <2> QED
    BY <2>1, <2>2
<1> QED
  BY <1>1, <1>2, <1>3, PTL DEF KeysSpec, ProviderLimitKept

(***************************************************************************)
(* The power state of a phone.                                             *)
(***************************************************************************)

\* A status was true of the phone at a tick or later, and by now.
WasTrue(status, from) == from >= 1 /\ \E t \in from..fClock : status \in powerAt[t]

\* An observation is of the tick in which it was begun or of a later one.
ReadingFits(reading) ==
  /\ reading.at <= fClock
  /\ reading.pc # "idle" => reading.at >= 1
  /\ reading.status # Unknown => WasTrue(reading.status, reading.at)

FleetIInv ==
  /\ FleetTypeOK
  /\ power \in powerAt[fClock]
  /\ ReadingFits(scan) /\ ReadingFits(check)
  /\ dev.status # Unknown => WasTrue(dev.status, dev.at)

-----------------------------------------------------------------------------
LEMMA NotReadFits ==
  /\ NotRead \in Readings /\ NotRead.pc = "idle" /\ NotRead.status = Unknown /\ NotRead.at = 0
BY DEF NotRead, Readings, Statuses, Unknown, Powers

LEMMA FleetInitFits == FleetInit => FleetIInv
<1> SUFFICES ASSUME FleetInit PROVE FleetIInv
  OBVIOUS
<1>1. fClock = 1 /\ 1 \in 1..MaxFleetClock /\ power \in Powers /\ changes \in 0..MaxPowerChanges
  BY FleetAssumption DEF FleetInit
<1>2. powerAt \in [1..MaxFleetClock -> SUBSET Powers] /\ power \in powerAt[fClock]
  BY <1>1 DEF FleetInit
<1>3. dev \in DeviceRows /\ dev.at = 0 /\ dev.status = Unknown
  BY DEF FleetInit, DeviceRows, Statuses
<1>4. scan = NotRead /\ check = NotRead /\ event = Nothing /\ batch = Nothing
  BY DEF FleetInit
<1>5. FleetTypeOK
  BY <1>1, <1>2, <1>3, <1>4, NotReadFits DEF FleetTypeOK
<1>6. ReadingFits(scan) /\ ReadingFits(check)
  BY <1>1, <1>4, NotReadFits DEF ReadingFits
<1> QED
  BY <1>2, <1>3, <1>5, <1>6 DEF FleetIInv

\* The clock and the phone only add to the history.
LEMMA HistoryGrows ==
  ASSUME FleetTypeOK, fClock' \in {fClock, fClock + 1},
         \A t \in 1..fClock : powerAt[t] \subseteq powerAt'[t],
         NEW status, NEW from \in Nat, WasTrue(status, from)
  PROVE  WasTrue(status, from)'
<1>1. PICK t \in from..fClock : status \in powerAt[t]
  BY DEF WasTrue
<1>2. fClock \in Nat /\ t \in 1..fClock /\ t \in from..fClock'
  BY <1>1 DEF FleetTypeOK, WasTrue
<1> QED
  BY <1>1, <1>2 DEF WasTrue

\* Steps of the surroundings.
LEMMA SurroundingsFit ==
  ASSUME FleetIInv, PowerChanges \/ FleetClockTicks
  PROVE  FleetIInv'
<1> USE DEF FleetIInv
<1>1. UNCHANGED <<dev, event, scan, check, batch>>
  BY DEF PowerChanges, FleetClockTicks
<1>2. fClock' \in {fClock, fClock + 1} /\ fClock' \in 1..MaxFleetClock /\ fClock \in Nat /\ fClock' >= fClock
  BY FleetAssumption DEF PowerChanges, FleetClockTicks, FleetTypeOK
<1>3. power' \in Powers /\ changes' \in 0..MaxPowerChanges
  BY FleetAssumption DEF PowerChanges, FleetClockTicks, FleetTypeOK
<1>4. powerAt' \in [1..MaxFleetClock -> SUBSET Powers] /\ power' \in powerAt'[fClock']
      /\ \A t \in 1..fClock : powerAt[t] \subseteq powerAt'[t]
  <2>1. CASE PowerChanges
    <3>1. powerAt' = [powerAt EXCEPT ![fClock] = @ \cup {power'}] /\ fClock' = fClock
      BY <2>1 DEF PowerChanges
    <3> QED
      BY <1>3, <3>1 DEF FleetTypeOK
  <2>2. CASE FleetClockTicks
    <3>1. powerAt' = [powerAt EXCEPT ![fClock'] = {power}] /\ fClock' = fClock + 1 /\ power' = power
      BY <2>2 DEF FleetClockTicks
    <3> QED
      BY <1>2, <3>1 DEF FleetTypeOK
  <2> QED
    BY <2>1, <2>2
<1>5. dev.at \in Nat /\ scan.at \in Nat /\ check.at \in Nat
  BY DEF FleetTypeOK, DeviceRows, Readings
<1>6. FleetTypeOK'
  BY <1>1, <1>2, <1>3, <1>4, <1>5 DEF FleetTypeOK
<1>7. ReadingFits(scan)'
  BY <1>1, <1>2, <1>4, <1>5, HistoryGrows DEF ReadingFits
<1>8. ReadingFits(check)'
  BY <1>1, <1>2, <1>4, <1>5, HistoryGrows DEF ReadingFits
<1>9. dev'.status # Unknown => WasTrue(dev.status, dev.at)'
  BY <1>1, <1>2, <1>4, <1>5, HistoryGrows
<1> QED
  BY <1>4, <1>6, <1>7, <1>8, <1>9

\* Beginning and reading: what is read is true of the phone as it is.
LEMMA ReadingMoves ==
  ASSUME FleetIInv, ScanBegins \/ ScanReads \/ ScanReadsRows \/ CheckBegins \/ CheckReads \/ FleetRestarts
  PROVE  FleetIInv'
<1> USE DEF FleetIInv
<1>1. UNCHANGED <<fClock, power, powerAt, changes, dev, event>>
  BY DEF ScanBegins, ScanReads, ScanReadsRows, CheckBegins, CheckReads, FleetRestarts, OnlyScan
<1>2. batch' \in Statuses \cup {Nothing}
  BY DEF ScanBegins, ScanReads, ScanReadsRows, CheckBegins, CheckReads, FleetRestarts, OnlyScan, FleetTypeOK
<1>3. fClock \in Nat /\ fClock >= 1 /\ power \in Powers
  BY FleetAssumption DEF FleetTypeOK
<1>4. ASSUME NEW r, r = NotRead PROVE r \in Readings /\ ReadingFits(r)
  BY <1>3, <1>4, NotReadFits DEF ReadingFits
<1>5. ASSUME NEW r, NEW stage \in {"pages", "request"}, r = [NotRead EXCEPT !.pc = stage, !.at = fClock]
      PROVE  r \in Readings /\ ReadingFits(r)
  <2>1. fClock \in Nat /\ fClock <= fClock
    BY <1>3
  <2>2. r.pc = stage /\ r.at = fClock /\ r.status = Unknown
    BY <1>5 DEF NotRead
  <2>3. r \in Readings
    BY <1>5, <2>1 DEF NotRead, Readings, Statuses, Unknown, Powers
  <2> QED
    BY <1>3, <2>1, <2>2, <2>3 DEF ReadingFits
<1>6. ASSUME NEW r, NEW s \in Readings, ReadingFits(s), s.pc # "idle", NEW stage \in {"rows", "store"}, NEW status \in Observations, NEW on \in BOOLEAN,
             r = [s EXCEPT !.pc = stage, !.status = status, !.on = on]
      PROVE  r \in Readings /\ ReadingFits(r)
  <2>1. r.pc = stage /\ r.status = status /\ r.at = s.at /\ s.at \in Nat /\ s.at >= 1 /\ s.at <= fClock
    BY <1>6 DEF Readings, ReadingFits
  <2>2. r \in Readings
    BY <1>3, <1>6 DEF Readings, Observations, Statuses
  <2>3. status # Unknown => WasTrue(status, s.at)
    BY <1>3, <2>1 DEF WasTrue, Observations
  <2> QED
    BY <2>1, <2>2, <2>3 DEF ReadingFits
<1>7. scan' \in Readings /\ ReadingFits(scan')
  <2>1. CASE ScanBegins
    BY <1>5, <2>1 DEF ScanBegins
  <2>2. CASE ScanReads
    <3>1. CASE scan' = NotRead
      BY <1>4, <3>1
    <3>2. ASSUME NEW status \in Observations, scan' = [scan EXCEPT !.pc = "rows", !.status = status]
          PROVE  scan' \in Readings /\ ReadingFits(scan')
      <4>1. scan' = [scan EXCEPT !.pc = "rows", !.status = status, !.on = scan.on] /\ scan.on \in BOOLEAN
        BY <3>2 DEF FleetTypeOK, Readings
      <4> QED
        BY <1>6, <2>2, <4>1 DEF ScanReads, FleetTypeOK
    <3> QED
      BY <2>2, <3>1, <3>2 DEF ScanReads
  <2>3. CASE ScanReadsRows
    <3>1. scan' = [scan EXCEPT !.pc = "store", !.on = dev.on, !.was = dev.status, !.seen = dev.seen] /\ scan.pc = "rows"
      BY <2>3 DEF ScanReadsRows
    <3>2. scan' \in Readings /\ scan'.at = scan.at /\ scan'.status = scan.status
      BY <3>1 DEF FleetTypeOK, Readings, DeviceRows
    <3> QED
      BY <3>1, <3>2 DEF ReadingFits
  <2>4. CASE CheckBegins \/ CheckReads
    BY <2>4 DEF CheckBegins, CheckReads, FleetTypeOK
  <2>5. CASE FleetRestarts
    BY <1>4, <2>5 DEF FleetRestarts
  <2> QED
    BY <2>1, <2>2, <2>3, <2>4, <2>5
<1>8. check' \in Readings /\ ReadingFits(check')
  <2>1. CASE CheckBegins
    BY <1>5, <2>1 DEF CheckBegins
  <2>2. CASE CheckReads
    <3>1. CASE check' = NotRead
      BY <1>4, <3>1
    <3>2. ASSUME NEW status \in Observations, check' = [check EXCEPT !.pc = "store", !.status = status, !.on = dev.on]
          PROVE  check' \in Readings /\ ReadingFits(check')
      <4>1. dev.on \in BOOLEAN
        BY DEF FleetTypeOK, DeviceRows
      <4> QED
        BY <1>6, <2>2, <3>2, <4>1 DEF CheckReads, FleetTypeOK
    <3> QED
      BY <2>2, <3>1, <3>2 DEF CheckReads
  <2>3. CASE ScanBegins \/ ScanReads \/ ScanReadsRows
    BY <2>3 DEF ScanBegins, ScanReads, ScanReadsRows, OnlyScan, FleetTypeOK
  <2>4. CASE FleetRestarts
    BY <1>4, <2>4 DEF FleetRestarts
  <2> QED
    BY <2>1, <2>2, <2>3, <2>4
<1>9. FleetTypeOK'
  BY <1>1, <1>2, <1>7, <1>8 DEF FleetTypeOK
<1>10. ReadingFits(scan)' /\ ReadingFits(check)'
  BY <1>1, <1>7, <1>8 DEF ReadingFits, WasTrue
<1> QED
  BY <1>1, <1>9, <1>10 DEF WasTrue

\* A stored row says what the newest observation says.
LEMMA StoringFits ==
  ASSUME FleetIInv, NEW seen \in Readings, ReadingFits(seen)
  PROVE  LET row == Recorded(dev, seen) IN
         /\ row \in DeviceRows /\ row.at <= fClock /\ row.at >= dev.at /\ row.active = dev.active
         /\ row.status # Unknown => WasTrue(row.status, row.at) /\ (row.on <=> row.status = "ON")
<1> USE DEF FleetIInv
<1>1. dev \in DeviceRows /\ dev.at <= fClock /\ fClock \in Nat
  BY FleetAssumption DEF FleetTypeOK
<1>2. CASE dev.at > seen.at
  BY <1>1, <1>2 DEF Recorded, FleetTypeOK, DeviceRows
<1>3. CASE ~(dev.at > seen.at)
  <2> DEFINE row == Recorded(dev, seen)
             s == dev.seen \/ seen.status = "ON"
             o == IF seen.status = Unknown THEN seen.on ELSE seen.status = "ON"
  <2>1. row = [dev EXCEPT !.status = seen.status, !.at = seen.at, !.seen = s, !.on = o]
    BY <1>1, <1>3 DEF Recorded
  <2>2. s \in BOOLEAN /\ o \in BOOLEAN
    BY <1>1 DEF DeviceRows, Readings
  <2>3. seen.status # Unknown => (o <=> seen.status = "ON")
    OBVIOUS
  <2> HIDE DEF row, s, o
  <2>4. row \in DeviceRows /\ row.at = seen.at /\ row.status = seen.status /\ row.on = o /\ row.active = dev.active
    BY <1>1, <2>1, <2>2 DEF DeviceRows, Readings
  <2>5. row.at <= fClock /\ row.at >= dev.at
    BY <1>1, <1>3, <2>4 DEF ReadingFits, Readings, DeviceRows
  <2>6. row.status # Unknown => WasTrue(row.status, row.at) /\ (row.on <=> row.status = "ON")
    BY <2>3, <2>4 DEF ReadingFits
  <2> QED
    BY <2>4, <2>5, <2>6 DEF row
<1> QED
  BY <1>2, <1>3

\* What every step does to the row: nothing, a newer observation, or `active`.
LEMMA RowMoves ==
  ASSUME FleetIInv, ScanStores \/ CheckStores \/ ImportKnown \/ Reregister
  PROVE  /\ UNCHANGED <<fClock, power, powerAt, changes>>
         /\ dev' \in DeviceRows /\ dev'.at <= fClock /\ dev'.at >= dev.at
         /\ dev'.status # Unknown => WasTrue(dev'.status, dev'.at) /\ (dev'.on <=> dev'.status = "ON")
         /\ dev.active /\ ~dev'.active => dev.status = "EXPIRED"
<1> USE DEF FleetIInv
<1>1. dev \in DeviceRows /\ dev.at <= fClock /\ fClock \in Nat /\ dev.at >= dev.at
  BY FleetAssumption DEF FleetTypeOK, DeviceRows
<1>2. CASE ScanStores
  BY <1>2, StoringFits DEF ScanStores, OnlyScan, FleetTypeOK
<1>3. CASE CheckStores
  BY <1>3, StoringFits DEF CheckStores, FleetTypeOK
<1>4. CASE ImportKnown \/ Reregister
  <2>1. dev' = dev \/ (\E a \in BOOLEAN : dev' = [dev EXCEPT !.active = a] /\ (~a => dev.status = "EXPIRED"))
    BY <1>4 DEF ImportKnown, Reregister
  <2>2. ASSUME NEW a \in BOOLEAN, dev' = [dev EXCEPT !.active = a]
        PROVE  dev' \in DeviceRows /\ dev'.at = dev.at /\ dev'.status = dev.status /\ dev'.on = dev.on /\ dev'.active = a
    BY <1>1, <2>2 DEF DeviceRows
  <2>3. /\ dev' \in DeviceRows /\ dev'.at = dev.at /\ dev'.status = dev.status /\ dev'.on = dev.on
        /\ dev.active /\ ~dev'.active => dev.status = "EXPIRED"
    BY <1>1, <2>1, <2>2
  <2> QED
    BY <1>1, <1>4, <2>3 DEF ImportKnown, Reregister, FleetTypeOK
<1> QED
  BY <1>2, <1>3, <1>4

LEMMA RowMovesFit ==
  ASSUME FleetIInv, ScanStores \/ CheckStores \/ ImportKnown \/ Reregister
  PROVE  FleetIInv'
<1> USE DEF FleetIInv
<1>1. /\ UNCHANGED <<fClock, power, powerAt, changes>>
      /\ dev' \in DeviceRows /\ dev'.at <= fClock
      /\ dev'.status # Unknown => WasTrue(dev'.status, dev'.at) /\ (dev'.on <=> dev'.status = "ON")
  BY RowMoves
<1>2. event' \in {Nothing, "ON", "OFF"}
  BY DEF ScanStores, CheckStores, ImportKnown, Reregister, OnlyScan, EventOf, FleetTypeOK
<1>3. batch' \in Statuses \cup {Nothing}
  BY DEF ScanStores, CheckStores, ImportKnown, Reregister, OnlyScan, FleetTypeOK, Readings
<1>4. scan' \in {scan, NotRead} /\ check' \in {check, NotRead}
  BY DEF ScanStores, CheckStores, ImportKnown, Reregister, OnlyScan
<1>5. ReadingFits(NotRead) /\ NotRead \in Readings
  BY NotReadFits, FleetAssumption DEF ReadingFits, FleetTypeOK
<1>6. FleetTypeOK'
  BY <1>1, <1>2, <1>3, <1>4, <1>5 DEF FleetTypeOK
<1>7. ReadingFits(scan') /\ ReadingFits(check')
  BY <1>4, <1>5
<1>8. ReadingFits(scan)' /\ ReadingFits(check)'
  BY <1>1, <1>7 DEF ReadingFits, WasTrue
<1> QED
  BY <1>1, <1>6, <1>8 DEF WasTrue

LEMMA FleetStepFits == FleetIInv /\ [FleetNext]_fleetVars => FleetIInv'
<1> SUFFICES ASSUME FleetIInv, [FleetNext]_fleetVars PROVE FleetIInv'
  OBVIOUS
<1>1. CASE UNCHANGED fleetVars
  BY <1>1 DEF fleetVars, FleetIInv, FleetTypeOK, ReadingFits, WasTrue
<1> QED
  BY <1>1, SurroundingsFit, ReadingMoves, RowMovesFit DEF FleetNext

\* The stored power of a phone (fleet scan, power check by hand and the import of
\* an inventory that may be old): for any clock and any changes, a stored status
\* was true at its stamp or later, a stamp never goes back, and only a phone that
\* the newest observation found expired is deactivated.
THEOREM FleetNewest == FleetSpec => []FleetTypeOK /\ NewestObservationWins
<1>1. FleetInit => FleetIInv
  BY FleetInitFits
<1>2. FleetIInv /\ [FleetNext]_fleetVars => FleetIInv'
  BY FleetStepFits
<1>3. FleetIInv => FleetTypeOK
  BY DEF FleetIInv
<1>4. FleetIInv /\ [FleetNext]_fleetVars =>
        [ /\ dev'.at >= dev.at
          /\ dev'.status # Unknown => \E t \in dev'.at..fClock : dev'.status \in powerAt[t]
          /\ dev.active /\ ~dev'.active => \E t \in dev.at..fClock : "EXPIRED" \in powerAt[t]
        ]_fleetVars
  <2> SUFFICES ASSUME FleetIInv, FleetNext
               PROVE  /\ dev'.at >= dev.at
                      /\ dev'.status # Unknown => \E t \in dev'.at..fClock : dev'.status \in powerAt[t]
                      /\ dev.active /\ ~dev'.active => \E t \in dev.at..fClock : "EXPIRED" \in powerAt[t]
    OBVIOUS
  <2>1. CASE ScanStores \/ CheckStores \/ ImportKnown \/ Reregister
    BY <2>1, RowMoves DEF WasTrue, FleetIInv, Unknown
  <2>2. CASE ~(ScanStores \/ CheckStores \/ ImportKnown \/ Reregister)
    <3>1. dev' = dev
      BY <2>2 DEF FleetNext, PowerChanges, FleetClockTicks, ScanBegins, ScanReads, ScanReadsRows, CheckBegins, CheckReads, FleetRestarts
    <3>2. dev.at \in Nat
      BY DEF FleetIInv, FleetTypeOK, DeviceRows
    <3> QED
      BY <3>1, <3>2 DEF FleetIInv, WasTrue
  <2> QED
    BY <2>1, <2>2
<1> QED
  BY <1>1, <1>2, <1>3, <1>4, PTL DEF FleetSpec, NewestObservationWins

(***************************************************************************)
(* The import of the inventory.                                            *)
(***************************************************************************)

\* Whoever overtook a phone was tried later than it.
OvertakersAreNewer ==
  \A p, q \in NewPhones : q \in overtaken[p] => lastTry[q] > lastTry[p]

\* There is a last attempt.
TriesAreBounded == \E m \in Nat : \A p \in NewPhones : lastTry[p] <= m

ImportIInv == ImportTypeOK /\ OvertakersAreNewer /\ TriesAreBounded

-----------------------------------------------------------------------------
LEMMA ImportInitFits == ImportInit => ImportIInv
<1> SUFFICES ASSUME ImportInit PROVE ImportIInv
  OBVIOUS
<1>1. ImportTypeOK
  BY ImportAssumption DEF ImportInit, ImportTypeOK
<1>2. OvertakersAreNewer
  BY DEF ImportInit, OvertakersAreNewer
<1>3. TriesAreBounded
  <2>1. \A p \in NewPhones : lastTry[p] <= 0
    BY DEF ImportInit
  <2> QED
    BY <2>1 DEF TriesAreBounded
<1> QED
  BY <1>1, <1>2, <1>3 DEF ImportIInv

LEMMA ImportBeginsFits ==
  ASSUME ImportIInv, ImportBegins
  PROVE  ImportIInv'
<1> USE DEF ImportIInv
<1>1. PICK phones \in SUBSET NewPhones, news \in SUBSET NewPhones :
         /\ listed' = phones /\ left' = phones \ registered
         /\ lastTry' = [p \in NewPhones |-> IF p \in phones THEN lastTry[p] ELSE 0]
         /\ backoff' = [p \in NewPhones |-> IF p \in phones THEN backoff[p] ELSE NoFailure]
         /\ signature' = [p \in NewPhones |-> IF p \in news THEN 1 - signature[p] ELSE signature[p]]
         /\ overtaken' = [p \in NewPhones |-> IF p \in phones THEN overtaken[p] \cap phones ELSE {}]
  BY DEF ImportBegins
<1>2. pulse' \in 0..MaxPulse /\ budget' \in 0..ImportBudget /\ registered' = registered
  BY ImportAssumption DEF ImportBegins, ImportTypeOK
<1>3. \A p \in NewPhones : lastTry[p] \in Nat /\ lastTry'[p] = IF p \in phones THEN lastTry[p] ELSE 0
  BY <1>1 DEF ImportTypeOK
<1>4. \A p \in NewPhones : signature[p] \in {0, 1} /\ 1 - signature[p] \in {0, 1}
  BY DEF ImportTypeOK
<1>5. lastTry' \in [NewPhones -> Nat]
  BY <1>1, <1>3
<1>6. signature' \in [NewPhones -> {0, 1}]
  BY <1>1, <1>4
<1>7. overtaken' \in [NewPhones -> SUBSET NewPhones]
  BY <1>1 DEF ImportTypeOK
<1>8. \A p \in NewPhones : overtaken'[p] = IF p \in phones THEN overtaken[p] \cap phones ELSE {}
  BY <1>1
<1>9. ImportTypeOK'
  BY <1>1, <1>2, <1>5, <1>6, <1>7, <1>8 DEF ImportTypeOK
<1>10. OvertakersAreNewer'
  BY <1>3, <1>8 DEF OvertakersAreNewer
<1>11. PICK m \in Nat : \A p \in NewPhones : lastTry[p] <= m
  BY DEF TriesAreBounded
<1>12. \A p \in NewPhones : lastTry'[p] <= m
  BY <1>3, <1>11
<1>13. TriesAreBounded'
  BY <1>11, <1>12 DEF TriesAreBounded
<1> QED
  BY <1>9, <1>10, <1>13

LEMMA MaxIsLatest ==
  ASSUME NEW S, NEW t \in S, \A s \in S : t >= s
  PROVE  Max(S) \in S /\ \A s \in S : Max(S) >= s
BY DEF Max

\* A new attempt is later than all the others.
LEMMA NextTry ==
  ASSUME ImportIInv, NEW p \in NewPhones
  PROVE  LET n == Max({lastTry[q] : q \in NewPhones}) IN
         n \in Nat /\ \A q \in NewPhones : lastTry[q] <= n
<1> DEFINE S == {lastTry[q] : q \in NewPhones}
<1>1. PICK m \in Nat : \A q \in NewPhones : lastTry[q] <= m
  BY DEF ImportIInv, TriesAreBounded
<1>2. \A q \in NewPhones : lastTry[q] \in 0..m
  BY <1>1 DEF ImportIInv, ImportTypeOK
<1>3. S \in SUBSET (0..m)
  BY <1>2
<1>4. S # {}
  OBVIOUS
<1>5. PICK t \in S : \A s \in S : s <= t
  BY <1>3, <1>4, Latest
<1>6. \A s \in S : t >= s
  BY <1>3, <1>5
<1> HIDE DEF S
<1>7. Max(S) \in S /\ \A s \in S : Max(S) >= s
  BY <1>5, <1>6, MaxIsLatest
<1>8. Max(S) \in Nat /\ \A s \in S : s <= Max(S)
  <2>1. PICK x \in S : x = Max(S)
    BY <1>7
  <2>2. \A s \in S : s \in Nat /\ x \in Nat /\ x >= s
    BY <1>3, <1>7, <2>1
  <2>3. \A s \in S : s <= x
    BY <2>2
  <2> QED
    BY <1>3, <2>1, <2>3
<1> QED
  BY <1>8 DEF S

LEMMA AttemptFits ==
  ASSUME ImportIInv, NEW p \in NewPhones, p \in left, budget > 0, left' = left \ {p}, Attempt(p),
         UNCHANGED <<pulse, listed, signature>>
  PROVE  ImportIInv'
<1> USE DEF ImportIInv
<1> DEFINE n == Max({lastTry[q] : q \in NewPhones})
           k == n + 1
<1>1. n \in Nat /\ \A q \in NewPhones : lastTry[q] <= n
  BY NextTry
<1>2. lastTry' = [lastTry EXCEPT ![p] = k] /\ budget' = budget - 1
  BY DEF Attempt
<1> HIDE DEF n
<1>3. k \in Nat /\ \A q \in NewPhones : lastTry[q] \in Nat /\ lastTry[q] < k
  BY <1>1 DEF ImportTypeOK
<1> HIDE DEF k
<1>4. lastTry' \in [NewPhones -> Nat] /\ lastTry'[p] = k /\ \A q \in NewPhones \ {p} : lastTry'[q] = lastTry[q]
  BY <1>2, <1>3 DEF ImportTypeOK
<1>5. registered' \subseteq registered \cup {p} /\ DOMAIN backoff' = NewPhones
  BY DEF Attempt, ImportTypeOK
<1>6. budget' \in 0..ImportBudget
  BY <1>2, ImportAssumption DEF ImportTypeOK
<1>7. overtaken' \in [NewPhones -> SUBSET NewPhones]
  <2>1. overtaken' = [q \in NewPhones |->
          IF q = p THEN {} ELSE IF q \in left /\ CanAttempt(q) THEN overtaken[q] \cup {p} ELSE overtaken[q]]
    BY DEF Attempt
  <2>2. \A q \in NewPhones : overtaken[q] \subseteq NewPhones
    BY DEF ImportTypeOK
  <2> QED
    BY <2>1, <2>2
<1>8. overtaken'[p] = {} /\ \A q \in NewPhones \ {p} : overtaken'[q] \subseteq overtaken[q] \cup {p}
  BY DEF Attempt
<1>9. ImportTypeOK'
  BY <1>4, <1>5, <1>6, <1>7, <1>8 DEF ImportTypeOK
<1>10. OvertakersAreNewer'
  <2>1. ASSUME NEW r \in NewPhones, NEW q \in NewPhones, q \in overtaken'[r] PROVE lastTry'[q] > lastTry'[r]
    <3>1. r # p /\ q \in overtaken[r] \cup {p} /\ lastTry'[r] = lastTry[r] /\ lastTry[r] < k
      BY <1>3, <1>4, <1>8, <2>1
    <3>2. CASE q = p
      BY <1>3, <1>4, <3>1, <3>2
    <3>3. CASE q # p
      BY <1>4, <3>1, <3>3 DEF OvertakersAreNewer
    <3> QED
      BY <3>2, <3>3
  <2> QED
    BY <2>1 DEF OvertakersAreNewer
<1>11. \A q \in NewPhones : lastTry'[q] <= k
  BY <1>3, <1>4
<1>12. TriesAreBounded'
  BY <1>3, <1>11 DEF TriesAreBounded
<1> QED
  BY <1>9, <1>10, <1>12

LEMMA ImportPhoneFits ==
  ASSUME ImportIInv, NEW p \in NewPhones, ImportPhone(p)
  PROVE  ImportIInv'
<1> USE DEF ImportIInv
<1>1. p \in left /\ left' = left \ {p} /\ UNCHANGED <<pulse, listed, signature>>
  BY DEF ImportPhone
<1>2. CASE budget > 0 /\ CanAttempt(p)
  BY <1>1, <1>2, AttemptFits DEF ImportPhone
<1>3. CASE ~(budget > 0 /\ CanAttempt(p))
  <2> DEFINE o == IF CanAttempt(p) THEN overtaken[p] ELSE {}
  <2>1. overtaken' = [overtaken EXCEPT ![p] = o] /\ UNCHANGED <<budget, lastTry, backoff, registered>>
    BY <1>3 DEF ImportPhone
  <2>2. o \subseteq overtaken[p]
    OBVIOUS
  <2> HIDE DEF o
  <2>3. overtaken' \in [NewPhones -> SUBSET NewPhones] /\ \A q \in NewPhones : overtaken'[q] \subseteq overtaken[q]
    BY <2>1, <2>2 DEF ImportTypeOK
  <2>4. ImportTypeOK'
    BY <1>1, <2>1, <2>3 DEF ImportTypeOK
  <2>5. OvertakersAreNewer' /\ TriesAreBounded'
    BY <2>1, <2>3 DEF OvertakersAreNewer, TriesAreBounded
  <2> QED
    BY <2>4, <2>5
<1> QED
  BY <1>2, <1>3

LEMMA ImportStepFits == ImportIInv /\ [ImportNext]_importVars => ImportIInv'
<1> SUFFICES ASSUME ImportIInv, [ImportNext]_importVars PROVE ImportIInv'
  OBVIOUS
<1>1. CASE UNCHANGED importVars
  BY <1>1 DEF importVars, ImportIInv, ImportTypeOK, OvertakersAreNewer, TriesAreBounded
<1>2. CASE ImportRestarts
  <2>1. ImportTypeOK'
    BY <1>2 DEF ImportRestarts, ImportIInv, ImportTypeOK
  <2>2. OvertakersAreNewer'
    BY <1>2 DEF ImportRestarts, OvertakersAreNewer
  <2>3. \A p \in NewPhones : lastTry'[p] <= 0
    BY <1>2 DEF ImportRestarts
  <2>4. TriesAreBounded'
    BY <2>3 DEF TriesAreBounded
  <2> QED
    BY <2>1, <2>2, <2>4 DEF ImportIInv
<1> QED
  BY <1>1, <1>2, ImportBeginsFits, ImportPhoneFits DEF ImportNext

\* The background import (importInventory and its backoff): for any phones, any
\* budget and any delays, while a phone that may be tried waits for budget, no
\* other of its class that stays in the inventory is tried twice.
THEOREM NobodyStarves == ImportSpec => []ImportTypeOK /\ NoPhoneIsStarved
<1>1. ImportInit => ImportIInv
  BY ImportInitFits
<1>2. ImportIInv /\ [ImportNext]_importVars => ImportIInv'
  BY ImportStepFits
<1>3. ImportIInv => ImportTypeOK
  BY DEF ImportIInv
<1>4. ImportIInv /\ [ImportNext]_importVars =>
        [\A p, q \in NewPhones :
           SameClass(p, q) /\ p \in left /\ CanAttempt(p) /\ lastTry'[q] > lastTry[q] /\ p # q
             => q \notin overtaken[p]]_importVars
  <2> SUFFICES ASSUME ImportIInv, ImportNext, NEW p \in NewPhones, NEW q \in NewPhones,
                      SameClass(p, q), p \in left, lastTry'[q] > lastTry[q]
               PROVE  q \notin overtaken[p]
    OBVIOUS
  <2>1. lastTry \in [NewPhones -> Nat]
    BY DEF ImportIInv, ImportTypeOK
  <2>2. ~ImportBegins /\ ~ImportRestarts
    BY <2>1 DEF ImportBegins, ImportRestarts
  <2>3. PICK r \in NewPhones : ImportPhone(r)
    BY <2>2 DEF ImportNext
  <2>4. r = q
    BY <2>1, <2>3 DEF ImportPhone, Attempt
  <2>5. lastTry[q] <= lastTry[p]
    BY <2>3, <2>4 DEF ImportPhone, IsNext, SameClass
  <2> QED
    BY <2>1, <2>5 DEF ImportIInv, OvertakersAreNewer
<1> QED
  BY <1>1, <1>2, <1>3, <1>4, PTL DEF ImportSpec, NoPhoneIsStarved

(***************************************************************************)
(* All services together.                                                  *)
(***************************************************************************)

\* The services side by side (deviceOperations.ts, sites, environment.ts, the keys
\* of tenantKeys.ts, the fleet scan and the import): no provider call that may have
\* been carried out is sent again, on another key or for the same revision of an
\* environment, and every service keeps its types.
THEOREM ServicesSendOnce == ServicesSpec => []NothingIsSentTwice
<1>1. TypeOK /\ (SiteTypeOK /\ SiteWorkIsTrue) /\ (LibraryTypeOK /\ LibraryIsHonest) /\ (KeysTypeOK /\ FailoverSendsOnce)
      /\ (EnvTypeOK /\ RevisionIsSentOnce) /\ FleetTypeOK /\ ImportTypeOK => NothingIsSentTwice
  BY DEF NothingIsSentTwice, ServicesTypeOK
<1> QED
  BY <1>1, TypeCorrect, SiteHonest, LibraryHonest, KeysSendOnce, EnvironmentSentOnce, FleetNewest, NobodyStarves,
     PTL DEF ServicesSpec
=============================================================================
