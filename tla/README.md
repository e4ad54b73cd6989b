# observatory-controller: TLA+ models, checks and proofs

The controller is a Node daemon that drives a fleet of rented cloud phones for several
workspaces. It simulates movement (GPS points, Wi-Fi, radio frames), starts RPA tasks, warm-up
runs and site jobs on the phones, and keeps a record of what it asked for and what the provider
said. Every operation crosses four things that fail independently:

* the **process** (one event loop; every `await` is a place where another handler may run, and it
  may die at any of them),
* **SQL** (Prisma; the durable truth, changed with compare-and-set updates on a revision or status),
* **Redis** (the lease of a physical phone, BullMQ queues),
* the **provider** (DuoPlus REST API, several keys per workspace, rate limits, answers that get lost)
  and the **phone** itself (player and radio agent over a socket).

Several subsystems, and several workspaces, want the same physical phone. The correctness questions
are therefore about exclusion, about never repeating what may already have happened, about rows that
must not claim more than is known, and about nothing waiting for ever.

Paths below are relative to `src/src/` unless they start with `tests/` or `docs/`.

## Inventory

| component | state it keeps | operations | hard part | modelled in |
|---|---|---|---|---|
| physical image lease (`trips/imageOwnership.ts`, `trips/lease.ts`) | Redis lease key with TTL, fencing counter; per call: epoch, `lost` | acquire with retry and deadline, renew, assertOwned, release | commands that execute after the caller gave up, expiry while working | `ImageLease` |
| radio frame delivery (`trips/radioDelivery.ts`, `radioTransport.ts`, `radioSession.ts`, `radioStubReceiver.ts`) | adapter's last sequence, closed reason; agent's epoch, session, sequence | open a session, deliver a frame, receive, answer, close | late frames of an expired writer, no answer, cut connections | `RadioDelivery` (composes `ImageLease`) |
| radio engine (`radio/engine.ts`) | serving cell, time-to-trigger candidate, scan caches | model a frame | gaps, returns, scans of an earlier stay | `RadioEngine` |
| radio contract (`radio/contract.ts`, `radio/policy.ts`) | none; a verdict per request, result and readback | build a request, interpret a result, compare a readback | cached samples, partial results, two measurement modes | `RadioContract` |
| radio runtime and evidence (`radio/runtime.ts`, `evidence*.ts`, `liveStatus.ts`) | session, sequences, evidence rows | ingest, clean up, reconcile, reopen | storage that fails before or behind a frame; rows of an older session | `RadioRuntime` |
| arrival lifecycle (`radio/lifecycle.ts`, `radio/arrival.ts`, `radio/tripFeed.ts`) | gate, stage, observation window | feed, readback, pause, cancel, expire, close | a phone held while the trip arrives; a frame of unknown fate | `TripArrival`, `ArrivalLifecycle` |
| player trips (`trips/player*.ts`) | `playerJson`, session on the phone, credential file | set up the app, prepare, authorize, start, poll, stop, arrive, recover | a start whose answer is lost; an update by id only; another deployment on the phone | `PlayerTrip`, `PlayerGateway`, `PlayerLink`, `PlayerTargets` |
| trip driver (`trips/runner.ts`, `trips/service.ts`, `trips/retryCheckpoint.ts`, `checkpointClock.ts`) | `DrivingTrip` and `Device` rows; in memory: clocks, readiness waits, running steps | scheduler step, arrival, pauseUnsafe, start, pause, resume, cancel, recoverTrips | every step has about ten awaits, guarded by lease, window, reservation and revision | `TripDrive` |
| trip phone sync (`trips/phoneSync.ts`) | `phoneSyncJson` | Maps launch, phone readback | stale readbacks, deadline over resumptions | `PhoneSync` |
| trip trigger (`http/trips.ts`, `trips/service.ts`) | the trip row and its idempotency key | create, start, answer a repetition | repetitions while the first is at work, after a restart | `TripTrigger` |
| GPS dispatch and evidence (`orchestrator/locationDispatch.ts`, `ops/locationTelemetry.ts`) | `LocationRequest` rows, device position | dispatch with `beforeSend`, classify, complete, observe | recorded in three transactions around a send that may be lost | `TripDrive` (a trip's calls), `GpsRequests` (the rest) |
| telemetry worker and sidecar (`queue/telemetryWorker.ts`, `orchestrator/sidecar.ts`) | idle-fleet movement | tick, jitter, hold | a row that changes between proposal and answer | `GpsRequests`, reservations in `DeviceOperations` |
| RPA intents (`queue/rpa*.ts`, `queue/producer.ts`) | `RpaJob` row, BullMQ entry, lock | save, deliver, revive, claim, submit with key failover, catch, operator review and resolve | a job run twice, lost entries, a submission of unknown fate | `RpaDelivery`, `RpaIntent` |
| device operations (`orchestrator/deviceOperations.ts`) | in-process map of movement/window objects | reserveMovement, release, withEnvironmentWindow | wake-ups, timeouts, cleanup by object identity | `DeviceOperations` |
| environment (`orchestrator/environment.ts`) | environment profile row with revision, lease fields | preview, apply, recheck, recover at startup | one provider update whose answer, database write or process may be lost | `EnvironmentApply` |
| warm-up campaigns (`warmup/*`) | `WarmupCampaign` and `WarmupRun` rows | scan, reconcile, dispatch, release power, start, pause, cancel, extend, resolve, retry, recover | a submission of unknown fate, answers about an earlier submission, a drive that both the campaign and the user control | `Warmup` |
| site jobs (`sites/service.ts`, `sites/jobs.ts`) | `Site` and `TrackerJob` rows | edit, prepare, apply, trigger, callback, manual result, recover | callback before the trigger's reply; a profile that changes under a task | `SiteJobs` |
| site library (`sites/profile.ts`, `ops/wigleUpload.ts`) | saved answers, refresh stamps | query page by page, save, weekly refresh | refreshes that meet, stop half-way and are repeated; each answer is paid for | `SiteLibrary` |
| tenant keys, rate limit (`api/tenantKeys.ts`, `api/rateLimit.ts`, `api/duoPlusClient.ts`) | cooldowns in memory and in rows, FIFO of waiters | order keys, take a turn, send, fail over | keys shared by workspaces; cooldowns that come while one waits | `ProviderKeys`; the failover also in `RpaDelivery`, `TripDrive` |
| fleet sync and power (`orchestrator/fleetSync.ts`, `powerCheck.ts`) | `Device` power fields, events | scan, manual check | an old observation stored after a newer one | `FleetPower` |
| inventory import (`orchestrator/importInventory.ts`, `importBackoff.ts`) | back-off per phone | pulse: choose, look up, register | phones that fail for ever take the budget | `InventoryImport` |
| browser console (`src/public/app.js`, `driving.js`, `polling.js`) | shown snapshot, drafts, locks, login | poll, command, retry, log in and out | answers late, lost or of another login | `DrivingPanel`, `Console` |
| registry, HTTP, config, CLI, verification, security, geography, views | rows, files, pure data | CRUD, parsing, arithmetic | little protocol of their own | a few operations in the modules above, else not modelled (see below) |

### How they meet

* `withPhysicalImageLease` (through `withTripLease` or directly) wraps each trip step, radio session,
  RPA submission, warm-up run and site job. It is keyed by the physical image, so it also separates
  two workspaces that imported the same phone.
* `reserveMovement` / `withEnvironmentWindow` separate movement from environment work inside the
  process, keyed by device row. The user's trip requests take the *window first, then the lease*;
  trip creation, RPA, warm-up and site jobs take the *lease first, then the window*. There is no
  deadlock because a taken window is refused at once and both waits are bounded.
* The trip row's `revision` changes with every user request; a step remembers the row it read and all
  its updates name that revision.
* On startup (`index.ts`) interrupted environments, trips, players, site work and warm-up are
  recovered before workers, schedulers and the HTTP server start.

## Modules

### `ImageLease`, one phone's lease

State: the lease key (`holder`), the counter (`epochKey`), and for each call its place, epoch, `lost`
flag, and the commands Redis may still execute for it (`lateSet`, `lateRelease`). One action per Redis
command and outcome: `SetGranted`, `SetRefused`, `SetTimesOut` (after which `LateSetExecutes` may fire
at any time), `IncrAnswered`, `IncrFails`, `AssertOwned`, `Release`, `ReleaseTimesOut`, and `Expire`,
`Crash`. `Write` is the guarded write of whoever holds the lease.

### `RadioDelivery`, frames under the lease

EXTENDS `ImageLease`: each call of the lease has an adapter with `phase`, `seq`, `lastSeq`, `closed`
and the recorded `outcome` of each frame; `wire` and `acks` are sets, so bytes are delayed, reordered
between connections, or lost. `Receive` is the agent's fencing decision (`Fenced`).

### `RpaIntent` and `RpaDelivery`, at most one submission

`RpaIntent` is what a caller is promised (from `docs/rpa-reliability.md` and the code). `RpaDelivery`
is the code: the row with its conditional updates, the queue with retained failed jobs and attempts,
two handlers that may run one job, lease, failover, the request in flight (or orphaned), the operator.
It implements `RpaIntent` under the mapping `Intent`.

### `DeviceOperations`, movement and environment windows

The map entry is an *object* with identity. A caller that keeps an old reference may release it again
(`jitterAwake` in `orchestrator/sidecar.ts` does so: harmless, since cleanup and release compare
identity, and the model lets every mover do it).

### `TripDrive`, one drive

State: the SQL rows (`trip`, `device`, and `last`, the request row with the fate of its message), the
Redis lease, what the process keeps in memory (`mover`, `window`, `clock`, `readiness`), the running
`step` (a program counter and its local variables), the user's request `op`, and `up`.

| code | actions |
|---|---|
| `runStep` until the call (`runner.ts:121-222`) | `StepTakes`, `Defer`, `LoadedUnsafe`, `Reserve`, `HoldOff`, `ScheduleStalled`, `ReadinessTimesOut`, `PowerUnusable/Busy/FirstOn/Ready` |
| `dispatchGps` (`locationDispatch.ts:110-204`) | `Vet`, `Unsent`, `Dispatch`, `Post`, `Answered`, `KeyFails`, `Doubt`, `Complete`, `CompleteFails` |
| the answer (`runner.ts:228-287`) | `Accept`, `HoldForRetry`, `ClearRejected`, `CompletedUnsafe` |
| `pauseUnsafe` | `PauseUnsafe`, `PauseFails` |
| `finishArrival` (`runner.ts:50-119`) | `LandingReady`, `FinishOpens`, `FinishFails`, `ArrivalReplay`, `ArrivalPlain`, `WifiMark`, `WifiPost`, `WifiKeyFails`, `WifiAccepted`, `WifiFails`, `Land` |
| `mutate` and its users (`service.ts:258-368`) | `OpBegins`, `OpDrained`, `OpLeases`, `OpChecks`, `StartTrip`, `PauseTrip`, `ResumeTrip`, `CancelTrip`, `OpGivesUp` |
| `adoptTripAnchor` (`service.ts:401-418`) | `AdoptAnchor`, which begins as the other requests do |
| `recoverTrips`, surroundings | `Crash`, `Recover`, `DriftSwitched` (the phone's own movement outside a trip: `registry.ts`, `sidecar.ts`, `http/server.ts`), `FleetSync`, `SubscriptionEnds`, `OtherTakes`, `OtherLeaves`, `Lapse`, `Provider` |

Wall-clock conditions are nondeterministic (a timer may have run out whenever the code could be
waiting for it), except that a limit counted from the start of a wait stays with that wait.
The lease is the abstraction that `ImageLease` justifies: one holder, which may `Lapse` without the
holder's knowledge. Window and reservation are the exclusion that `DeviceOperations` proves.
Outside the trip the phone may drift about its anchor: the model has the switch (`active`), the drift's own calls are `GpsRequests`'.
Its trip does not open Maps and its phone is a REST phone; `PhoneSync` and `PlayerTrip` are about the others.

### `Warmup`, one day of a campaign

State: the rows (`campaign`, `run`, and what matters of the drive's `trip`), the provider's tasks by
submission name (`task`) and the phone's power, the lease, what of the day is left (`day`), and what the
planner is doing (`plan`: a place between two awaits and what it remembers from before); `offs` counts power-off requests.

| code | actions |
|---|---|
| `reconcile` (`warmup/runner.ts:57-77`) | `Polls`, `PollAnswered`, `PollTellsNothing`, `RecordsEvidence`, `RecordsDoubt`, `FlagsCampaign` |
| `reconcileMovement`, `missDependents` (78-116) | `DriveSucceeded`, `DriveFailed`, `PausesOverrun`, `RecordsSuspension`, `MissesDependents` |
| the scan's pass (232-263) | `Materializes`, `SweepsDay`, `Completes`, `MissesDependent` |
| `dispatch` (117-202) | `Dispatches`, `Claims`, `PreflightFails/Passes`, `PowersOn`, `OwnsPower`, `FindsContradiction`, `Marks`, `Posts`, `Acknowledged`, `SubmissionFails`, `RecordsAcceptance` |
| `startCampaignDrive` over `createTrip`, `startTrip` | `CreatesTrip`, `FindsTrip`, `VetsStart`, `StartsTrip`, `RecordsDrive` |
| `releasePower` (203-227) | `LooksToRelease`, `LosesPower`, `ObservesOff`, `ObservesOn`, `ListsNoTask`, `Vouches`, `AsksOff`, `OffKeyFails`, `KeepsPower`; its effect: `TurnsOff` |
| `campaignAction`, `resolveRun`, `retryRun` (`warmup/service.ts:92-138`) | `Starts`, `Pauses`, `Cancels`, `Extends`, `Resolves`, `Retries` |
| driving controls, recovery, surroundings | `StartsPreview`, `PausesDrive`, `ResumesDrive`, `CancelsDrive`, `Restarts`, `DriveArrives`, `DriveIsPaused`, `Provider`, `PhoneTurnsOn`, `TimePasses`, `Lapses` |

The planner does one thing at a time and the model leaves open which comes next, so every order in
which its queries return the runs is covered. Abstractions: `FAILED` stands for `CANCELLED` too (the code
treats the two alike); the calendar is one day, after which it may be extended; the GPS and Wi-Fi profile steps of
the preflight end like a failed preflight (the run waits again); the phone is at home unless the drive
arrived; a trip is `TripDrive`'s, reduced to its status and to whether the phone names it; an operator
who resolves a run has looked, i.e. the task has really ended, as the request's `remoteStopped` states.

### `RadioEngine`, `RadioContract`, `RadioRuntime`: from a position to what is recorded

| code | actions |
|---|---|
| `RadioEngine.frame` (`engine.ts`), and the request that `toApply` makes of it (`runtime.ts`) | `ModelFrame` |
| the schemas, `frameCapabilityViolations`, the phone, `interpretResult` (`contract.ts`), `compareReadback` (`policy.ts`) | `SendApply`, `Refuses`, `Applies`, `ObserverReads` |
| `TripRadioRuntime.ingest`, `reconcile`, opening a session (`runtime.ts`), the rows (`evidenceStore.ts`) and their view (`liveStatus.ts`) | `Ingest`, `Conclude`, `Reconcile`, `Reopen` |

A position is the level of every cell and whether a scan finds anything; an interface's surroundings are for
each identity absent, near or far from the level asked for. The adapter under the runtime is the one of
`RadioDelivery`: what it may answer is chosen there and taken over here.

### `TripArrival`, `ArrivalLifecycle`: may the phone be let go

`TripArrival` has the arrival gate and the lifecycle as operators on a record (`OnIdentifiedFix`, `Pause`,
`Cancel`, `Expire`, `CanRelease`, ...), so that two modules can hold one. `ArrivalLifecycle` drives it by every entry of
`tripFeed.ts`: `FeedAny`, `OnReadback`, `OnPause`, `OnCancel`, `OnExpire`, `OnClose`; `WallClock` is the observation timeout.

### `PlayerTrip`, `PlayerGateway`, `PlayerLink`, `PlayerTargets`: a trip that the app plays

| code | actions |
|---|---|
| `playerRunner.ts`, one step | `StepBegins`, `Poll`, `Identify`, `Status`, `Owns`, `Prepare`, `StoreStarted`, `StartPlaying`, `Heartbeat`, `Record`, `Finish`, `Arrived`, `Catch`, `PauseAfterFailure`, `StopCommand`, `StopSettles` |
| start, pause, resume, cancel of such a trip (`service.ts`, `playerReadiness.ts`) | `UserBegins`, `UserUnrecorded` (a pause or cancel whose evidence write fails), `Ready`, `UserOwns`, `UserCommits`, `UserStopped` |
| the app, the phone, the process, Redis, SQL | `Plays`, `Expires`, `WindowPasses`, `PhoneRestarts`, `LeaseLapses`, `Restarts`, `StoreUnavailable` |
| `initialize` (`playerConnection.ts`), `playerCredentials.ts` | `Connects`, `ForceStops`, `Provisions`, `Pushes`, `Launches`, `Polls` |
| `PlayerLifecycle.check`, `authorize`, `release` (`playerReadiness.ts`) | `CheckBegins`, `Probes`, `FindsCredential`, `ReadsStatus`, `Concludes`, `Opens`, `TripStops` |
| the app, another deployment, the phone, the process | `PlaysTrip`, `PlaysSession`, `SessionEnds`, `PhoneElsewhere`, `Reboots` |
| `PlayerSocket` (`playerProtocol.ts`) | `Request`, `PhoneSends`, `DataArrives`, `LinkEnds` |
| `playerTargets.ts` | `TakeEntry` |

ADB commands and the app are external: a command may fail with or without its effect.

### `PhoneSync`, a trip that waits for Maps

The step of a linked trip around `phoneSync.ts`: `LooksAtPhone`, `PhoneTells`, `AnswersReadback`, `OpensMaps`,
`LaunchesMaps`, `MapsAnswers`, `SendsPoint`, `PointAnswered`, `Finishes`; `UserActs`, `Intrudes` (a crash or another
process), `PhoneFixes`, `TimePassesOnPhone`. Points of one place are within ten metres of each other;
readiness, lease and evidence are `TripDrive`'s.

### `GpsRequests`, the points of the idle fleet

`SaveAnchor`, `ExpirePhone`, `ProposeGps`, `CreateRequest`, `DispatchPoint`, `AnswerPoint`, `CatchPoint` are the producer and
`dispatchGps`; `EditRow`, `ToggleActive`, `PowerObserved` change the row under it; `CaptureFix` and
`recordAndroidObservation` attach an observation; `GpsClockTicks`, `GpsRestarts`.

### `TripTrigger`, an idempotent request

`Triggered`, `LookUp`, `Join`, `Build`, `LookAgain`, `RouteAnswers`, `Insert`, `BeginStart`, `CheckStart`, `WriteStart`, `Recheck`,
`TriggerAnswered` are `handleTripRequest` with `createTrip` and `startTrip` under it; `TripChangesElsewhere`, `LeaseLapses`,
`TriggerRestarts` surround it. All requests have one key; other content is another hash.

### `EnvironmentApply`, `FleetPower`, `InventoryImport`

| code | actions |
|---|---|
| preview, `applyEnvironment`, `recheckEnvironment`, recovery (`environment.ts`) | `PreviewBegins/Ends`, `ApplyEnvironment`, `ClaimEnvironment`, `MarkDispatched`, `UpdateWifi`, `StoreAcceptance`, `ReadWifi`, `StoreVerdict`, `CatchEnvironment`, `RecheckBegins/Ends`, `AnchorMoves`, `EnvRestarts` |
| `fleetSync.ts`, `powerCheck.ts` | `ScanBegins`, `ScanReads`, `ScanReadsRows`, `ScanStores`, `CheckBegins`, `CheckReads`, `CheckStores`, `ImportKnown`, `Reregister`, `PowerChanges`, `FleetClockTicks`, `FleetRestarts` |
| one pulse of `importInventory.ts` | `ImportBegins`, `ImportPhone`, `ImportRestarts` |

### `SiteJobs`, `SiteLibrary`

| code | actions |
|---|---|
| the operator's routes (`sites/service.ts`) | `SiteOperator`: editing, preparing, reading back, applying, queueing |
| the planner's worker (`sites/jobs.ts`) | `SiteWorker`: preflight, claim, submission, catch |
| results, deadlines, recovery | `SaveResult`, `ReadForResult`, `DeadlinePasses`, `SiteRestarts`, `SiteLeaseLapses` |
| `refreshSiteLibrary` (`profile.ts`), `wigleUpload.ts` | `ReadLibrary`, `QueryPage`, `SaveUpload`, `RefreshEnds`, `OperatorRefreshes`, `PlannerRefreshes`, `ToggleWeekly`, `UserSaves`, `LibraryTick`, `LibraryRestarts` |

### `ProviderKeys`, whose turn it is

`CallBegins`, `Reserve`, `TakeTurn`, `Recheck`, `Refused`, `SendRequest`, `Answered`, `Lost`, `Limited`, `Denied`: `withTenantKey` with the
limiter's queue and the two cooldowns (memory by key, row by workspace and key); `ClockTicks`, `KeysRestart`. A restart forgets the process's memory; the
history of turns and pauses (`turnEnd`, `asked`), which is the provider's, stays, with a note of what a process could still know of it (`turnKnown`, `pauseKept`).

### `DrivingPanel`, `Console`: the pages

`DrivingPanel` is `public/driving.js` for one device: `SetDraft`, `EditStop`, `AskPreview`, `SelectRoute`, `Select`, `Act`, `Retry`, `Login`,
`Answer`, `TakeSnapshot`, `MakeSnapshot`, against a controller (`Serve`, `Runs`) that `Others` command too. `Console` is `app.js` with
`polling.js`: `Poll`, `SnapshotReads`, `TakeLoad`, `Command`, `CarryOut`, `ConsoleAnswer`, `OpenKeys`, `ChangeKeys`, `LogIn`, `Logout`, `ReloadEnds`,
`Elsewhere` (another client or tab). A change is a number, so "older" can be said.

### Proof modules and model-checking modules

`RadioDeliveryProofs` (of `ImageLease` and everything in `RadioAndPlayers`), `RpaDeliveryProofs`, `WarmupProofs`, `PhonePointsProofs`, `TripDriveProofs` (also of
`TripTrigger`), `PlayerTripProofs` (also of `ArrivalLifecycle`), `ServiceProofs` (of everything in `Services`) and `BrowserPagesProofs` hold the theorems.
`Services` is the conjunction of the seven specifications of the services and what they promise together,
`RadioAndPlayers` that of the radio's and the players' seven, `PhonePoints` that of `GpsRequests` and `PhoneSync`, `BrowserPages` that of `DrivingPanel` and `Console`. `MCImageLease` and `MCRpaDelivery`
only name model values and symmetry sets. Five further `MC` modules host several components *side by side*: a
variable `part` says which component a behaviour is about, only that one moves, and the initial
values of the others are fixed. The parts share nothing, so a property is checked of each as
if it ran alone; hosting saves runs, it is not a composition.
`MCTripDrive` hosts `TripDrive`, `TripTrigger` and the two of `BrowserPages`; `MCWarmup` hosts `Warmup` and the two of `PhonePoints`;
`MCPlayerTrip` hosts `PlayerTrip` (composed with `TripArrival`) and `ArrivalLifecycle`; `MCServices` hosts the seven modules of `Services` (`DeviceOperations`, `SiteJobs`, `SiteLibrary`, `ProviderKeys`,
`EnvironmentApply`, `FleetPower`, `InventoryImport`); `MCRadioDelivery` hosts the seven of `RadioAndPlayers`: `RadioDelivery` (composed with `ImageLease`), `RadioEngine`, `RadioContract`,
`RadioRuntime`, `PlayerTargets`, `PlayerLink`, `PlayerGateway`.

## Runs

Run with `tlc -config <cfg> <module>`. Sizes are distinct states.

| run | module / cfg | question | bound, and why it is enough |
|---|---|---|---|
| `image_lease` | `MCImageLease` | clearances follow fencing order; no release takes another's lease; callers get the phone or an error, even behind a holder that never lets go; an abandoned key is freed | 3 calls, each once: an owner, its successor and a bystander with late commands. More calls repeat these roles; the safety part is proved for any set |
| `radio_delivery` | `MCRadioDelivery` | results are honest, an expired writer never overwrites, sequences grow; frames are credible; verdicts are true; evidence says no more than was learnt; players are reached | 2 writers with 2 frames each: a retry and a takeover both happen. 3 cells of 2 technologies, 2 levels, time-to-trigger 2, gap 2, scan interval 3 of 4 ticks. 2 interfaces with 2 identities, so that one is right while another is not. 2 sessions, 1 row per session, 1 failure of storage. 2 instances of the app and 2 upsets; 3 requests and 4 lines on a connection; 3 entries for 2 images and 2 endpoints |
| `rpa_delivery` | `MCRpaDelivery` | at most one submission, held when in doubt, refinement of `RpaIntent` | 1 intent, 2 handlers (a stalled job run twice), 2 attempts, 2 keys, 1 fault. Intents of a phone share only the lease |
| `rpa_settles` | `RpaDelivery` / `MCRpaSettles` | no intent pends for ever | 1 handler, 1 key, 2 faults, so a fault also hits the recovery of a fault |
| `services` | `MCServices` | exclusion and wake-up of movement and environment; site work; the paid library; nothing sent twice; limits of keys kept; newest observation wins; no phone starved | 3 movers, 2 windows, 6 objects: more than callers that can hold a reference. 2 jobs of a site, 2 profiles, 1 fault. A week of 2 ticks, a retry window of 1, 2 pages, 4 ticks. 2 workspaces with one call each on 2 shared keys. 2 anchors, 2 revisions, 2 faults. 1 change of power in 2 ticks. 3 new phones, one pinned, a budget of 1, 4 pulses: a failing phone can come round while another waits. 0.8 million |
| `trip_drive` | `MCTripDrive` | the six properties of a drive, below; a repeated trigger drives once; pages are honest and keep up | 2 points (one on the way, one that arrives), 3 revisions: start, an interruption and a resumption with a crash or request in it. 2 requests, 2 contents, 4 changes of the trip. 2 trips, 3 writes, 2 logins, 1 lost answer. 2 workspaces, 2 commands, 2 changes not asked for. 2.7 million |
| `trip_drive_ends` | `TripDrive` / `MCTripDriveEnds` | a drive left alone arrives or is paused | as before with 2 revisions; the transaction of the final pause may fail, but not every time |
| `warmup` | `MCWarmup` | a campaign is orderly, dependents, power; points are known | the drive, one task that depends on it and one that does not (the two kinds there are), 2 names each, so every task can be retried once, on a phone that is on; switching it on and off is looked at without retries, with 1 request to turn it off under way. 2 location requests with an interval of 2 in 4 ticks, 1 edit, 1 fault. 3 points, a fix fresh for 1 tick, a deadline of 2, 2 starts or resumptions, 1 crash or foreign act. 4.0 million |
| `player_trip` | `MCPlayerTrip` | nothing is replayed; a released phone is still and settled; arrival after a full dwell; arriving ends | dwell 2, window 1, clock 3; 3 samples, 2 starts or resumptions, 2 calls of the user, 1 fault: a lost answer and a restart can fall into one start |
| `warmup_late_verdict` | `Warmup` / `MCWarmupVerdict` | whose answer a run records | one task, 2 names; expected to fail, see Findings |
| `warmup_stranded` | `Warmup` / `MCWarmupStranded` | can a drive always be ended | no task but the drive; expected to fail, see Findings |
| `trip_retry_gate` | `TripDrive` / `MCTripRetryGate` | the comment at `runner.ts:168-169` | expected to fail, see Findings |

All bounds are constants of the modules with a comment each. They limit what surroundings and users do
(faults, requests, ticks), in the guard of the action that begins something, so what has begun may
always finish. Deadlock is not checked: calls, frames, revisions, ticks or the calendar run out
and the bounded system rests. That nobody waits for ever is what the liveness properties say.

### The properties of a drive

* `NothingAdrift`: no new GPS call while an older one can still move the phone without anyone having
  accounted for it. It needs the pending checkpoint, the request's status, the single retry and the
  resume check to agree (`runner.ts:144-147`, `service.ts:334`, `retryCheckpoint.ts`).
* `EvidenceIsTrue`: the row never says accepted, busy or rejected unless that is what happened.
* `DeviceFollowsTrip`: the two rows agree at every instant, also between crash and recovery. The phone belongs to the trip from its
  start to its end, and while it does it is free to move only if the trip drives: a drift that was on before the start, or is switched while
  the trip owns the phone, moves no phone of a paused trip. Before the start, during the preview, the phone may drift.
* `WifiOnce`: the arrival environment is sent once.
* `ProgressIsApplied`: progress and position follow what the provider carried out, and never go back.
* `SilentWhenStopped`: between the last check and the send lie several awaits; no pause or cancel
  is committed there. The exclusion of window and reservation, not the lease, is what ensures it.
* `DrivesEnd`: see fairness.
* `TriggerDrivesOnce`: however a trigger is repeated, its trip starts at most once and not again after it
  ended, and every accepted request was answered with a trip of its own content that is no preview.
* `PointsAreKnown` has the types of `GpsRequests` and `PhoneSync` and two parts. `PointsAreTrue`: a request of the idle fleet says what is known of its
  point, points keep their interval over restarts, no edit between proposal and answer is overwritten, an unconfirmed
  phone stays held, and an observation belongs to a request that nothing had replaced when the fix was taken. `PhoneIsAwaited`: a linked
  trip's point leaves only when the phone was really at the one before, however old or late
  the readings were; once one point was accepted, a point refused for good has no successor; Maps opens no more often than the user started or resumed.

### The properties of a trip on the phone

* `PlaysArePermitted`: the phone begins a session at most once, and plays at most one session per start or resume
  of the user, whatever answers or processes are lost. The first part needs leases that do not lapse under their holder (see observations); the second does not.
* `ReleaseIsSafe` has the types of both modules and two parts. A phone the trip has let go does not play (except under a
  lease that lapsed, when the start of a step meets the commit of a cancel); and a lifecycle allows the release only if no arrival
  frame went out or the cleanup did after it, with no frame unanswered (except when the evidence store failed behind
  a frame, which is then unknown to the lifecycle).
* `ArrivalNeedsDwell`: the arrival frame follows fixes of the destination without a gap over the whole dwell, also across pauses.
* `ArrivingEnds`: a trip does not wait in `ARRIVING` for ever. Two trips escape it (see observations), and the property names both: the one whose
  arrival frame *was* delivered, and the one whose lifecycle was left `PAUSED` by a pause whose evidence the store refused.
* `PlayersAreReached` has the types of the seven modules of `RadioAndPlayers` and: no two phones have one endpoint, and a mistake in one entry takes no other phone away; a caller gets the answer to its
  own request, once, from one instance of the app, and none is left waiting when the connection ends; a setup that starts the app heals whatever an
  earlier one left behind; ready is said only of a clean, still instance without a stranger's session.

### The properties of the radio

* `ResultsAreHonest`, `ExpiredWriterNeverOverwrites`, `WrittenSequencesOnlyGrow`: delivery under the lease.
* `FramesAreCredible`: a handover only to a cell that was best in every frame of the time to trigger, without a gap; a serving cell that is
  heard if any is; scans that keep their age and never come from an earlier stay (except empty ones, see observations).
* `VerdictIsTrue`: verified means that an app in scope heard, after the application, all that was asked on each interface that was to change,
  and on one at least; the exception is an interface that the readback reports as `UNSUPPORTED_IN_SCOPE`, and then the verdict is marked as limited. A mismatch of an honest phone has
  stale samples behind it; another frame follows a failure only when the phone's state is known (except `PARTIAL`, see observations).
* `EvidenceSaysNoMore`: applied is recorded and shown only if it was; doubt stays doubt (except behind a failed append,
  see observations); the rows that pass for current are one session's.

### The properties of a campaign

* `CampaignIsOrderly` has the types and two parts. `OneTaskAtATime`: two submissions never may run at once, neither of two slots nor of one slot under an old and a
  new name; the claim's count of busy runs, the recovery of `SUBMITTING`, the catch block and the
  limits on resolve and retry have to agree on what "may still run" means. `PhoneIsReserved`: neither cancel nor the end of the calendar gives the phone away under such a task.
* `DependentAfterArrival`: dependent work leaves only after the drive arrived, whatever
  retries, suspensions and restarts did to the drive's run in between.
* `PowerOffIsSafe`: the hook of a power-off passes only for a phone that the campaign confirmed turning on, on which no task may
  run and that no trip holds. The counts, the task list, the hook, the request and its effect are steps apart, with everything else in between. While the
  lease lasts, all of this still holds when the request leaves and when it takes effect before its answer; no task may run then even if
  the lease lapsed. What takes effect after the planner went on is not covered (see observations).

### The properties of the services

* `SubmissionIsSafe` (RPA): the types, at most one submission, and one that may have happened is held. `KeepsIntent`: every step implements `RpaIntent`. `PendingIsSettled`: see fairness.
* `Exclusion`, `WaitingWindowRuns`: movement and environment work never overlap, and a wake-up is not lost.
* `SiteWorkIsTrue`: a job gives at most one task, `BLOCKED` none, a result exactly when completed, a profile at most one
  point and one Wi-Fi update; and a task runs under the profile it was preflighted with (except when the lease lapses during a readback).
* `LibraryIsHonest`: saved answers of an endpoint are a week apart, failed refreshes keep their window, and the time of a check is that of saved answers.
* `NothingIsSentTwice`: the types of all seven modules; no request on a second key unless the first did nothing; no revision of an environment sent twice, and its
  row true of the phone.
* `ProviderLimitKept`: one call at a time on a key, an interval apart, and none before an asked-for pause is over. Both limits are kept
  as far as one process can: the first turn of a key after a restart need not keep the interval, and a pause that the database refused to store is
  forgotten by a restart (see observations).
* `NewestObservationWins`: a stored status is true at its stamp or later, stamps never go back, and only the newest observation deactivates a phone.
* `NoPhoneIsStarved`: no phone is tried twice while another of its class waits (one that left the inventory and came back is new).

### The properties of the pages

* `PagesAreHonest`: a page shows the workspace it was logged in to, a page that is logged out shows and awaits nothing, and a panel is
  locked exactly as long as its own command is under way; with the types of the driving panel.
* `PagesKeepUp`: no page returns to something older than it showed, in any order of answers and snapshots; the driving panel starts no
  trip of its own that its form has left behind, and repeats no command that left its mark. (Only the answer of a command may be older, in what it brings itself.)

Each property of each passing run has a mutant: a plausible slip in one mapped definition (a dropped
guard, a reset that is forgotten, an error taken for a refusal, a wait started anew), defined next to
it under the comment `Mutant:`, which violates that property. They show that the property depends on the code.

## Fairness

* `ImageLease`: bounded commands answer or time out, the deadline of the waiting loop comes, and a
  key that nobody renews expires. Work callbacks need not settle. A waiting call is retried, so its
  deadline is strongly fair. Late commands, stalls and crashes are not fair.
* `DeviceOperations`: movers release and woken windows run. The drain timer is *not* assumed, so
  `WaitingWindowRuns` shows that the wake-up itself is not lost.
* `RpaDelivery`: the outbox (a 5 s interval) and the workers keep going; a lock of a dead
  handler expires. Strong fairness for the deliverer's steps and `TryKey` says that outages and key cooldowns end.
* `TripDrive`: a step that began goes on (every await is bounded); the scheduler tries again every 400 ms, so a step that is repeatedly
  turned away by lease or window or "not due" is eventually let through, the 30 s readiness limit
  is eventually past, and `pauseUnsafe`'s transaction eventually succeeds. Users and crashes are not fair.
* `PlayerTrip`: a step that is due is taken, as the runner looks every 400 ms, and a call of the user that began is finished (every
  command has a timeout). The user calls finitely often, and phone, lease and process are not fair.
* `Warmup`: only `InsistentSpec` (of `warmup_stranded`) has fairness: the planner finishes what it began,
  pauses an overrun drive and notices its arrival, and the operator keeps cancelling the drive, resuming it and starting the campaign
  (strong fairness: the lease is free again and again). It is as favourable as it can be and yet the drive cannot be ended.

`DeviceOperations`' fairness is carried over by `MCServices`, `PlayerTrip`'s by `MCPlayerTrip`; where another part is
under way these actions are never enabled, so it asks nothing of the others.
All other modules check safety only.

## Proofs

Check with `tlapm <module>`. The theorems hold for every value of the constants.

* **`TripDriveProofs`**: types and the six safety properties of a drive, for a timeline of
  any length and any number of revisions, from `PointsAndBounds`. The invariant is the conjunction of six parts, each preserved on its
  own (given the types), so each is a lemma:
  `Typed` (with `RevisionsLeft`);
  `Evidence` (what the program counter and local variables imply about the request row: `CallIsRecorded`,
  `RetryIsOfRefused`, `OpenCallIsPending`);
  `Ownership` (a request past its checks fits the status it read);
  `Wifi` (the step's own record of the arrival Wi-Fi is the row's);
  `RequestsExcluded` (window, reservation and place exclude one another);
  `PointsGoForward` (the point at hand is not behind the accepted one; this part also uses `Evidence`).

  `DrivesOnce` is about `TripTrigger`, for any triggers and contents, from `TriggerAssumption`: one request makes the
  trip and who waits for it asked for the same (`MakersFit`), and who starts it holds a version of the trip it asked for, perhaps an old one (`CallsFit`).
* **`RpaDeliveryProofs`**: `TypeCorrect`, `SubmissionSafety`, `IntentIsKept`, for any jobs, handlers, deliverers, keys and attempts, from
  `Distinct` and `Counts`. That the provider gets one submission is not inductive: a handler with a request in flight must be the only
  one that can send. The invariant adds `OneOwner` (between its claim and the settling of the row a handler is the only one with the job, and the row
  is `submitting` or resolved by an operator), `OwnersAreClean` (until its request is answered or lost, nothing of the job has
  landed) and `AtProvider` (what has landed is one, and the row tells). It does not use the phone's lease: at most one submission rests on the
  claim, a conditional update of the row. `IntentIsKept` shows for every action which step of `RpaIntent`, or none, it is: the intent
  is the row's status, and what has landed is what is at the provider or on its way (`Phases`, `Landing`).
* **`RadioDeliveryProofs`**: first the lease, `TypeCorrect`, `FencingOrder`, `ReleaseIsOwn`, for any set of calls,
  from `NoTokenAssumption`. `FencedClearance` alone is not inductive: a call that takes the key must
  number itself above everyone ever cleared. The invariant adds that nobody has an epoch before its
  INCR, that a cleared call has one, and that no epoch exceeds the counter.

  Then the delivery under it, `RadioTypeCorrect`, `ResultsHonest`, `ExpiredWriterFenced`, `SequencesGrow`, for any
  sequences, from `MaxSequenceAssumption` as well. The invariant contains the lease's and adds what a frame and an answer on the wire say of their
  writer (`FramesFit`, `AcksFit`), that an open session has counted every sequence that may be on the phone (`SessionsFit`),
  and the bridge from the lease to the phone: every frame of another writer is numbered below the owner (`FramesAreFenced`), and the phone has seen the newest (`PhoneIsNewest`).

  The same module proves the safety of the rest of the radio and of the way to the players, and `PlayersReached` of all of them side by side (`ReachSpec`), from
  `RadioEngineAssumption`, `RadioContractAssumption`, `RadioRuntimeAssumption`, `TargetsAssumption`, `LinkAssumption` and `GatewayAssumption`
  (a setup asks the started app at least once; the code asks five times):
  * `FramesCredible`: the candidate for a handover is a cell that has been the one to go to ever since it became the candidate (`CandidateFits`, on the history
    variable `rHeld` of `HeldInThePast`), and the last frame left the cell that is serving now (`FrameFits`).
  * `VerdictTrue`: before an answer nothing on the phone has changed, and a comparison is made only where everything asked for is in place (`StagesFit`); that a match was heard and that a mismatch is
    stale are lemmas about `Status` (`MatchIsHeard`, `MismatchIsOld`).
  * `EvidenceHonest`: a progress inside `ingest` is ahead of the last frame (`CallIsAhead`, `LastFits`), the phone has no frame beyond the last one unless its evidence could
    not be stored (`PhoneIsBehind`), and the rows of the session and the last frame say what the phone did with theirs (`RowsFit`, `LastTold`).
  * `TargetsSafe`: an image is spoken for exactly when an entry named it, and an endpoint is kept for the first that named it (`TargetsFit`), also after that one has lost its target.
  * `LinkHonest`: only the last request waits and nobody was told of it, and an instance is known once an answer was taken (`LinkFits`).
  * `GatewaySafe`: a setup that got past the credential has one (`BootFits`), which no check replaces; a check goes by the instance that is still remembered, and what
    is remembered was named by a verdict (`MemoryFits`).
* **`WarmupProofs`**: `CampaignOrder`, `DependentsWait`, `PowerOffSafety`, for any tasks and any number of names a run may take, from
  `SlotsAndBounds`. The invariant is about the rows (`WorkFits`: one busy run; a task that may run is on record under the run's present name) and
  about the planner between its awaits (`PlanFits`; on its way from the hook to the end of a power-off, no task may run and, under its lease, no trip holds the phone). A poll may be of a name that its run no longer has, for the operator may have resolved and retried it since. That
  is the finding `warmup_late_verdict`; the invariant shows why it does no worse: then no task of the run may run, and no other run is busy, whatever the answer is recorded as.
* **`PhonePointsProofs`**: `PointsTrue`, `PhoneAwaited` and `PointsKnown` of both, for any numbers of requests, points, edits and faults, any interval,
  freshness, deadline and clock, from `GpsAssumption` and `PhoneSyncAssumption`.
  * `PointsTrue`: rows are made one after the other, from a device row that is not newer than the present one (`RowsFit`); the call under way has the last row, and
    its status is where the call is (`CallFits`); and what the pacing knows is an interval after every point sent (`PacingFits`), also when it is restored after a restart (`RestoredIsLate`).
  * `PhoneAwaited`: what a step holds is the trip, unless somebody changed it, and then the trip is paused (`StepHolds`); a stored match of the last point shows that the phone was
    there (`TripFits`), as does a fused fix or a reading taken after that point (`FixFits`, `ReadingFits`: the age is counted from the start of the command, so a
    reading is never taken for newer than it is); and where the step is says what it has found (`WaitFits`). A point that was accepted while the trip changed stays pending, which blocks every resumption.
* **`PlayerTripProofs`**: `DwellBeforeArrival` and `LifecycleSettles` of `ArrivalLifecycle` under every caller (`ArrivalSpec`);
  `PlaysPermitted` of `PlayerTrip`, and `ReleaseSafety` of both as `MCPlayerTrip` hosts them. They hold for a plan of any length, any dwell, window and clock, any number of starts, calls and
  faults, from `ArrivalAssumption`, `BootsAssumption` and `PlayerAssumption`. For the lifecycle the invariant relates its memory to the frames
  (`FramesKnown`) and the gate's clocks to the fixes that came (`ClocksAgree`), as long as the evidence store failed behind no frame. For the trip it has two layers.
  One holds under any fault: a copy of the row of the same revision names the same session (`CopiesFit`), a step past its binding has one
  (`SessionsNamed`), and sessions are opened within the grants (`GrantsCover`). The other holds until a lease lapses under its holder: one process is at work, on the row as it
  stands (`OneAtWork`), what the row calls not started was never started (`StartsRecorded`), and where the phone must be still, it is (`PhoneStill`).
* **`ServiceProofs`**: the types of all services and each of their safety properties, and `ServicesSendOnce` of all of them side by side (`ServicesSpec`).
  They hold for any jobs, profiles, pages, times, workspaces, keys, calls, revisions, phones, budgets and numbers of faults, from `SiteAssumption`, `SiteLibraryAssumption`,
  `KeysAssumption`, `EnvAssumption`, `FleetAssumption` and `ImportAssumption`.
  * `TypeCorrect`, `MutualExclusion`, `MapIsExact` of `DeviceOperations`, for any movers, windows and objects: every user refers to the object in the map, the
    object's fields tell who uses it, and a window past its wait is not overtaken.
  * `SiteHonest`: where the operator's call and the worker are says what the rows hold (`CallFitsSite`, `WorkerFits`), and while no lease has lapsed the call has the phone
    and no job is busy (`CallOwnsSite`). One job at a time (`TaskOwnsTheSite`) rests on the rows, not on the lease.
  * `LibraryHonest`: two answers a week apart rest on the single flight (`OneFlight`): what a refresh found missing is still as old when its answer is saved (`FlightFits`), and
    an endpoint that is not in its queue has an answer (`QueueFits`).
  * `KeysSendOnce`, `LimitKept`: a call stands once in the line of its key and has its turn at the head (`LinesFit`); `nextStartAt` is an interval after the last turn
    of this process (`TurnsFit`); a pause that is not over is in memory or in the row (`PausesFit`); who is about to send found none, and nobody had the key since (`SendersFit`).
    A workspace that clears the cooldown it shares cannot hide another's pause: it had its turn only because that pause was over.
  * `EnvironmentSentOnce`: a preview is sent only under its durable marker (`UpdatesFit`), and what the operation has in hand agrees with the rows it read (`OperationFits`, `RowsFit`).
  * `FleetNewest`: whatever is read is true at its stamp or later (`ReadingFits`), on its way and in the row.
  * `NobodyStarves`: whoever overtook a phone was tried later than it (`OvertakersAreNewer`), so the sort puts the phone first.
* **`BrowserPagesProofs`**: `PagesHonest` and `PagesUpToDate`, for any number of trips, workspaces, calls, logins and events, from
  `DrivingPanelAssumption` and `ConsoleAssumption`. For the driving panel: whatever is shown, answered or under way is a state of one of the controller's trips, and no
  command that left its mark is allowed in it (`CopiesFit`); the panel awaits one call of its login, about the trip shown and the form as it is (`OneAwaited`); an answer is of the
  trip asked about, or of one made since (`AnswersFit`); and a trip of this form, not before the one shown, is of no version before the one previewed (`FormsFit`), which is why
  `Start` goes out for no other. For the page: a call or load of the present session is of the login that owns it, and not older than what is shown (`CallsFit`, `LoadFits`),
  as nothing that was read shows a change that was not made (`RowsFit`), and a page that is not logged out has its owner's login, or none (`LoginsFit`).

Assumptions are on constants only: model values are distinct from the data they are used with, and bounds are naturals.
`MaxRev`, `MaxGrants`, `MaxFaults`, `MaxAttempts` and the like bound the model; the theorems hold for each of their values.

The inductive invariants were model-checked on the runs' instances before they were proved (those of the keys with three calls, of which two share a workspace; the two short ones of the
fleet and the import were proved at once); the one of the player trip with two faults, one more than
the run has. There `PlaysArePermitted` turned out to need its condition on the lease.

The runs list no separate type invariant of `ImageLease` and `TripDrive`, nor `EntryIsNeeded` of `DeviceOperations` (the map has an entry
exactly while somebody uses it): they are proved, as `TypeCorrect` and `MapIsExact`, for every value of the constants.

Operators that the proofs expand decide by `IF` where the code decides in order; a `CASE` of theirs has arms that exclude one another, since TLA+
leaves open which of two open arms is taken.

Only model-checked: all liveness (`CallsSettle`, `AbandonedLeaseFreed`, `PendingIsSettled`, `WaitingWindowRuns`, `DrivesEnd`, `ArrivingEnds`: fairness and
ENABLED are outside the prover). Every safety property of a passing run is proved.

## Findings and observations

* **The readiness gate of a retry is lost** (`trip_retry_gate`). `runner.ts:168-169` says that "retry
  checkpoints retain the two-observation readiness gate". The wait lives in a map of the process that is
  discarded with every revision; the refused checkpoint lives in the database and survives. After
  BUSY, pause, resume (or a restart and a resume) the retry goes out on the step's first ON observation.
* **A late answer is recorded for another submission** (`warmup_late_verdict`). `reconcile` reads a run, asks the
  provider for its name, and writes the answer by the run's id (`warmup/runner.ts:69`). If the operator resolves and retries the run in
  between, the new submission carries the state of the old; having no `submittedAt`, it is
  never polled again (line 60), stays busy and blocks the campaign's work, its cancellation and its completion.
* **A drive can be stranded** (`warmup_stranded`). The driving controls need a `RUNNING` campaign (`trips/service.ts:71-75`), starting
  or extending a campaign needs a phone without a trip (`warmup/service.ts:23`), and neither cancel nor
  completion asks for the drive. When they meet (a drive suspended at the end of its window, or a preview started through
  the controls, and then cancel or the end of the calendar), nobody can end the trip or use the phone. The same
  holds while the campaign is paused or needs attention.
* A campaign that is paused between a dispatched drive's start and its record leaves the run `PREPARING` until the process restarts:
  the update asks for a `RUNNING` campaign and its count is not looked at (`warmup/runner.ts:182`), and `reconcileMovement` waits for a trip identity.
* A retried drive gets the trip it had: the idempotency key names the run, not the attempt (`campaignDrive.ts:14`).
  After a cancelled trip the retry fails at once, or with a conflict if the phone has moved.
* `gpsEligibility` excludes phones that any campaign has reserved (`locationDispatch.ts:37`), so the REST drive of a campaign is paused
  at its first step (`trips/runner.ts:148-151`); only drives of player phones arrive.
* `Completes` and `FlagsCampaign` are updates by id after a read, and can overwrite an extension or a cancellation made in between.
* A crash after the arrival Wi-Fi was marked dispatched leaves a trip that each resume brings
  back to the same pause (`runner.ts:64-67`); cancelling is the only way out. Safe, and the price of `WifiOnce`.
* A GPS call that reached a key is guarded twice against a second one: `beforeSend` refuses
  (`locationDispatch.ts:157`), and so does the compare-and-set of `markLocationDispatched`.
* A Maps-linked trip whose last point was refused names, in its readback, a request that was never accepted (`phoneSync.ts:94-96`):
  every resumption is refused and only cancelling is left. A point that *was* confirmed, but whose match has gone stale more than 90 s after the readback
  began, is likewise refused as "did not confirm within 90 seconds".
* The player's model clock stops at its arrival, the gate reads the repeated clock as a break and blocks, and a blocked
  lifecycle is never cleaned (`radio/lifecycle.ts:209`, `290`): a trip whose arrival frame was delivered may stay `ARRIVING` until it is cancelled. A cancel whose
  cleanup the evidence store interrupts leaves `CLEANING_RADIO`.
* `pause()` and `cancel()` of the lifecycle set their stage before the awaited evidence write (`radio/lifecycle.ts:298-301`, `305-309`). If that write fails, what follows it is skipped:
  the stop and `closeTripRadio` (`playerRunner.ts:238-241`, `service.ts:315-316`). A trip that was `ARRIVING` then keeps a lifecycle that is `PAUSED` and heeds no fix, and
  holds its phone until the user pauses or cancels it again. A failed cancel leaves
  `CANCELLED` or `CLEANING_RADIO` under a row that is neither.
* An interface that is `UNSUPPORTED_IN_SCOPE` takes no part in `overall`: `VERIFIED` is said with a replaced list that nobody could hear, marked by `scopeLimited` only
  (`policy.ts:354-367`), which nothing outside `policy.ts` reads.
* An empty cached scan has no entry to take its time from and is stamped with the frame's (`runtime.ts:288-289`, `contract.ts:855`), though
  `contract.ts:822-823` wants cached samples to keep theirs.
* When the evidence store fails behind a delivered frame, the repetition is refused as a replay and that certain "not applied" is
  recorded; a duplicate acknowledgement likewise sets the tick's `applied` to false. `interpretResult` reads `PARTIAL` as certain whatever
  certainty it reports. A list of stale samples that lacks an identity gives `MISMATCH`, not "not yet measured".
* After a restart or a cancel the app's session of an own trip is shown as `FOREIGN_SESSION`, which `PHONE-TARGETING.md:173-175` of the repository describes as one
  this controller never opened. `initialize` at boot force-stops the player whoever plays on it (`playerConnection.ts:151`).
* A call that reads the row before a step's start, stalls in `stopPlayerTrip` and goes on after its lease lapsed writes the player state it read
  back under the same revision (`playerRunner.ts:53-54`, `store`): the row then calls a session not started that the phone played, and the next step may start it again. It takes
  a stall of more than the lease's life between two awaits; whether the app would accept the session again is not known here.
* `recordProgress` leaves the revision alone, so a page orders such changes by the time of change only.
* `prepareSite` stores its readback without asserting the lease again; `API_ACCEPTED` of a site is not recovered at startup; `refreshSite` reads the site before
  it has the lease, and a user's upload aborts a paid query with a conflict. None breaks a property.
* A provider call that succeeded looks failed when the bookkeeping behind it fails; the callers treat it as of unknown fate. A 429 to an environment
  update uses up its revision.
* The limiter's `nextStartAt` is in memory only (`rateLimit.ts:17-36`): after a restart the first call of a key may follow the last one at once, and the provider may answer it
  with a 429, which is handled. `applyDeviceEnvironment` sends three requests in one turn of its key; a turn of `ProviderKeys` has one.
* A power-off is only requested (`warmup/runner.ts:224`) and its effect is seen by a later scan. One that the provider carries out late, or that leaves after the lease
  lapsed behind the hook, can meet a drive that was started meanwhile.
* An unknown power status keeps the phone's last `poweredOn`. A phone that leaves the inventory and comes back has no back-off. Location
  requests left `DISPATCHED` by a crash of an idle producer are not recovered. An observation's `capturedAt` may precede its point's send.
* The driving panel adopts another client's newer trip as if it had been made from the present form, so Start is offered for a trip the form does not describe.
* The console: an own answer that is older than the snapshot shows old values until the next one; `openKeys` lacks the `keysBusy` guard; a late answer to a logout logs
  a new login's page out; another tab that switches the workspace switches this page silently.
* With two entries of one image and a third that shares an endpoint, which phones `playerTargets.ts` excludes depends on the order of the entries; always to the safe side.

## Not modelled, and why

* The player's plan, radio propagation, movement physics, geography, environment data: floating-point arithmetic. The models have the index of a sample, the level of a cell or a place instead.
* HTTP routes, CLI, configuration, static files: parsing and wiring; what they call is modelled with the service.
* Authentication, encryption, token formats: no state to interleave.
* Payload builders and provider readbacks other than `phoneNavigation.ts`: parsing; the classification of answers is modelled where a decision depends on it.
* Radio views, folders, verification history, events, metrics, the export of evidence: read-only or append-only.
* The legacy key pool: used by the command line only.
* The preview's edits (`selectRoute`, `selectTripEnvironment`): one validated update of the row each, made with the same revision check as the modelled requests.
* The browser panels of sites, warm-up, RPA and verification: the same request and snapshot pattern as `Console`, without its login and drafts.
* Several campaigns, sites or intents of one phone at once: they meet only in the lease, the window and the reservation, each of which is modelled. The
  composition of these waits over all services is argued, not checked: a window that is taken is refused at once, and the lease's wait is bounded.

## Plan

1. `PhoneWork`: lease and window orders of all services together, with the bounded waits, as one composition over `ImageLease` and `DeviceOperations`.
2. The preview's edits in `TripDrive`, with their proofs; the points of a drifting phone and of a trip in one model.
3. An abstract drive (start, points in order, arrival, silence) that `TripDrive`, `PhoneSync` and `PlayerTrip` implement.
