# Formal models of NE-RouteAI

TLA+ specifications of the logistics platform in this repository, checked with TLC on small instances and
proved with TLAPS for every instance where that is within the prover's reach. The models are written from the
code; the documents under `docs/` serve only as the source of claims to compare it with.

Contents: [the system](#1-the-system), [the modules](#2-the-modules), [the runs](#3-the-runs),
[the proofs](#4-the-proofs), [where code and documents disagree](#5-where-code-and-documents-disagree),
[what is not modelled](#6-what-is-not-modelled), [what is left](#7-what-is-left).

## 1. The system

The server is one Next.js process. Each service keeps its records in `Map`s in memory and writes some of them
through to Supabase. A request runs alone until it awaits real I/O (a write to Supabase: the audit log, vehicles,
drivers; a `fetch` to a provider; the abort timer), and other requests run meanwhile. A test with one caller never
sees these points; they are where most of the hazards below bite. The mobile client is a second single-threaded
program with its own queue, reached over a network that fails often and for long.

| Component | State | Operations | Interacts with | What is hard | What makes it correct |
|---|---|---|---|---|---|
| Driver outbox (`mobile/src/services/sync.service.ts`, `OfflineSyncScreen`) | outbox items with status and retry count, single-flight flag, online flag | enqueue, sync cycle, retry, dismiss, clear, connectivity probe | batch engine by HTTP; driver | lost answers, requests served after they were given up, buttons pressed during a cycle, capacity | statuses agree with the server; nothing recorded is lost; cycles end; an outage's backlog is sent |
| Batch engine (`services/sync.service.ts`, `/api/v1/sync`) | none of its own | six kinds of operation, one by one in `clientTimestamp` order | shipments, trips, telemetry, alerts, emergency | replays, partial failure, dispatch revising the same records meanwhile | a replay changes nothing that was settled; conflicts only when dispatch really cancelled; order kept |
| Circuit breaker (`adapters/circuit-breaker.ts`) | state, two counters, time of the next attempt | execute, reset, trip, getState | all provider adapters | answers of overlapping calls in every state | closed only when healthy, probes only after rest, recovers |
| Replanning (`services/replanning.service.ts`) | proposals | propose, approve, reject, apply | routing provider, route versions, trips, audit | verdicts from several dispatchers during one await | infeasible detours stay out; only approved versions reach the trip |
| Route versions (`services/route.service.ts`) | routes, versions | save, new version | replanning, planners | two versions under way | one active version, contiguous numbers |
| Trips, shipments, fleet, drivers (`trip.service.ts`, `shipment.service.ts`, `fleet.service.ts`, `driver.service.ts`) | four stores and the assignments between them, no transaction | create, assign, start, complete, update, cancel, archive | one another, optimisation, telemetry, batch engine | many records changed one by one with a wait after each; records copied before an await and written back after it | no phantom trips; nobody left behind by a departure; readers see a trip complete or not at all |
| Fleet optimisation (`optimization.service.ts`) | runs with approval status | run, approve, reject, apply | trips and the rest of that row | drivers exchanged while loading; apply twice, apply half | capacities kept, crews fit, nothing served twice; a route gets one trip |
| Mobile GPS and telemetry (`mobile/src/services/gps.service.ts`, `telemetry.service.ts`) | the phone's session and queue; positions, latest by vehicle, listeners | start, stop, capture, flush; ingest one or a batch | trips, shipments | captures, fixes and flushes overlap; replays; late positions | no fix forgotten; latest never goes back; duplicates only for a reason |
| Alerts (`alert.service.ts`, `notification.provider.ts`) | alerts, recipients, notifications | create (with suppression of duplicates), deliver, acknowledge, escalate, retry | notification provider, batch engine, emergency | dispatchers and retries act under a running delivery | attempts bounded; what says delivered was; one active alert per key unless one was closed |
| Ingestion (`ingestion.service.ts`) | sources, runs, payload hashes, events | register, update, run | external feeds | overlapping runs, a source updated under a run | one event per key; reports agree with the events; the record reflects the configuration and the runs that ended without a payload |
| Emergency missions (`emergency.service.ts`, `emergency-engine.ts`, the emergency page) | missions with audit trails; each page's copy | generate, list, accept, modify, override, execute an action | alerts | several officers, buttons not locked while answers are awaited, answers that overtake one another or are errors | every copy of a mission is a state it went through; what was overridden is executed only at a button pressed on a copy from before the override |
| Rate limiter (`security/rate-limiter.ts`, `middleware.ts`) | timestamps per key | check | every request | window edges | never more than the limit in any window |
| Agents (`agent.service.ts`) | runs with steps and approval status | run, approve, reject | language models, tools | verdicts in any order | nothing executed that was not approved |
| Others: risk, accessibility, analytics, monitoring, pilot, identity, observability, engines, adapters, copilot | records and formulas | | | | see section 6 |

`PROJECT.json` lists every component with its status, and under `hazards` each place where the code is exposed to
something a test would hardly reach, with the property that would catch it.

## 2. The modules

```
ConsignmentOutcome                       TripManifest                  abstract specifications
  ^ implemented by                         ^ implemented by
FieldSync                                TripLifecycle                 outbox + network + batch engine;
                                           ^ extended by                trips + shipments + vehicles + drivers
                                         PlanApplication               plans applied to those stores
                                           | assumes of a plan what is checked of
                                         FleetSolver                   the greedy assignment
CircuitBreaker   Replanning   AlertDispatch   Tracking   Ingestion   EmergencyMissions
```

Every module `M` has its instances in `MCM`; theorems about `M` are in `MProofs`, but for those about `PlanApplication`,
which are in `TripLifecycleProofs`, on whose invariant they rest, and those about `CircuitBreaker` and `Replanning`, which
are in `RoutingProofs`: the replanning service calls the routing engine through the breaker.

A step of a module is what the code runs between two points at which it really yields. An operator whose comment
begins "Plausible slip" is a wrong variant of the operator below it; `PROJECT.json` pairs each property with such a
variant that it must reject. They are not part of any specification.

### FieldSync

* `status`, `retryCount`, `born` are the outbox items (`MobileOutboxItem`). The array holds the newest item first,
  so positions follow from `born`, the order of enqueueing; `clientTimestamp`s are taken to be distinct and in that
  order. `retryCount` stops at `MaxRetryAttempts`, the only value it is compared with.
* `call` is `isSyncing` together with the awaited exchange. `req[r]` is an HTTP exchange: in transit, being worked on
  by the route handler, answered, or lost. Its `ops` are what the client sent and awaits, its `todo` what the server has
  yet to handle. An exchange the client has given up (abort timer) may still be served: up to `Cardinality(Slot)`
  exchanges are open at once, and nobody reads the results of one given up.
* `StartSync` is `syncOutboxBatch` up to its `fetch`; the four `Receive...`/`FetchFails` actions are its four endings,
  each with `finally { isSyncing = false }`. `StartSync` is called inside `Enqueue`, `Retry`, `GoOnline` exactly where
  the code calls it.
* `ProcessUnknown`, `ProcessPod`, `ProcessCheckpoint`, `ProcessReading`, `ProcessReport` are the branches of
  `processSingleOperation`. Between two operations the handler awaits an audit write, so dispatch and other
  requests come in between; inside one operation it does not yield before its last write to memory.
* `ship`, `proof`, `trip`, `cleared`, `departed`, `ingested`, `raised` are the records these branches touch. `ship` keeps
  of a status whether it is `DELIVERED`, `CANCELLED` or another (`OPEN`); `ingested` counts the records of a reading up to
  `MaxCounted`. `processed`, `evicted`, `revoked` and `settled` are history.
* `KeyOf` gives each hazard or SOS report the deduplication key of its alert. The titles are constants and, without a
  shipment id, the key names no vehicle, so a report made inside the cooldown of another one, of this cab or of another
  (`OtherCabReports`), gets the alert that is there and is answered SYNCED: `raised` keeps only that some alert of the key
  was raised.
* `Dispatch` is everything else that writes the same records, with the conditions it has in the code, which are next to
  none: `ReviseShipment` gives a consignment any other status, as a PATCH, a cancellation, and the creation, departure and
  completion of a trip do (shipments/[id]/route.ts:34 and 59, trip.service.ts:181-190 and 246-266), `EditSignature` writes or
  erases the signature on record (shipments/[id]/route.ts:39), `EditTrip` cancels a trip or takes it up again. A DELETE refuses a
  delivered consignment (shipment.service.ts:274), a PATCH to `CANCELLED` does not. A trip's loop over its
  consignments is one action per consignment, as it awaits a write after each.
* `Unknown` are the operations about entities the server may not know. Trips and vehicles are registered and removed
  beside the outbox, so `ProcessUnknown` may or may not be the branch such an operation meets.
* External, modelled by what the code has to cope with: lost messages, a platform that ends a request, an expiring
  session.
* `Carried` are the consignments on the scheduled trip the pings name: the first ping puts them in transit, delivered and
  cancelled ones too.
* Left out: manual trip and shipment status changes and checklist updates sent through the outbox (free form updates
  without conflict rules), and the backoff function `calculateBackoffMs`, which nothing calls.

### ConsignmentOutcome

The server judges a proof of delivery in one indivisible step, on the outcome its consignment has at that moment: rejected
if it is cancelled, accepted otherwise, and then delivered. The driver is told nothing but a judgement that was passed on
that proof. Dispatch may revise the outcome of any consignment at any time, so nothing is said of an outcome that stays.
`FieldSync!Outcome` maps `DELIVERED`/`CANCELLED` and `SYNCED`/`CONFLICT` onto it, and takes as the judgements that can still be
heard of those in the exchange the client awaits.

### CircuitBreaker

`state`, `failureCount`, `successCount` are the fields of the class; `wait` is the time to `nextAttemptTimestamp`, in
ticks, so that the clock never grows. `getState`, `Execute`, `onSuccess`, `onFailure`, `reset`, `trip` are the methods.
A caller is between `Execute` and its answer for any time, and the answer is applied in whatever state the breaker has
then. `failureCount` stops at the threshold, as it is only compared with it. `Error`, `Raised` and `defaultIsFailure`
keep of an error only its status field and what class its wording falls into. `counted`, `broken`, `goods`, `rest` are
history. The fallback provider changes no state of the breaker and is left out.

### Replanning

One trip, its route, any number of proposals and of requests under way. `req[r]` is a request's local state: what it
does, where it waits, and its copies (the trip as `updateTripRecord` read it). The yielding points are the routing
engine (`planRoute`), the audit write after the new version, the audit write after the binding, and, for departures
and completions, the writes of vehicle, driver and shipments before the trip is written back.

* `ProposeStart`/`ProposeEnd`: `proposeReplanning` around the routing engine. The arithmetic of constraints and
  criticality is a choice between infeasible, critical and neither; a trip that was en route is always critical.
* `ApproveStart`, `Commit`, `Bind`, `Applied`: `approveReplanning` through `createRouteVersion` and `updateTripRecord`.
  `VersionStart`/`Commit` is the same `createRouteVersion` called by a planner (`POST /api/v1/routes/{id}`).
* `Reject`, `ApplyStart`/`Applied`: the other two verdicts. `TripUpdateStart`/`TripUpdateEnd`, `TripStatusSet`: changes of
  the trip's status; statuses other than en route and completed are one value, `OTHER`.
* `live` and `number` are the `isActive` and `versionNumber` fields of the versions; `origin` says on whose behalf each was
  made (history), as are `infeasible` and `signed`. Failures of the audit writes are swallowed by the code.

### AlertDispatch

`alert`, `note` and `rcpt` are the alert records, the notification records and the `recipients` inside an alert. `Raise`
is `createAlert` up to its first send, suppression of duplicates included; `SendSucceeds` and `SendFails` are what
follows an answer of the provider: the attempt is counted, the next recipient taken, the alert's final status written.
`serving` is the position of that loop. `Resend...` are `retryNotification` and `sendDirectNotification`, which run the same
attempts on the same record without knowing of the loop. `Desk` is what dispatchers do meanwhile: acknowledge, resolve,
dismiss, escalate. Ages of alerts are counted in ticks up to the cooldown, beyond which nothing depends on them;
`accepted` and `closed` are history. The choice of recipients, preferences and texts are left out. The two providers in the
repository answer without waiting for I/O (notification.provider.ts:43-144), so with them a delivery is never interrupted for
long; the model lets dispatchers and retries act between any two sends, as they would beside a provider that does wait,
which the interface (`send` returns a promise) provides for.

### TripManifest, TripLifecycle

`shipment`, `vehicle`, `driver`, `trip` and `assigned` are the stores of four services. A `job` is a request between two of its
waits: the creation of a trip (vehicle, driver, shipments one by one, then the trip), a departure, a completion, each with
the copy of the trip it read and the shipments it has yet to write. One-step requests are assignments, cancellations,
edits, the archiving of vehicles and drivers, and the automatic start by a first position. `ordered`, `failed`,
`handled`, `late`, `departed` and `finished` are history. Stops concern only themselves and are left out. `TripManifest` is
what readers rely on: a trip appears with its whole list or not at all, and the list only grows. The mapping reads a trip as
`getTripById` does, from the assignments; the listing of trips returns the stored `assignedShipmentIds` instead
(trip.service.ts:44-81), which a late assignment does not reach.

### FleetSolver, PlanApplication

`FleetSolver` is the loop over vehicles and the loop over shipments of `runOptimization`; the order of the inner loop is that
of the priorities, and drivers are taken in rotation, exchanged when a steep sector needs experience, and kept exchanged
when the shipment is then refused, all as in the code. `Init` admits every request of the given kinds of shipments,
vehicles and drivers. Distances, durations, scores and costs decide nothing and are left out.

`PlanApplication` extends `TripLifecycle` by `approveOptimizationRun`, `rejectOptimizationRun` and `applyOptimizationRun`: an
application uses the job of `createTripRecord`, invents a trip id when the creation throws, binds the shipments and locks
the vehicle. What it takes from a plan is an assumption on the constant `Plan` that `FleetSolver!ServedOnce` backs.

### Tracking

The phone's session, captures that wait for a fix, the queue and the requests, and the server's store, latest position and
broadcast. A single ping and a batch are requests of their own; each may be lost before or after it was served, and a
queue is flushed only after a ping got through, as in the code. A fix stands for its time, so that "newer" is a comparison
of numbers. `dropped` and `doubts` are history. Signal quality and the phone's listeners are left out, and so is the validation of
positions: one invalid position makes the server refuse its whole batch (validation/index.ts:173-205), and the queue then
stays as it is.

### Ingestion

Runs take the source record that is registered at their start, and write to that record when they end. An update of a
source replaces the record, so records are objects (`obj`) to which the registry (`held`) and the runs refer. A run opens,
fetches with up to three attempts (after a 5xx answer at once, after any other failure with a pause), reads the body of
the answer, handles the whole payload in one turn, and closes after the audit write. The abort timer covers the fetch only: it
is cleared before the body is read (ingestion.service.ts:778 and 781), so `Timed` are the steps a timer or the program itself
brings about, and `Body` those for which a run waits on the other side without limit. `streak` and `unfed` are histories that
count, for each source, the runs in a row that reported FAILED and those that ended without any payload; the record's
counter agrees with the second. Items are well formed or not and have a key; what they say is left out.

### EmergencyMissions

`store` is `missionsStore` with each mission's status, the states of its actions and its trail; `screen` is what the page of
an officer shows (`result`), and `req` the requests between the two, with the answer once the server has given it. The
server's handlers test and write in one turn, and answer with the mission as they left it, however long the answer takes.
`plan` tells missions apart that were given the same id (the last six digits of the clock), `sight` remembers how much of the
trail an officer had on the page when executing an action; both are history. An answer with an HTTP error leaves the page's
copy alone, but for the button that asks for a mission: it does not look at the status, and shows the JSON of the error as the
mission (page.tsx:131-134). That copy is `ErrorBody`: it names no mission and has no actions, so decisions pressed on it are
refused. Notifications, `POST /missions` (called by no
page) and changes of the action list by `modify` (sent by no page) are left out.

## 3. The runs

| Run | Question | Instance | States |
|---|---|---|---|
| FieldSyncPods | Is nothing stranded or lost, is order kept, does no proof replace a signature, is ConsignmentOutcome implemented? | 2 proofs of one consignment, one signed and sometimes refused, a position whose departure reopens it; 1 exchange, capacity 2, 1 retry | 3.6 million |
| FieldSyncLimits | Is the driver told the truth, does every cycle end, is an outage's backlog taken up again? | a checkpoint of a trip that is cancelled and taken up again, a hazard report under a shared key; 2 exchanges, batch limit 1, 1 retry | 444 thousand |
| CircuitBreaker | When is the circuit closed, open, half open, and does it recover? | 3 callers, thresholds 3 and 2, cooldown of 2 ticks | 8 thousand |
| Replanning | What gets into the history of versions and onto the trip? | 2 proposals, 2 requests, 3 versions | 1.9 million |
| ReplanningRejection | Does a rejection stand? (a claim of the documents) | the same | violated |
| AlertDispatch | Attempts, truth of DELIVERED, one active alert per key, end of every delivery | 2 alerts of one key, a direct message, 2 recipients in all, 2 attempts, 1 manual retry at once | 857 thousand |
| TripLifecycle | Phantoms, departures, refinement of TripManifest | 2 trips, 2 shipments, 1 vehicle, 1 driver, 2 jobs, 3 further requests | 1.4 million |
| FleetSolver | Capacities, crews, nothing twice, nothing left without a reason | 3 shipments of 5 kinds, 3 vehicles of 4 kinds, 2 drivers of 3 kinds: every combination | 2.0 million |
| PlanApplication | The same stores under applications of a plan | 2 routes, one without a driver, 2 applications, 4 trip ids, 1 further request, 3 decisions | 2.2 million |
| Tracking | Is every fix accounted for, is the latest the newest, why are fixes stored twice? | 2 trips, one refused, 4 fixes, queue 3, batch 2, 2 requests | 3.8 million |
| Ingestion | One event per key, truthful reports and records, end of every run | 1 source updated twice, 2 runs, 3 items over 2 keys, 3 attempts | 0.6 million |
| EmergencyMissions | Do copies agree with trails, who executes what was overridden? | 2 officers, 2 missions of 2 actions, 2 requests, 3 buttons pressed, errors | 2.3 million |

**What the properties say.** `ToldTheTruth`, of everything but proofs: a synced clearance or reading has taken effect, for a
synced report an alert of its key was raised, and a conflict means that dispatch did cancel the trip. Proofs of delivery are
the matter of `ImplementsOutcome`: what is shown of one is a judgement passed on it, in one step, in the state of that moment.
`NothingLost`: an operation is settled or leaves the outbox only when the server has handled it, the capacity rule
excepted; handled, not accepted. `SyncingIsInFlight`: `SYNCING` items belong to the awaited exchange, so that no
error path leaves an item that no later cycle picks up. `FirstInFirstHandled`: the server meets operations in the order they were recorded, also
across abandoned requests. `SignatureWrittenOnce`: once a proof of a consignment was accepted, no proof replaces or erases
the signature on record until dispatch touches that consignment; after a departure, a new trip or an edit has reopened it,
the next signed proof overwrites the signature, as the code does (sync.service.ts:188-198 is skipped then). `ClosedMeansHealthy`,
`ProbedAfterRest`, `ClosesOnEvidence`, `Recovers`: when the circuit may be closed, half open, may close, and must
close. `VersionHistory`, `InfeasibleNeverCommitted`, `OnlySignedBinds`: the linear history of versions, and what may
get into it and onto the trip.

`AttemptsKept`: however loops of attempts overlap on one notification, the limit holds, nothing is given up early, and
nothing stays transient that nobody is sending. `DeliveredIsTrue`: DELIVERED is said only of what the provider accepted.
`OneActivePerKey`: the exact sense in which duplicates are suppressed. `PhantomsExplained`, `NobodyLeftBehind`: who is
bound to a trip that does not exist, and whom a departure or completion reaches. `LoadsRespected`, `MountainDrivers`,
`ServedOnce` are the solver's hard constraints, counted over the finished lists; `LeftForAReason` is its completeness: a
shipment is left over only if, against each vehicle, a constraint or freight at least as urgent keeps it out.
`PlanPhantoms`, `RouteAppliedOnce`, `PlanCarriedOut`: what an application leaves behind, alone and beside others.
`NothingForgotten`, `LatestIsNewest`, `TwiceForAReason`: the phone's queue and the server's store under loss and overlap.
`OncePerKey`, `RunsTellTruth`: events and reports of overlapping runs. `SourceTrue`: the source record shows the configuration and
the number of runs in a row that ended without a payload, which may be less than the number that reported FAILED; a source
updated under a run is excepted, as its update is lost. `CopiesTellTrail`: the audit trail accounts for the mission's
status, override and actions, and so it does in every copy of a mission on a page or on its way; what else a page may show is
the error of a dispatch. A copy need not be the latest. `OverruledUnseen`: the server executes overridden actions, but only
at buttons pressed on a copy from before the override. The page may have shown a newer copy before: a late answer puts an older
one back (section 5, EmergencyMissionsOlder).

Where a run names no type invariant, the invariant is a theorem only (section 4).

**Bounds.** Two proofs for one consignment are the least that make two deliveries compete; with the position that reopens
it, they overflow a capacity of 2. Two exchanges are the least that let an abandoned request run beside its retry: FieldSyncLimits has
them, FieldSyncPods has one, so there a request given up is served before the next is sent. The configuration
FieldSyncOverlap, run by hand, has the two proofs with two exchanges and passes (753 thousand states). A batch limit of 1
refuses a backlog of 2. One failed attempt exhausts the retries instead of 5; a higher limit only delays the status FAILED,
which is sent again like QUEUED. Three overlapping callers
reach the program's own threshold of 3 failures both by one burst and by answers that straddle an opening; the cooldown
of 2 ticks leaves a moment inside it. Two proposals and two requests give every pair of overlapping handlers, and three
versions a proposal's version between two others. Two recipients give a delivery a position to be overtaken at, two
attempts a retry. Two trips over the same two shipments and the same vehicle compete for everything; three requests beside
the jobs allow a cancellation, an edit and an assignment in one behaviour. Three shipments are the least for a driver
exchanged in the middle of a list. Four fixes overflow a queue of three and fill two batches; two requests let a batch
overlap a ping or another batch. Two runs over one source, two updates and three attempts give every order of start, update
and end. Two officers with three presses allow a decision between another's sight and action.

Every bound is a constant of its module. `Slot`, `MaxQueuedItems`, `MaxBatch`, `MaxRetryAttempts`, `Recovery`, `MaxRetries`,
`Cooldown`, `Capacity`, `BatchMax`, `Attempts` stand for limits of the program or the load on it; `MaxVersions`, `MaxAudience`,
`MaxRequests`, `MaxDecisions`, `MaxFixes`, `MaxPending`, `Objects`, `MaxPlans`, `MaxPresses` only keep the state space finite. The
theorems hold for every value of both. Symmetry is used for callers, requests, proposals, officers, shipments and
trips, which occur in no ordered or distinguished way, and only in runs without liveness.

**Deadlock.** The breaker and the outbox never stop and are checked for deadlock. The other instances do stop once their finite
stock of operations, requests, fixes or presses is used up, and say `CHECK_DEADLOCK FALSE`; that nobody waits for ever is what
`SyncEnds`, `DispatchEnds` and `RunsEnd` state.

**Fairness.** `FieldSync!Fairness`: an awaited fetch ends because the answer comes or the abort timer fires
(sync.service.ts:158-170); the server's event loop goes on with some request it holds; the connectivity monitor probes every
15 seconds (sync.service.ts:359-365). The abort timer is cleared before the body is read (sync.service.ts:170 and 185); the
assumption holds all the same, as React Native's `fetch` resolves only when the whole body is there. Nothing is assumed of the
driver, the network or the session. `HealthySpec`, used
only by FieldSyncBacklog.cfg, is the fairest day possible: no faults at all and a driver who keeps pressing "Force Sync
Now", so that the counterexample cannot be blamed on bad luck. `CircuitBreaker!FairBreakerSpec`: the clock runs, requests keep
coming, and a provider that is up answers. `Recovers` assumes further that the provider stays up and that no
administrator trips the breaker again and again. `AlertDispatch!FairSpec`: every call of the notification provider returns
or throws (notification.provider.ts:43-144). `DispatchEnds` assumes further that dispatchers stop retrying at some time: a
manual retry resets the counter the delivery works with. `Ingestion!FairSpec`: a run goes on, because its fetches are
answered, fail or are aborted after six seconds, and timers fire; nothing is assumed of a body, which no timer covers on
the server. `RunsEnd` therefore says of each run that it ends unless it waits for a body that neither arrives nor breaks off.

## 4. The proofs

All theorems hold for arbitrary values of the constants under the modules' `ASSUME`s (disjoint kinds of operation,
positive bounds, distinguished values outside the sets, finitely many requests where they are counted), which TLC evaluates on every run.

**FieldSyncProofs.** `TypeCorrect` is the type invariant, action by action. The statuses the driver sees come from an
exchange's result map, so `ToldTheTruth` is not inductive by itself: the invariant `IInv` adds that every exchange
carries only true results (`ResultsTrue`), that the map of the awaited one is complete when it ends
(`ResultsComplete`), because an item without a result counts as synced in the code, and that a trip found cancelled was revoked
(`CancelledWasRevoked`). The argument is that what happened stays on record (`Monotone`): a clearance, a reading, an
alert of the key, a revocation; so a result that was true when recorded is true when it arrives, however late. From it:
`DriverToldTheTruth`, `NothingIsLost`, `NoItemStranded`. Consignments are different, as dispatch may take everything about them
back. `SignatureStays` rests on `SettledIsDelivered`: a consignment left alone since a proof was accepted is delivered, so
the next proof takes the branch that keeps the signature. `OutcomeImplemented`: every step judges one proof as ConsignmentOutcome
would, or revises an outcome, or tells a judgement the awaited exchange holds, or is a stutter. None of them assumes
anything of `Carried`. `HandledInOrder` has an invariant of its own, `OInv`, about all exchanges at once, abandoned ones
included: an exchange takes all that is pending, so whatever is older than an operation it carries is settled, dropped,
frozen or carried by it too (`SentInOrder`), and the server takes the oldest of what an exchange has left. That there is
an oldest follows from the well-foundedness of `<` on the times of recording.

**RoutingProofs, the breaker.** The invariant states, for each state of the breaker, how the counters relate to history: closed,
the counter is the run of failures and below the threshold; open, what is left of the cooldown and the rest so far add
up to the recovery time; half open, each counted success is a success of this rest. `BreakerTyped`, `ClosedIsHealthy`,
`ProviderRests`, `ClosingIsEarned` follow.

**RoutingProofs, replanning.** What approval relies on is decided before any approval starts: a proposal under synthesis has no
verdict yet (`Synthesised`, `FreshUnknown`), and an infeasible one is `FAILED` or `REJECTED` for ever
(`InfeasibleRefused`), so approvals never meet one (`Approvals`). Every version made is for the baseline, a planner or
an approved proposal (`Origins`), and the trip, and every stale copy of it held by a request, names the baseline or an
approved version (`Bindings`); the copies must be in the invariant because they are written back. `ReplanningTyped`,
`HistoryKept`, `InfeasibleStaysOut`, `SignedOnly` follow.

**AlertDispatchProofs.** The delivery loop's position must lie on the list of its alert (`ServingListed`) or a step would
write to a recipient that is not there; with it `AlertsTyped`. `AttemptsAreKept` and `DeliveriesTrue` are inductive over that.
`OneActive` adds `ClosedKnown`: an alert that has been closed stays on record as such, also after a delivery that was under
way overwrites its status; the rest is that suppression looks at every alert still active and young.

**TripLifecycleProofs.** `IInv` says what each request under way may rely on (`JobsSound`: the record it comes to next
exists, what it has still to write is on its list), that no two creations build one trip (`OneBuilder`), and that a trip on
record was ordered (`TripsSound`). `TripsTyped`, `PhantomsHaveACause`, `NobodyIsLeft`, and the refinement
`TripsImplementManifest`: the shape of every step as the manifest sees it is an order, an appearance, an addition to the list,
or nothing. About applications of a plan, which run beside those requests, `PlanInv` adds what each of them has reached
(`PlaceSound`: the trip being created for it was ordered with the shipments of its route, and the trip it binds them to
lists them all or is an invented id) and that a stored trip lists everyone it was ordered with (`ListsFull`). It holds of
any number of overlapping applications because lists only grow, stored trips stay stored and invented ids stay invented
(`Grows`). `PlanTyped` and `PlanPhantomsHaveACause` follow.

Two more invariants over that one concern applications that are left alone. `RoutesAppliedOnce` rests on `OneAtATime`: as
long as no two applications have overlapped, what has been entered is for routes the one under way has reached, and once
none is under way either nothing was entered or the plan is APPLIED, which neither an approval nor a rejection takes back.
`PlansCarriedOut` rests on `CarryInv`: in a calm the only request at work is the application's own creation of a trip, every
route before the present one is done, and of the present one whatever is no longer left has been bound. A done route stays
done because routes share no shipment (`PlanAssumption`, which `FleetSolver!ServedOnce` backs) and vehicles are only taken.
TLC checked both invariants on the instance of PlanApplication.cfg before they were proved.

**FleetSolverProofs.** For requests of any size: `SolverTyped`; `EveryShipmentOnce`; and `DriversFit`, from the invariant that the
driver so far of the vehicle being loaded is fit for all that is loaded (`CrewInv`, `FitFor`): an exchange goes to a driver
with the experience, and experience is never lost by an exchange. `NothingOverloaded` is about sums over a list, which the
model computes by a recursive function. That the function exists and what it returns is found by climbing through the
naturals (`Climb`: the least number at which a set of naturals breaks off, from the well-foundedness of `<`), and so are
the three facts about sums the proofs need: one summand more adds its weight (`WeightOneMore`), more shipments weigh no less
(`WeightNoLess`), none weigh nothing. `LoadInv` then says that what the loop has counted is the sum over the list.
`LeftoversExplained` rests on `ReasonInv`: shipments are offered most urgent first, so what fills a vehicle is at least as
urgent as what it turns away, and the reason against a shipment stands as the vehicle takes more (`ReasonStands`). One
turned away for want of a driver is turned away by all who are on duty, as the exchange looks at each of them.

**TrackingProofs.** `TrackInv` says of every request, waited for or given up, what it has behind it and before it (`Sound`):
a ping fails only if its trip does not fit, a request that ends well has nothing left, and what is no longer left is
stored or does not fit. So whatever a flush takes out of the queue is on record, and `NothingIsForgotten` and
`TrackingTyped` follow; `LatestNeverGoesBack` is inductive over it. `TwiceOnlyForAReason` counts: how often a fix has been
stored, plus the requests that may yet store it (`Carriers`; a refused batch the phone still waits for among them), plus
one if it is queued and with no batch under way (`Loose`), is at most one more than the doubts. Each step changes one
request, so its effect on the sum is read off that request, the queue and the record (`ChancesMove`): storing turns a
carrier into a store, a flush turns the loose into carriers, and only a request given up or a doubled flush adds, which
is when `doubts` does. What `Cleared` leaves of the queue is found by climbing, as the sums are.

**IngestionProofs.** `IngestionTyped`; `EventsOncePerKey`; `ReportsTrue`; and `RegistryTrue`, from the invariant that a run of a
source not updated under it holds the record the registry holds (`Agreement`): each end of a run then writes to that record
what it adds to `unfed`, and a run without a payload reports FAILED, so that `unfed` never exceeds `streak`.

**EmergencyMissionsProofs.** One line added to a trail changes the newest decision, the newest line that touches an action and
the chain of statuses in a way stated by lemmas (`StatusAdded`, `ChainAdded`, one lemma per handler). The invariant `IInv` says
that stored missions agree with their trails, that every copy of a mission is a prefix of the stored one unless its id has gone to
another, that nothing but a dispatch is answered with an error shown as a mission (`Erred`), and that
a request to execute an action was founded on a trail in which no override of it stood at the end
(`Foreseen`). The argument is that the store only moves on (`MovesOn`): trails grow, and an id changes hands only to a newer
mission, so copies stay copies and founded requests stay founded (`Carry`). `MissionsTyped`, `CopiesTrue`, `OverrulesUnseen` follow.

Every invariant and every action property that a passing run checks is also a theorem. Only model-checked are the five
properties of liveness (`SyncEnds`, `OutageFlushes`, `Recovers`, `DispatchEnds`, `RunsEnd`): TLAPS has no proof rules for
`ENABLED`, on which fairness rests.

## 5. Where code and documents disagree

Each of these has a configuration in which TLC finds the documented claim violated. The first is a run of `PROJECT.json`; the
others are run by hand, `tlc -config <name>.cfg <module>`.

| Configuration | Module | What TLC shows |
|---|---|---|
| ReplanningRejection | MCReplanning | A rejection during the approval's routing call is overridden and the trip is moved. |
| ReplanningStaleTrip | MCReplanning | A departure or completion under way takes back the route version an applied proposal bound. |
| FieldSyncAuthFrozen | MCFieldSync | Items frozen by a 401 are never sent again: no path turns `AUTH_REQUIRED` back to `QUEUED`. |
| FieldSyncIngestTwice | MCFieldSync | A replayed GPS ping is stored a second time. |
| FieldSyncCancelLost | MCFieldSync | What a cab sends revives a consignment that dispatch cancelled: the first ping of a scheduled trip puts all its consignments in transit. |
| FieldSyncBacklog | MCFieldSync | An outbox larger than the server's batch limit (200; the client keeps 500) is refused for ever. |
| CircuitBreakerServerErrors | MCCircuitBreaker | HTTP 500 answers never open the circuit: the adapters put the status only in the message, and the wording test does not know 500. |
| AlertDispatchDuplicates | MCAlertDispatch | Two alerts of one key are active inside one window: an acknowledged one suppresses nothing, and becomes active again when its delivery ends. |
| PlanApplicationTrips | MCPlanApplication | A plan is APPLIED with shipments bound to a trip that does not exist: the creation failed and an id was invented. |
| EmergencyMissionsReaccepted | MCEmergencyMissions | An overridden or modified mission is accepted, against "transitions status PENDING -> ACCEPTED" (emergency.service.ts:232). |
| IngestionMalformed | MCIngestion | A run that reports FAILED sets the failure counter to 0, against "consecutive failures increment" (docs/ner-data-ingestion-architecture.md:108): a feed of malformed items only. |
| EmergencyMissionsOlder | MCEmergencyMissions | A page goes back to an older copy of the mission it shows, and loses an override it had shown. |
| EmergencyMissionsLost | MCEmergencyMissions | A mission is replaced by another whose id is the same: ids are six digits of the millisecond clock, which come round every 1000 seconds. |

Smaller ones, read while modelling and without a configuration:

* Outbox: at capacity an unsent proof can be dropped (sync.service.ts:64-73 against docs/offline-sync-architecture.md:98),
  and of several pings the newest goes first; the backoff of section 4 of that document is computed by a function nobody
  calls; a reconnection during a running cycle does not start another.
* Reports: an SOS made within ten minutes of another one under the same key, of another cab even, is answered SYNCED and raises
  nothing (alert.service.ts:70-106), while the screen promises to "broadcast a high-priority distress alarm with your vehicle
  identity" (SosScreen.tsx:65); the same holds of hazard reports.
* Deliveries: a departure, a new trip or an edit takes a delivered or cancelled consignment back to an open status
  (trip.service.ts:181-190 and 246-255, shipments/[id]/route.ts:34), and the next signed proof replaces the signature on record.
* Replanning: two overlapping approvals of one proposal make two versions (docs/dynamic-replanning-architecture.md:193);
  the committed version is planned without the coordinates the proposal avoided; an old approved proposal can be applied
  again after a newer one; an infeasible proposal has approval status `NOT_REQUIRED`, not `REJECTED` (the same document,
  line 116).
* Providers: Mapbox and Google geocoding share one breaker, and thresholds are 3, not 5
  (docs/PRODUCTION-AUDIT-AND-CORRECTION-REPORT.md:257); in HALF_OPEN every caller is admitted; a provider's fetch has no
  timeout of its own.
* GPS: a fix that arrives after the next trip was started is sent under that trip (gps.service.ts:184); listeners hear a fix
  after tracking was stopped (docs/gps-tracking-architecture.md:15); a queue above 100 pings (the phone keeps 500,
  validation/index.ts:204 admits 100) is refused for ever, and the queue is flushed only after a ping got through (the same
  document, lines 22 and 108); pings of a batch the server refuses or skips leave the phone with the rest.
* Trips and plans: two trips may take the same vehicle and driver (trip.service.ts:134); the solver may give one driver to
  two vehicles (optimization.service.ts:251 and 298); the mountain endorsement is never tested
  (docs/optimization-engine-architecture.md:89); a shipment without destination coordinates is assigned but has no stop
  (optimization.service.ts:361); two overlapping applications make two trips of one route.
* Ingestion: an update of a source during a run is lost (ingestion.service.ts:463); the exponential backoff is applied to 4xx
  answers, which need no retry, and not to 5xx answers, which are retried at once (docs/ner-data-ingestion-architecture.md:106); an
  empty dry run resets `consecutiveFailures` (ingestion.service.ts:461), and
  nothing flags a source after five failures (the same document, line 108); a run whose feed stalls in the middle of the body
  never ends (ingestion.service.ts:781).
* Emergency: the answer of a failed dispatch is shown as if it were a mission (emergency/page.tsx:131-134; in the model, and
  allowed by `CopiesTellTrail`), and an action executed before the override of its mission is marked overridden afterwards
  although it is under way.
* Agents: a rejected run can be approved later, a run that exhausts its steps is stored as RUNNING, and failed tools are
  recorded as successful (agent.service.ts).

## 6. What is not modelled

* Pure arithmetic over coordinates, risk scores and durations: the engines, the Kalman filter, the constraint solver.
  Their outcomes enter the models as choices.
* Records that concern one request at a time: risk and accessibility records, pilot and monitoring boards, audit and
  analytics. Nothing interleaves in them that could go wrong beyond what one test shows.
* Rendering, HTTP wrappers, validation schemas, formatting, and tables written best effort: no read path of the services
  depends on the tables.
* Identity and tenancy: permission tables and token checks, one lookup each. Every actor of the models is authorised.
* Copilot, model factory and agents' reasoning: external language models. The agents' approval gate has the shape that
  PlanApplication checks for optimisation runs.
* The rate limiter: one synchronous filter over a list per key; it shares no state between steps.
* Restart of the server: the services keep their records in memory and have no recovery code, so there is nothing to
  state beyond their loss. The outbox of the mobile client is in memory too.
* Inside the modelled components: trip stops, shipment items, the older dispatch store, uniqueness tests and documents of
  vehicles and drivers, preferences and choice of recipients, the contents of feed items, manual status changes and checklists sent
  through the outbox. The notes in `PROJECT.json` say which per component.

These formulas, screens and tables are most of the source by lines; the models cover the services in which several actors
change shared records.

## 7. What is left

1. The rate limiter against "at most the limit in any window", with the clock as a parameter, and the agents' approval gate.
2. An abstract specification of replanning: one decision per proposal.
3. Trip stops and the uniqueness tests of the fleet, composed with TripLifecycle.
