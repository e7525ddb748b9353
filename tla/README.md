# A formal model of llm-cost-autopilot

This directory holds TLA+ specifications of the gateway in `src/packages`, the TLC
configurations that model-check them and TLAPS proofs about them. The gateway takes
completion requests, routes each one to a provider and model under operator rules,
client overrides and budgets, executes it with timeouts, retries, a deadline, a circuit
breaker and one fallback, and records what it did as telemetry, which it later rolls up
and deletes. Everything is translated from the source; `PROJECT.json` names the lines
behind every definition.

Paths below are relative to `src/packages` unless they start with `docs/`, `specs/`,
`scripts/` or `db/migrations/`.

## 1. Inventory

One Node.js process serves HTTP on one event loop. Several replicas may share one
PostgreSQL database. Code between two `await`s runs without interruption, so the unit of
interleaving is the stretch between two awaits; a SQL statement is one step of the database.

| Component | State | Operations | Hard behaviour | Correct when |
|---|---|---|---|---|
| Circuit breaker (`api/src/routing/circuit-breaker.ts`) | per provider: state, consecutive failures, openedAt, probe slot | `tryAcquire`, `recordOutcome` | calls overlap state changes; an outcome arrives in another state than its call began in | the probe slot is never leaked, the count fits the state, the documented diagram is followed, no provider is shut out for good |
| Provider attempt (`api/src/routing/provider-attempt.ts`) | retry index, timers | call with timeout, backoff, retry | timer against late answer, deadline during a sleep | nothing outlasts the deadline, retries bounded, one outcome per candidate |
| Fallback executor (`core/src/routing/execute-with-fallback.ts`) | the attempts chain | try the chosen candidate, try the next one | skipped candidates look like failures | at most two attempts, the second only after an availability failure of an autopilot decision |
| Completion route (`api/src/routes/completions.ts`) | handler locals | nine awaits from body to answer | failures at every await, shared breaker | answer, stream and record agree; exactly one of each |
| Record builder (`core/src/telemetry/build-event.ts`) | none | check chain, sum up | throws after the money is spent | never throws on what the executor returns |
| Telemetry writer (`persistence/src/telemetry/write.ts`) | buffer, timer, promise of the INSERT in flight | `write`, timer, `flushNow`, `close` | overlapping flushes, failing INSERT | FIFO, no record twice, none forgotten |
| Boot and shutdown (`api/src/index.ts`, `server.ts`) | what the signal handler awaits | start, SIGINT/SIGTERM | requests and streams in flight | ends, and loses nothing |
| Retention (`persistence/src/telemetry/retention.ts`, `rollup.ts`) | expired events, rollup rows, advisory lock | aggregate, delete events, delete rollups | several replicas, crash between statements, pooled lock | counted once, deleted only after counting, kept 30 days |
| Configuration caches (`persistence/src/overrides/store.ts`, `budgets/store.ts`) | cached rows | mutate, `snapshot` | load overtaken by a mutation; replicas | a request sees what was saved before it, or the delay has one of four causes |
| Budget guardrail (`core/src/budgets`, `api/src/budgets`, `persistence/src/budgets`) | budgets, spend in telemetry, gauges | evaluate, status, metric loop | spend is written after the answer | over-admission is bounded by what is in flight |
| Governance and decision (`api/src/routing/resolve-decision.ts`, `core/src/overrides`, `core/src/routing/decide.ts`, `core/src/evaluation`) | none | resolve, score, decide | many cases | precedence, determinism, pins are single candidates |
| Live stream (`api/src/plugins/stream-bus.ts`, `routes/telemetry-stream.ts`, `web/src/lib/sse`, `web/src/features/live-graph/graph-reducer.ts`) | sequence number, subscribers, paced queue, reducer state | publish, subscribe, reconnect, reduce | restart, loss, interleaved requests | the graph shows one request as it was, and in the end |
| Health scheduler (`persistence/src/health`) | failure counts, health rows | probe round | overlapping rounds, stores out of order | a provider that recovers is routed to again |
| Catalog and pricing (`persistence/src/catalog`, `persistence/src/db/seed.ts`) | active pricing table | load, seed | two statements, a seed in between | a decision is made on one table |
| API keys (`persistence/src/auth`, `api/src/plugins/auth.ts`, `routes/keys.ts`) | rows, verified keys in memory | create, verify, revoke | slow hash, invalidation on one replica | a revoked key stops working |
| Provider adapters (`providers/src`) | registry, armed failures | call, arm | what a vendor leaves out | an attempt the executor can account for |
| Telemetry queries (`persistence/src/telemetry`, `core/src/insights`, `api/src/plugins/reconciliation-metric.ts`) | none; alert in memory | page, sum up, watch | records stored between reads, overlapping ticks | pages cover once, figures reconcile, alerts are justified |
| Operator routes (`api/src/routes/budgets.ts`, `rules.ts`, `routing-simulate.ts`, `telemetry-replay.ts`) | rows | create, patch, delete, simulate, replay | read, validate and update are three steps | nobody's change is undone; a simulation foretells |
| Command line (`cli/src`) | none | one request each | the answer may be lost | the exit code tells what happened |
| Web console (`web/src`) | page, filter, generation, dialogs | load, next page, submit, toggle | late answers, cancelled dialogs, two operators | a page shows what is the case |
| Deployment smoke test (`scripts/smoke-deployment.mjs`) | results so far | check, retry, poll, exit | a completion repeated although it was executed, a record stored late or lost | exit code 0 only for a deployment that works |
| Redaction (`core/src/redaction`, logger options) | text | replace | regular expressions | not modelled |

They interact by calls (route -> executor -> attempt -> adapter; route -> breaker), by
shared process state (breaker, caches, writer buffer, bus), by the database (rules,
budgets, events, rollups, health) and by the stream to the browser. Smoke test, command line and console are clients of the routes.

## 2. Modules

| Module | What it is |
|---|---|
| `ErrorClasses` | the outcome classes and the three sets the code sorts them into |
| `CircuitContract` | abstract: the documented state diagram, one gate per provider and the calls that are busy on it |
| `CircuitBreaker` | the breaker with any number of concurrent callers and a clock |
| `CircuitBreakerProofs` | its theorems |
| `CompletionContract` | abstract: a request is refused without a trace, or executed and then answered once with one record of the same outcome |
| `Completions` | the route with attempt loop, executor, breaker and record builder; instantiates the breaker and refines both contracts |
| `CompletionsProofs` | its theorems |
| `TelemetryLog` | abstract: a FIFO line of records settled from the front in batches |
| `TelemetryWriter` | the batched writer; refines `TelemetryLog` |
| `Shutdown` | the signal handler, requests and stream subscribers around the writer |
| `Retention` | overlapping retention runs on one database |
| `ShutdownProofs` | the theorems about writer and shutdown |
| `RetentionProofs` | the theorems about retention |
| `Governance`, `Guardrail` | pure operators: the decision of a request, the verdict and the status of budgets |
| `ConfigCache` | a configuration table and the copy every replica keeps of it |
| `ConfigCacheProofs` | the theorem about the copies, used for rules and for budgets |
| `Admission` | completions and previews that read catalog, rules, budgets and spend while these change; two instances of `ConfigCache`, with the operators of `Governance` and `Guardrail` |
| `AdmissionProofs` | the theorems about the decision and the verdict, and about the handlers that use them |
| `ApiKeys` | verification, its cache, revocation, on several replicas |
| `HealthScheduler` | overlapping probe rounds, restarts, and the health they store |
| `ConfigRoutes` | POST, PATCH and DELETE of budgets and rules, statement by statement |
| `RulePage`, `KeysPage` | the console's pages that change a rule and API keys |
| `CommandLine` | every command with its request, its status and its exit code |
| `GraphReducer`, `LiveStream` | the live graph's reducer as operators; bus, SSE route, connection, paced queue and reducer end to end |
| `DataHooks`, `EventBrowser` | the console's loads and forms under late answers; keyset pages over records that arrive |
| `Reports`, `CostFigures` | summary, timeseries, anomalies and insights; what the Cost page makes of them |
| `Alerts` | the two loops behind /metrics |
| `Adapters` | what each adapter makes of a vendor's answer; the armed failures of the mock; the figures of a record made of such attempts |
| `DecisionRoutes` | simulation and replay, statement by statement, with the two budget evaluations of a simulation |
| `DecisionViews` | how the console shows a recorded decision; what its playground, replay and simulation pages conclude from one |
| `SmokeTest` | the deployment smoke test and the deployment as far as its verdict is about it |
| `DevTrigger` | the development trigger: three buttons, the mocks they arm and the rule they create |
| `Operations` | composes the parts from `ApiKeys` to `DevTrigger` |
| `PartsProofs`, `OperationsProofs` | an inductive invariant for every part; the theorems about `Operations` |
| `MC*` | values and bounds for TLC |

Operators named `X_Something` right before `X` are *faulty variants*: plausible bugs of the
code that `X` models. Nothing uses them; substituting one for `X` must make TLC report the
property that is listed with it in `PROJECT.json`, which shows the property has teeth.

### How state and actions correspond to the code

**CircuitBreaker.** `entries[p]` is the `Entry` of provider `p`. `openedAt` is only ever
compared with the cooldown, so the model keeps the elapsed time, saturated at the cooldown.
`calls[c]` is the call a request has in flight between `tryAcquire` and `recordOutcome`, and
whether it was granted the probe slot, which the code itself does not remember. `enabled`
is the configuration switch: without it no entry is touched.

**Completions.** `req[r].stage` is the await the handler is in. `calling` and `backoff` are
the two awaits inside `runProviderAttempt`; `settled` is the way back through the executor.
Instants (`logicalDeadlineAt`, timers) are kept as the time that is left. A timer may fire
late: `Tick` does not wait for it. The decision is any member of `Decisions`, the budget
verdict any of the four; the `candidate.*` events are part of `decision.committed`. Not
modelled because unreachable: the branches for a provider without an adapter
(completions.ts 206-213, 318-346), since the catalog is built from the registry
(wiring.ts 22-34) and the registry only grows while booting. An exception of
`buildTelemetryEvent` is not an action either; `ChainIsBuildable` shows it cannot happen.

**TelemetryWriter.** `owner` and `waiters` are the pending `flushNow()` promises. When the
INSERT settles, owner and waiters resume in the order they registered, in one run of the
microtask queue, so `InsertSucceeds` and `InsertFails` resume all of them at once. One
consequence that the model makes visible: `close()` may resolve while an INSERT started by
another waiter is in flight. The exit still does not abandon it, because destroying the
pool waits for the query (`ExitAbandonsNothing`).

**Shutdown.** `stage` is what the signal handler awaits. `app.close()` and `db.destroy()`
are library calls, modelled by what they wait for. A rejected `close()` leaves the handler's
promise unhandled, which ends the process (`crashed`).

**Admission.** `req[r].stage` is the await a handler is in. The catalog's two statements and
the read of the healthy providers are steps of their own in the order wiring.ts issues them;
rules and budgets come from the replica's copy or from a load, and the spend of each budget
is one statement. `Execute` stands for the whole of `Completions`: it costs any of `Charges`,
and the record reaches the table by `Flush`, or never. Writers mutate on any replica, a
replica restarts, a seed switches the pricing table, a day ends. `reasons` is a history
variable that says why a copy may lack a mutation.

**Governance, Guardrail, Reports, CostFigures.** The code's floats and decimals are integers:
money in millionths of a dollar, ratios in millionths. Identifiers are numbers, since only
equality and order of them count. A stable sort (`Sorted`) puts every element at its rank: those
that are less, and those before it that are not more. Texts of explanations are left out.

**ApiKeys, HealthScheduler, ConfigRoutes, Alerts.** One action per stretch between two awaits
or statements; a lost connection after a commit is an action. The keys' cache is a sequence,
because its eviction follows insertion order. `answered` is a history: the keys whose revocation
was answered with 204.

**LiveStream.** `queue` is what waits in front of the paced pump, `Deliver` one event of the
connection. What is published while the connection is broken is lost to the client; after a
restart the bus counts from 0. The script of a request is what `Completions` publishes.

**DataHooks.** One module for all hooks: what differs is how a continuation recognises that it
is late (`guard`), which the model has per hook, and what a mount resets. **RulePage** and
**KeysPage** have the dialogs, which are unmounted or kept while a call is under way.
**EventBrowser** composes the browser's pages with the server's keyset query.

**CommandLine.** A command is a request, a status and an exit code. The operator's ledger
notes what exit codes told; the server's rows are beside it.

**DecisionRoutes** interleaves the reads of a simulation or a replay with changes of rules, prices,
health, budgets, spend and the clock. Each of the two decisions of a simulation is evaluated on its own,
in parallel (`Promise.all`): `LoadBudgets`, `StartSpend`, which takes the evaluation's own `now`, and one
`ReadSpend` per group of budgets. `moved` is a history: something changed that one evaluation had
read and the other had not. **DecisionViews** applies the pages' own conclusions to the answers and records that
arise there: savings, "match" or "drift", the sentence on a proposed rule.

**SmokeTest.** The script is sequential, so its state is the check it is at, the attempt and the
verdicts. The deployment keeps what the verdict depends on: whether this month has a partition,
whether a rule governs every request, and the records of the smoke completion on their way through
the writer's buffer. **DevTrigger.** A fire is its next call; the browser's timers are a set, since
none is ever stopped.

**Operations.** The parts share no variable and take what they need of each other as input,
so an interleaving adds nothing to either: `part` is the part that moves in a behaviour, the
others rest in an initial state. Every invariant there is guarded by the part it is about.

**Retention.** Each SQL statement is a step. A rollup row is the multiset of events its sums
were taken over, so overwriting, adding twice and missing are visible without arithmetic.
The lock belongs to a database session, and the pool (max 20, idle timeout 30 s) may run the
unlock in another one, or close the holder as idle: `Release` and `SessionEnds`.

## 3. Runs

| Run | Module, cfg | Expect | What it shows |
|---|---|---|---|
| `breaker` | `MCCircuitBreaker` | pass | invariants, refinement of `CircuitContract`, and `KeepsServing` |
| `stale_outcome` | `MCStaleOutcome` | violation | an outcome of an older call decides HALF_OPEN in the probe's place |
| `completions` | `MCCompletions` | pass | two interleaved requests keep both contracts and the breaker's protocol, and are answered |
| `shutdown` | `MCShutdown` | pass | the writer is a FIFO log and drains; a regular exit abandons nothing accepted |
| `shutdown_loss` | `MCShutdownLoss` | violation | a request answered after the writer was closed has no record |
| `open_stream` | `MCOpenStream` | violation | one subscriber that stays keeps the shutdown from ending |
| `retention` | `MCRetention` | pass | overlapping runs never overcount, delete early, or (with the lock) delete unsummed events |
| `rollup_slices` | `MCRollupSlices` | violation | a day that expires in slices keeps only the last slice's counts |
| `two_replicas` | `MCTwoReplicas` | violation | a run without the lock deletes what nobody has summed |
| `admission` | `MCAdmission` | pass | decisions use acknowledged rules and budgets, one pricing table, and spend passes a budget by no more than what was not yet on record |
| `operations` | `MCOperations` | pass | every part around the request path keeps its properties, listed below |
| `revocation` | `MCRevocation` | violation | a verification in flight puts a revoked key back after the 204 |

`operations` checks, of the part that moves:

| Property | What it says |
|---|---|
| `TypeOK` | every part is well-typed: the cache within its limit, no fetch but the latest unaborted, a loading page has a call under way |
| `ConfigIsAsAsked` | rows stay coherent and have in every field what was last granted (`RowsAreAsAsked`), by the rule page too (`RuleIsAsAsked`), and exit codes tell what the server did (`LedgerAgrees`) |
| `GraphShowsOneRequest` | the live graph tells one request's story, in order, without a gap while the connection lasts |
| `PagesTellWhatIs` | a late answer never shows (`ViewsAnswerTheirQuestion`), a switch or an editor shows what was confirmed (`PageShowsConfirmed`), the key list is the server's and no secret is lost (`KeyListIsCurrent`, `SecretsAreHandedOver`), the smoke test's exit code tells what the deployment does (`SmokeVerdictHolds`), an alert is on for a reason (`AlertIsJustified`), and the development trigger shows the one fire there is and does what its button says, until a timer clears what is not its own (`TriggerIsHonest`) |
| `PagesCoverOnce` | a walk through the pages shows no record twice and misses none that was there when it began |
| `FiguresAgree` | totals, groups, series, anomalies, shares and chart of one page reconcile (`ReportsReconcile`, `CostPageAgrees`) |
| `AdaptersKeepContract` | an attempt's tokens, cost and class fit together on every adapter; an armed failure strikes once; the record of any chain of attempts adds up (`RecordsAddUp`) |
| `RoutesForetell` | a simulation foretells the decision, and its budget outcome changes only with the cost or with what moved between its two evaluations (`SimulationForetells`); a replay on the same inputs reproduces the decision (`ReplayReproduces`), and its page calls drift what is (`ReplayPageIsTrue`) |
| `DecisionsAgree` | all panels of a record tell the same (`RecordIsShown`); what the playground saved and the simulation page puts into words fits what it lists beside it (`PlaygroundIsTrue`, `SimulationPageIsTrue`); and two evaluations that read the same judge the dearer decision no more mildly (`VerdictsFollowCosts`) |
| `RevocationTakesEffect` | from some moment on no replica accepts a revoked key |
| `RecoveredProviderReturns` | a provider that no longer fails becomes healthy and stays so, restarts included |
| `StreamIsShown` | the view catches up again and again |

### Bounds and why they are enough

- `breaker`: three callers are a call admitted while closed, the probe, and a refused third;
  a threshold of two makes one success break a streak; a cooldown of two has a middle.
- `completions`: two requests that start on the same provider meet in every pair of stages.
  The two policies are the defaults and one where a timeout and a backoff do not fit into
  the deadline twice. The breaker opens at the first failure so that open, half-open and
  skipped candidates all occur with two requests; streaks are `breaker`'s subject.
- `shutdown`: four records in batches of two allow a full buffer, the timer and `close()` to
  wait for the same INSERT. `InsertsFail` is FALSE in the two violation runs, to show that
  the loss and the hang need no database failure. The stream is one that stays or leaves.
- `retention`: two runs, two events, days of two ticks, a fidelity of one tick and rollups
  kept for three, and a clock that reaches past all of them (`MaxNow`).

- `admission`: two requests on two replicas with one writer and one change around them: a
  load that a mutation overtakes, a foreign mutation, a lost answer, a seed between two reads,
  a restart with records buffered and two requests that spend the same room all need no more
  than one change (`MaxChanges`); the clock passes one midnight, and a rolling window reaches
  back to the first instant. Replicas are symmetric. 1.35 million states.
- `operations`: every part has two of what can overlap: two health rounds, two patches of a
  row, two ticks, two requests on the stream and in simulation. Queues, caches and pages hold
  one or two, so that they overflow; the recorded requests are two that share an instant and
  one that is late; five observations in four buckets have a spike, a missing actual cost and
  a provider filter. `Max*` bound clicks, moves, calls, losses, restarts and the clock, each at
  the number its longest property needs. `MaxMoves` = 2 is a record and the end of the day, or two
  changes of budgets, or a budget and a rule, between two reads; one of them is enough to part the two
  evaluations. The clock starts in the last instant of a day (`RoutedNow`, `DayLength`), and the tables of
  budgets are none, one that warns, and that one with another that blocks the client, so that each is one
  change from the next. One of the proposals is a disabled rule. The smoke test is called in every way its arguments tell apart (`MCSmokeArguments`),
  with `MaxGlitches` answers that go wrong and `MaxPolls` polls: one glitch may hit the completion
  and another its repetition, its record or the poll. `MaxFires` and `MaxMisses` allow a fire that
  meets the timer, the armed failure or the rule of an earlier one, after a call that failed.
- `revocation`: the part "keys" of `operations` alone with one replica, one verification and one
  revocation, so that only their overlap can break the promise.

### Fairness

- `CircuitBreaker`: time passes; every call comes back (it runs under its own timer); a
  provider that would be admitted again and again is asked again and again. The last one is
  an assumption about traffic and is only used by `KeepsServing`.
- `Completions`: weak fairness of the clock and of each handler's own next step: reads are
  answered and timers fire. No provider is assumed to answer, no read is assumed to succeed.
- `Shutdown`: weak fairness of answering (that is what `Completions` shows), of the writer's
  own steps and of the signal handler. Nobody has to signal; no stream client has to leave.
- `Retention` and `Admission` have only safety properties.
- `ApiKeys` (`KeysFairness`): the clock runs, so that an entry of the cache expires, and what a
  verification awaits comes back; nobody has to verify, and the invalidation may be lost.
- `HealthScheduler` (`HealthFairness`): the interval fires while the scheduler runs, and every
  probe and every store settles one way or the other: a probe is aborted when its time is up
  (scheduler.ts:42-43), and a statement is answered or its connection fails. Faults are bounded (`MaxFaults`): the property is about what follows
  the last one.
- `LiveStream` (`StreamFairness`): the pump's timer fires, an open connection delivers what it
  holds, and the reconnect timer fires. No request has to publish, no server to stay up.
- A part of `Operations` that rests has no enabled fair action, so its fairness asks nothing.

## 4. Proofs

`CircuitBreakerProofs` proves, for every set of providers and callers, every threshold and
every cooldown (assumption `BreakerAssumption`: both positive, `NoProvider` is no provider):

- `TypeCorrect`: `Spec => []TypeOK`
- `ProbeSlotNeverLeaks`: `Spec => []SlotHeld`
- `CountMatchesState`: `Spec => []FullCountIffTripped`
- `Refinement`: `Spec => ImplementsContract`

They rest on one inductive invariant (`IInv`): well-typed entries and calls; in every entry the
slot is taken exactly in "half_open" and the count is full exactly outside "closed"; behind
every half-open circuit there is a call that holds its slot; and a disabled breaker has only
closed circuits, without which a step of a disabled breaker could not be mapped to the
diagram. A failure is counted only below the threshold because a closed entry never has a
full count, so the type invariant needs the second part. The refinement uses the invariant
to map each step to a step of the contract or a stutter.

`ShutdownProofs` proves, for every set of records and stream clients and every batch size
(assumptions `WriterAssumption`, `ShutdownAssumption`), of `ShutdownSpec`:

- `ShutdownTypeCorrect`, `CloseFlushes`, `FlushComes`, `ExitLeavesNothing`: the invariants
  `ShutdownTypeOK`, `ClosedIsFlushed`, `FlushIsDue`, `ExitAbandonsNothing`
- `WriterIsLog`: `ShutdownSpec => ImplementsLog`

The writer's part of the inductive invariant says that `close()` comes after the last record,
so that an INSERT it owns has left the buffer empty; without that, a later success could
resolve `close()` with rows still buffered. The process's part adds that nothing is buffered
once the handler is past the writer, and that a record is new to the writer until its request
is answered, which is what the log demands of a record it accepts. A flush moves rows from the
buffer to the batch and so leaves `batch \o buffer` alone; the end of an INSERT cuts the batch
off its front. The lemmas on sequences say how members, concatenation and `SubSeq` go together.

`RetentionProofs` proves, for any number of overlapping runs, every set of events and all
periods (assumption `RetentionAssumption`):

- `RetentionTypeCorrect`, `CountedOnce`, `FullFidelity`: the invariants `TypeOK`,
  `NeverOvercounted`, `KeptInFull`
- `SumsFirst`: `Spec => LockedRunSumsFirst`

The invariant adds what a run relies on between its statements (`Relies`): its cutoff lies a
fidelity window back; while it writes rollups, all that has expired is either summed up or
belongs to a day still to be written; afterwards all of it is summed up. Other runs cannot
spoil this (`JobKeeps`): the cutoff is fixed, so a record stored later never falls below it.

`CompletionsProofs` proves, for every finite set of requests, all providers, decisions, retry
policies and outcomes of calls (assumptions `CompletionsAssumption` and `BreakerAssumption`):

- `TypeCorrect`, `EveryoneIsToldTheSame`, `ChainNeverRefused`, `DeadlineKept`: the invariants
  `TypeOK`, `ToldTheSame` (`ChainMatchesStream` and `AnswersAgree`), `ChainIsBuildable`,
  `DeadlineIsKept`
- `UsesBreakerAsSpecified`: `Spec => ImplementsBreaker`, so that the theorems of
  `CircuitBreakerProofs` hold inside the route
- `KeepsContract`: `Spec => ImplementsContract`

The invariant says of every request (`Sound`), stage by stage, how long its chain may be and that a
second attempt only follows a failure of autopilot that calls for a fallback; that no timer outlasts
the deadline; that a status comes with the answer, and with 200 or 502 exactly one record that agrees
with it; and how many candidates the stream has started and completed. What requests share is the
breaker, whose entries have count, slot and state agree, and the counter of exhausted deadlines,
which is bounded by the number of requests that met one (hence finitely many). For the contract the
stages map to its phases; for the breaker, the call that a request has in flight is its caller's.
`PowersAssumption` states that powers of two are naturals, which the provers do not know of `^`.

`ConfigCacheProofs` proves `CopiesAreExplained`: `CacheSpec => [](CacheTypeOK /\ StaleHasCause)`,
for any replicas, tables and contents whose markers are distinct (`MarkersAreDistinct`). What has to
be added is what a load in flight knows (`LoadsKnow`): the rows it is bringing are those of the
table, or there is a cause for them not to be. `AdmissionProofs` uses the lemmas twice.

The first half of `AdmissionProofs` is about pure operators, for every catalog, rule list, price table and record:

- `AutopilotChoosesTheBest`: the choice is eligible and no eligible model scores higher, which needs
  that the sort's first is one before which no other ranks (`RanksBefore` is a strict weak order)
- `DecisionIsPriced`: a decision, pinned or not, names a model of the catalog, its cost by the
  snapshot's table, and that table's version
- `SpendGrows`: for one budget and one instant, more records never mean less spend. A sum over a
  finite set is a recursive function, so the lemmas first show that there is one, then that it grows
- `VerdictLeavesRoom`: a verdict that does not block leaves room for the estimate in every
  blocking budget

The second half proves, for any requests, replicas, tables, prices and instants
(`AdmissionAssumption`: ids are unique within a budget table, limits, prices and token counts are
naturals, models and prices well-formed, the first instant not after the last; `CopiesAssumption`):

- `LocalsHaveTypes`, `ChangesReach`, `AdmittedHadRoom`, `PricingIsPinned`: the invariants `TypeOK`,
  `ChangesReachDecisions`, `AdmittedWithinBudget`, `PricingPinned`

The invariant joins those of the two copies with what each local of a handler still has to do with
the tables it was read from, although these have changed: the entries and the version belong to one
table (`CatalogSound`); the decision was priced by it (`DecisionSound`); the budgets it evaluates
were a copy's (`BudgetsSound`); and every spend read so far covers at least what was on record when
the evaluation began (`SpendCovers`). The last one is kept by other requests because records are only
added, and is where `SpendGrows` is needed; with the verdict it gives the room (`HasRoom`).

`PartsProofs` and `OperationsProofs` are about the parts that `Operations` composes. Each part has
an inductive invariant of its own, with a lemma for its initial states, one for its steps and one
for what follows from it. A step of the whole is a step or a stutter of every part (`PartsApart`), so
that the invariants hold side by side (`OperationsInvariance`), and with them, for every value of
the constants:

- `OperationsTyped`, `ConfigurationAsAsked`, `GraphIsOfOneRequest`, `PagesTell`, `WalksCover`,
  `ContractIsKept`, `FiguresFit`, `DecisionsAreForetold`: the invariants `TypeOK`, `ConfigIsAsAsked`,
  `GraphShowsOneRequest`, `PagesTellWhatIs`, `PagesCoverOnce`, `AdaptersKeepContract`,
  `FiguresAgree`, `RoutesForetell`
- `PagesCover`, `BrowserTyped`: the same of the event browser's own specification

What each invariant has to add to the property it is for:

- Event browser (`BrowserInv`): what a query answers is described by `IsPage`: the records of a page
  lie behind the cursor it was asked with, none behind the one it gives, and every record that was
  due is on it or behind that one. Cursors descend (also why turning a page changes what the effect
  depends on, so that the page shown is never taken for another); what was due when the walk began is
  on the pages so far or behind the last cursor; and only the call for the present dependencies can
  be the latest.
- Live stream (`StreamInv`): queue and wire are one line of events on their way (`Coming`). All that
  was shown and all that is coming are events of the script that were published, of one request up
  to the next "request" event (`StreamStory`); and while no connection broke, their numbers rise and
  nothing published in between is missing (`StreamWhole`). `GraphReducer` is reasoned about by what
  a fold over an event appended or consumed makes of a graph.
- Data hooks (`HooksInv`): a call whose id or signal is current asks the question on the screen, and
  a view that shows an answer, shows one about it; a form that is in flight has its latest call.
- Rule page (`RulePageInv`): while nothing made the page unsure, one call at most is under way and
  no load beside it, and what has been answered or read is what the server has.
- Keys page (`KeysPageInv`): the keys of calls and dialogs exist; until a creation was overtaken there
  is one creation at a time, and every key the server has was listed, is shown, or is on its way.
- Configuration routes (`ConfigInv`): a row has the fields its table has, whatever is merged into it.
- Command line (`CliInv`): from a command's first step to its answer the ledger agrees with the store
  but for the row the command is about (`AnswerIsKept`).
- Development trigger (`TriggerInv`): until a timer clears what is not its own one fire is under way;
  a rule is created once and once more for each list that failed, counted by the fires that passed.
- Smoke test (`SmokeInv`): what a check that passed established of the deployment, for each position
  in the sequence of checks; and, without a glitch, the only reasons there are to fail.
- API keys (`KeysInv`): a replica's cache is a sequence of distinct keys that were created.
- Health (`HealthInv`): what is counted, stored and carried by a probe is bounded by the faults.
- Alerts (`AlertInv`, `BudgetLoopInv`): the reading behind a tick is a share (`Share`: of the records
  read no more are good than there are), and the alert is on only with a run of bad readings; the
  utilization a gauge shows is the rounded one of the fullest enabled budget (`BudgetMetrics`).
- Reports (`ReportsInv`): an answer is what its statement makes of the records it was executed over
  (`basis`), and the three statements of a summary were executed over growing sets of records. All
  else is about these values. Sums over finite sets are those of a recursive function, and what is
  true of every sum (that it splits over groups, grows with its set, is carried by a bijection) is
  shown of the smallest set it would fail for, which the provers can reason about as they cannot
  about induction. Groups, buckets and collapsed models are then partitions of the filtered records
  (`TotalOfGroups`); an anomaly's history is a set of such buckets; rounded shares exceed the whole by
  less than one each (`SharesFit`). Rows and the page of recent requests are ordered by a
  strict total order, in which the number of those ahead of an element is its place (`Ahead`).
- Adapters (`AdaptersInv`): an attempt that was made is accountable (`Accountable`); a failure was
  armed before it was injected. The records of chains of one and of two attempts are worked out
  symbolically (`RecordOfOne`, `RecordOfTwo`), which is all that `RecordsAddUp` speaks of.
- Decisions (`DecisionInv`): rules of a store have different ids, so that one of those that match governs
  (`GoverningExists`) and a rule that joins them either governs or changes nothing (`GoverningJoined`).
  The two decisions of a simulation are those of the rules and the catalog it read, without and with the
  proposal (`SimulationSound`). An evaluation's budgets, time and spend are those of the world as long as
  nothing moved since; hence, as long as `moved` is false, what both evaluations have read is the same
  (`EvaluationSound`, `ReadsAlike`, `ReadsSpend`), and at equal cost so are their verdicts
  (`EvaluationsSound`). A recorded decision is the autopilot's on its catalog or a governed one (`EventSound`).

Their assumptions are on the constants of each module (`*Assumption`), which every run evaluates: bounds
are naturals, windows and periods positive, `Null` and the other markers are none of the values they
stand beside, prices and catalogs are well-formed, what the mock is scripted to fail with is one of the
classes it accepts (`ScriptedClasses`).

Only model-checked: `DecisionsAgree`, whose panels select from and sort lists, and with it
`VerdictsFollowCosts`; all liveness and fairness, which are out of the prover's reach; the values of retry delays. `MaxNow`
bounds the clock in `Retention` also for the proofs, but it may be any number; so may `MaxChanges` in
`Admission` and the `Max*` of the parts.

## 5. What the runs found

Six runs exhibit a disagreement between the code and what its documents say; the findings
in `PROJECT.json` quote the lines. More were met on the way and are not runs of their own: either
a property is stated so that it holds, with the exception named, or the model simply shows them:

- `lca_request_deadline_exhausted_total` misses a deadline that ends the retry loop of the
  last candidate (`DeadlineIsKept` has the count as sound only; `docs/operations.md:88` promises every halt).
- After a failed INSERT that a timer's flush was waiting for, buffered records have no flush
  coming to them until the next write (`FlushIsDue` holds up to the first failure;
  `write.ts:8` promises a maximum time).
- Revocation: `docs/operations.md:482` has it effective on the next request, and the comment at
  `persistence/src/auth/keys.ts:106` has `invalidateVerifyCache` enforce it. A verification that read the row
  before the revocation puts the key into the cache behind the invalidation (`keys.ts:83-87`), which is
  what `revocation` shows on one replica. The other replicas are not invalidated at all, and neither is this
  one when the answer to the UPDATE is lost; in each case the key is accepted for up to 60 s more, or as
  long as calls that were in flight last. What does hold is `RevocationTakesEffect`: some time later
  nobody accepts it.
- Simulation: each of its two decisions is judged by an evaluation that loads the budgets, takes the time and
  reads the spend itself (`api/src/routes/routing-simulate.ts:91-104`,
  `api/src/budgets/evaluate-request-budgets.ts:25-31`), although the guide compares them as effects of the
  rule (`docs/operations.md:461`). A budget changed, a window that ends or a request recorded in between
  changes `budgetOutcomeChanged` with no difference in cost; `SimulationForetells` excepts what `moved`.
- Simulation: the guide (`docs/operations.md:461`) and the comment at `routing-simulate.ts:68-69` treat the
  proposal as an enabled rule, but the route takes `enabled` from the body, so that a disabled proposal
  matches nothing. The contract test (`routing-simulate.contract.test.ts:138-142`) agrees with the code, and the model has it so.
- Live graph: `reduce` ignores every event whose number is not above the last one it saw
  (`web/src/features/live-graph/graph-reducer.ts:166`), the bus of a new process counts from 0 again
  (`api/src/plugins/stream-bus.ts:22`), and a reconnect resets nothing: a request published after a server
  restart may be dropped, although lines 161-162 there say that a fresh request is started "whenever a new
  eventId's request.received arrives". `LiveStream` has the restart; what the graph does show is then
  still the story of one request (`GraphShowsOneRequest`), but not the newest.
- Rule editor: a rule whose `clientIds` is the empty list, which matches nobody, becomes one
  that matches everybody when it is saved (`web/src/features/governance/rules/rule-form.ts:45-56`,
  `113-134`). `RuleIsAsAsked` excepts it.
- Decision graph: after a fallback that succeeded `DecisionGraphPanel.tsx:95-108` never says so,
  because the winner it looks at is already the effective candidate; `RequestDetailView.tsx` gets
  it right. The routing page (`web/src/app/routing/page.tsx:24-29`) shows the record of one
  request beside the live graph of another while that one is in flight.
- Timeline: after a fallback it says that the fallback model was selected, shows the first
  attempt only, and its row at "decided + 2 ms" may lie behind the end of a very fast
  request. `RecordIsShown` speaks of the order as far as that row does not.
- Tokens chart: the output segment is drawn `totalTokens` tall on top of the input tokens.
- Event browser: Next after a failed answer follows the cursor of another page and may pass one
  over; `PagesCoverOnce` is said of walks without it.
- Command line: `specs/001-llm-routing-mvp/contracts/cli.md:25, 32` has `lca health` exit with 1 when degraded (it exits
  with 4) and speaks of retries (there are none); `--messages-file -` always fails before a
  request is sent; `budgets update --scope global` can never clear the client; `keys revoke`
  of an unknown key exits with 0.
- Smoke test: an unknown argument shows the help and exits with 0, while `scripts/smoke-deployment.mjs:30-31`
  says 0 only when every check passed; retries that are no number crash
  it with 1 (bad configuration otherwise exits with 2); the poll takes a 503 as final, which every
  other check repeats; an operator rule overrides the script's pin, so that it may reach the paid
  provider that lines 38-39 there rule out.
- The id of an event is the client's `x-request-id` where that is a UUID (`api/src/server.ts:79-85`): a POST that is
  repeated with it, as the smoke test does, is executed twice and has two records of one id.
- Partitions of the events exist for 2026-09 and 2026-10 only
  (`db/migrations/1725840000000_init.sql:50-54`);
  `specs/001-llm-routing-mvp/data-model.md:290` promises a job that creates the next ones. In a month
  without one every INSERT fails and its batch is lost; `SmokeTest` has both kinds of month.
- Development trigger: the 4.2 s timer of a request clears the status of a later one and enables
  the buttons, so that fires overlap and the rule may be created twice; so may it after a list of
  rules that failed. Arming arms every mock, and the one that is not asked stays armed: a later
  request that is pinned to it fails. With retries configured, or with a cheaper provider that is
  not a mock, "Fallback" yields no fallback.
- Insights: a "Lower-priced catalog option" may cost the same, since the configuration accepts a least
  difference of 0 (`api/src/config.ts:39`, `core/src/insights/optimization.ts:111`);
  `ReportsReconcile` has it cheaper by what is configured.
- Playground: after a fallback "Est. cost" and the savings are those of the candidate the decision
  chose, beside the route of the one that ran (`SavingsAreReal` excepts it).
- Drift alert: every adapter reports its own estimate as the actual cost (e.g.
  `providers/src/openai/adapter.ts:91-92`), so that no record of the gateway fails to reconcile
  (`RecordsAddUp`) and the alert that FR-019a (`specs/001-llm-routing-mvp/spec.md:126`) asks for can
  only be raised by rows written by others; after a fallback the actual cost stays unknown.
- Restart: booting stores every provider as healthy (`api/src/index.ts:50-67`), so that an unhealthy
  one is routed to again, by all replicas, until enough probes in a row have failed.
- Gauges: until the first tick of a process /metrics shows rate 0 and alert 0, and a restart
  forgets an active alert.

## 6. Plan

1. Done: breaker, completion route, writer and shutdown, retention; caches, guardrail and
   governance with `Admission`; stream, health, keys, routes, reports, adapters, command line
   and the console's stateful pages with `Operations`; the smoke test and the pages' conclusions.
2. Proofs done: breaker, completion route with both refinements, writer with shutdown, retention,
   copies of the configuration, decision and verdict, admission, and every part of `Operations`:
   its types, the live graph, the rows, the pages, the walk, the adapters' contract, the reports'
   figures and the foretold decisions. Left: how a decision is shown (`DecisionsAgree`), as far as sorted
   lists can be reasoned about without induction over data.
3. Left to model: the audit rows that a warning budget writes and their list; the read of the
   daily rollups; request metrics.

### Not modelled

Redaction (regular expressions over text, which TLC cannot judge), the seed's and the
migrations' SQL, heartbeats and request metrics, layout, navigation and wording of the console,
and the presentation of its overview and catalog pages, which keep no state of their own
beyond the hooks of `DataHooks`. The code generator, benchmarks and the adapters' contract tests
are tools around the program.
