# Verification of secure-eval-wrapper

TLA+ models, TLC runs and TLAPS proofs for `secure_eval_wrapper`. Paths of source
files are relative to `src/open-core/src/secure_eval_wrapper/` unless they start
with `src/`.

1. [The system](#1-the-system)
2. [The models and the code](#2-the-models-and-the-code)
3. [Properties and runs](#3-properties-and-runs)
4. [Fairness](#4-fairness)
5. [Proofs](#5-proofs)
6. [Where code and documents disagree](#6-where-code-and-documents-disagree)
7. [What is not modelled](#7-what-is-not-modelled)
8. [Plan](#8-plan)

A run is `tlc -config <Run>.cfg <Module>` (the module is in the table of section 3),
a proof `tlapm <Module>_proofs.tla`. `PROJECT.json` holds the map from definitions to
source lines, the hazards, the mutants and the theorems.

## 1. The system

The repository collects market data, validates it, computes signals, and
executes orders at five levels of risk: backtest, simulation, a simulated FIX
counterparty, paper trading with PostgreSQL as the durable authority, and a
guarded live path that is blocked by default. Most packages are deterministic
functions over batches. State that survives, is shared, or is raced for is kept
by the components below.

| Component | State | Operations | Hard because of | Correct when |
|---|---|---|---|---|
| Paper broker (`paper/broker.py`), one object per worker process | cache of orders, applied fills, accounting, rebuilt from PostgreSQL | submit and resume, query, synchronise fills, cancel, expire, recover | every operation alternates transactions and venue calls; crashes and lost answers between them | an order is sent once and only after a durable claim, an unanswered call is queried and not repeated, a reservation lives as long as the venue may execute |
| Durable paper repository (`paper/durable_repository.py`, migrations 0017-0021) | per order a submission, a reservation, a projection with its logs, three outboxes with claim and recovery leases; per run an open-order counter and the kill switch | the `prepare_*`, `claim_*`, `complete_*`, `persist_*` transactions | clock readings older than the lease they are compared with, late and reordered observations | a leased claim is decided by its owner, projections go forward, the counter counts |
| Internal paper venue (`paper/venues/internal.py`) | orders, fills, an event log | submit, acknowledge, fill, reject, cancel, expire, list | it moves by itself; the fill list lags behind the order | (environment of the broker) |
| Paper accounting, run lifecycle, reconciliation (`paper/accounting.py`, `engine.py`, `approval.py`, ...) | balances, run state, approval, manifest | apply, start, complete, compare | absolute balances written from a worker's memory | every fill is booked once |
| Simulated FIX (`fix/session.py`, `gateway.py`, `faults.py`) | sequence numbers, message log, timers; orders, reports, inventory, scheduled faults | receive, tick, logon, logout, reconnect; market bars | gaps, replays, resets, drops and delays, an exception in the middle of a market pass | an accepted message stays accepted, one ClOrdID makes one order, what clients are told is what the broker did, inventory is never oversold |
| Simulated execution and backtest (`execution`, `backtesting`) | active orders, positions, cash, funding, round trips | bars, fills, funding, signals | order of events of one instant, reversals, fees against cash, rejections | account, equity and round trips agree; orders lead to the target; no purchase overdraws |
| Guarded live execution (`live/durable_repository.py`, `broker.py`, `recovery.py`, `restart.py`, ...) | kill switch, run, risk state, preflight reports and approvals, order and dispatch rows | preflight, approve, start, prepare, claim, suppress, recover, reconcile, trigger, reset | everything is decided in a transaction from what was read before it | no stale authority prepares or resets, reservations are covered, work resumes after an incident only on evidence newer than it |
| Live database bootstrap (`live/bootstrap.py`, `src/open-core/scripts/apply_postgres_migrations.py`) | one database, an advisory lock, a plan per operator | plan, confirm, lock, create, migrate, verify, configure | each is a transaction of its own; an administrator drops and recreates the database between them | nothing is built upon what was not planned; only a clean, complete catalogue is configured |
| Shadow runtime (`live/shadow_runtime.py`, `shadow_repository.py`) | one evidence bundle per run id | decide from a fixture or public data, persist, replay | crash points between insert, commit and answer; several runners of one id | a committed bundle never changes and every answer is what is stored |
| Market data (`data_collection`, `data_validation`, `data_pipelines`, `storage/postgres`) | a dataset per provider and run, raw, validated and quarantined rows | collect page by page, validate, reconcile, persist | venues publish, close and correct candles between the pages | no page is skipped, every observation is accounted for |
| Monitoring (`monitoring`, `paper/monitoring.py`) | incidents | evaluate, acknowledge, resolve | repeated evaluations | not modelled |
| Alpha library, signals, storage of phases 1 to 6, evaluation wrapper, scripts | none of their own | functions of a batch | | not modelled |

Interactions. The paper engine calls the broker; workers of one run share
PostgreSQL and the venue, and PostgreSQL alone decides between them: unique keys,
`FOR UPDATE`, compare-and-set on outbox states, transition triggers. The FIX
gateway and the backtest both drive the simulated broker, with callbacks of
their own for risk and for accounting. The live path repeats the paper outbox
with other leases, an authority per order, and no transport: every prepared
dispatch is suppressed or recovered, and an order found at the exchange is an
incident. The shadow runtime uses the live policy without its database rows. The
pipelines call collectors, validators and one transaction of the store.

`PROJECT.json` lists what is hard to test in each component, at its line.

## 2. The models and the code

| Module | Models | Instance for TLC | Proofs |
|---|---|---|---|
| `PaperVenue` | the venue's record of one order, pure operators (`paper/venues/internal.py`) | | |
| `PaperOrderRow` | PostgreSQL's rows of one order and every transaction on them (`paper/durable_repository.py`, the transition triggers) | | |
| `PaperBroker` | workers, venue and PostgreSQL running concurrently (`paper/broker.py`) | `MCPaperBroker` | `PaperBroker_proofs`, `PaperEffects_proofs` |
| `PaperBrokerProps` | its properties and the refinement mapping | | |
| `PaperOrderBudget` | abstract specification: a run's order budget | | |
| `FixSession` | one FIX session (`fix/session.py`), pure operators | | |
| `SimulatedBroker`, `BrokerPass` | the simulated broker's orders, and its market passes with the callbacks as constants (`execution/brokers/simulated.py`) | | |
| `FixGateway` | session, gateway, broker and fault orchestrator together (`fix/gateway.py`, `fix/faults.py`) | `MCFixGateway` | `FixGateway_proofs` |
| `Backtest` | the backtest engine with portfolio, sizing, risk guard, funding, metrics (`backtesting`, `execution`) | `MCBacktest` | `Backtest_proofs` |
| `GuardedLive` | one guarded live run (`live`, migrations 0022-0025) | `MCGuardedLive` | `GuardedLive_proofs` |
| `Bootstrap` | operators and administrator of the live database | | `Bootstrap_proofs` |
| `Shadow` | shadow decisions and their persistence | `MCShadow` | `Shadow_proofs` |
| `MarketData` | the OHLCV pipeline of two venues | | `MarketData_proofs` |

`PaperVenue` is extended by `PaperOrderRow`, that by `PaperBroker`. `FixGateway` and
`Backtest` each instantiate `BrokerPass` with their own `Risk` and `Apply`.
`PaperBrokerProps` instantiates `PaperOrderBudget` with a refinement mapping.

A transaction is one action, and so is a call to a venue; whatever the code reads
before a transaction it keeps in the actor's own record until the action that
uses it. A repository transaction is often a pair `XxxOK`, the conjunction of
the checks that would raise, and `Xxx`, the committed rows; an action commits when
`XxxOK` holds and takes the code's error path otherwise.

### Paper trading

| Variable | Code |
|---|---|
| `db[o]` | all rows PostgreSQL keeps of an order: submission state (`sub`), `counted_open` (`counted`), reservation (`res`, `resQty`), booked fills (`fills`, `filled`), outboxes (`dis`, `can`, `exp`), projection (`proj`), the logs `paper_venue_order_observations` (`obs`) and `paper_orders` (`ords`) |
| `openCount`, `kill` | `paper_run_risk_state.open_order_count`, the kill switch row |
| `venue[o]` | the venue's record; `shown` is the part of the fill list its endpoint already returns |
| `pc[w]`, `ctx[w]` | the next call of a worker and its local variables: the order and fills it has read, whether it holds a claim token, the age of its clock reading |
| `fresh[w][o]` | the worker's in-memory accounting agrees with PostgreSQL on the order |
| `calls[o]`, `crashes` | history of side effects asked of the venue; bound on crashes |

| Operation | Actions |
|---|---|
| `submit_order`, `resume_submission` | `PrepareNew` or `PrepareReplay`, `Claim`, `Send`, then `Ack` and `Note`, `MarkUnknown`, or `MarkRejected` |
| `query_order` | `StartQuery`, `Query`, `QueryNone` or `Fetch`, `Apply`, `QueryDispatch`, `RecoverDispatch`, `QueryCancel`, `RecoverCancel` |
| `synchronize_fills` | `StartSync`, `SyncFetch`, `SyncApply` (one transaction over all orders of the run) |
| `cancel_order` | `StartCancel`, `CClaim`, `CSend`, `CObs`, `CDone`, `CAmb` |
| `expire_remaining_orders` | `StartExpire`, `XClaim`, `XSend`, `XDone`, `XAmb` |
| `recover_unresolved` | `StartRecover`, the steps above as far as the order's rows lead, `XRec`, `XQuery`, `XFetch`, `XApply`, `XRecDone`, and `HydrateStep` |
| process death, time, operator | `Crash`, `Tick`, `TriggerKill` |
| the venue | `Arrive`, `VenueAcknowledge`, `VenueReject`, `VenueFill`, `ShowFill`, `CompleteCancel`, `ExpireIoc` |

* Quantities are small naturals, all orders have the same quantity `Qty`. Prices,
  currencies and balances are left out, and so are the monetary limits; the
  open-order limit is kept.
* A record hash is the data it covers: two rows with one identity conflict when
  their data differ (`Phase7ConflictError`).
* A claim token is its owner, since an outbox row is claimed once. A recovery token
  is the last worker to claim the recovery: each claim raises the generation, and a
  worker is sequential.
* A lease is the number of ticks left; a clock reading is its age in ticks, at most
  `MaxAge`. `lease_expires_at > at_utc` is `lease + age > 0`.
* Only sequences of one order are ever compared, so they are per order.
* The order cache decides only whether `query_order` refuses a reverted terminal
  state, and the model takes both (`Reverted`).
* The loops of `expire_remaining_orders` and `recover_unresolved` are modelled per
  order, so other orders may move in between.

### FIX gateway and simulated broker

`ses` is the session record (state, next numbers, accepted messages, refusals, timers,
a pending test), `now` the injected clock; `book` the broker's orders by
ClOrdID, `held` the position, `econ` the gateway's `_economic`, `view` its
`_by_clord`, `faults` and `late` the orchestrator's scheduled faults and delayed
report; `submits` and `raised` are history.

`Peer` and `PeerRaw` are `handle` and `handle_raw` on every message: administrative,
new order, cancellation, malformed or for other parties, with any sequence number and PossDup
flag.
`Handle` contains the faults that duplicate a message, open a gap or drop the
session. `BarOpen` and `BarCompleted` are the broker's two market passes with the
gateway's risk callback (inventory less reserved sells) and its accounting
callback, which may raise in the middle of a pass (`Failing`).
`ReleaseDelayed`, `Logon`, `Reconnect`, `Logout`, `Timer`, `Disconnected` and `Clock`
are the methods of those names. The character codec is a message's `decodes` flag.

A pass (`BrokerPass`) is a fold over the active orders; when a callback raises, the
orders before keep their effects and the pass's result is lost.

### Backtest

The events of an instant run in the order of their priority and series
(`Turn`): `CompleteBar`, `MarkClose`, `Fund`, `Signal`, `OpenBar`, one action each;
`EndInstant` records the equity point, `Finish` calculates the metrics. `pf` is the
portfolio (cash, positions, marks, fees, funding, realised profit), `book` the
active orders of a series, `bar` its open bar, `line` this instant's funding and fill rows and
`trips` what `_round_trip_pnls` makes of the rows (`Replayed`: funding first). Any exception ends the run with the
kind in `status` (price, inventory, metrics). Which bars, rates and signals an instant has is the
request's data and is chosen step by step. Prices are whole numbers and quotients
are rounded down.

### Guarded live run

| Variable | Code |
|---|---|
| `kill`, `run`, `risk` | `live_kill_switches`, `live_runs.state`, `live_run_risk_state` |
| `auth` | preflight reports with their approvals, in order of persistence |
| `row[i]` | intent, projection and dispatch outbox of an order |
| `venue[i]` | whether the exchange really has an order of that client id |
| `worker[w]`, `recon`, `coll` | what a worker, the reconciler and the preflight collector have read |
| `now`, `unheeded`, `stops` | the latest instant used; history |

Workers: `DraftIntent`, `Prepare`, `ClaimDispatch`, `ClaimLost`, `ClaimStolen`,
`SuppressDispatch`, `MarkPendingRecovery`, `ClaimRecovery`, `QueryLists`,
`QueryDetails`, `ObserveNothing`, `ObserveIncident`, `ObservationRefused`, `Crash`. Operator:
`TriggerKill`, `ResetKill`, `CollectPreflight`, `PersistPreflight`. Reconciler:
`CollectVenue`, `ProjectLocal`, `PersistReconciliation`. Environment:
`ExternalOrder`, `OrderLeaves`, `Tick`.

* Every operation whose time the code compares takes a new instant, when the code takes it:
  a recovery stamps what it stores, the stop and the reconciliation of an incident
  included, with the instant its caller took before the transaction, and nothing compares
  that with what was stored meanwhile (`live/durable_repository.py:1582`). The run's latest
  reconciliation may so go back, and an evaluation older than the one it replaced be accepted.
* Versions are compared for equality only, so a kill transaction counts as one.
* The endpoints of a recovery are read one after the other, the lists of orders before the
  order's details, and each may fail (`live/venues/okx_live.py:400`). An order that only the
  lists showed is stored without the provider's order id (`live/durable_repository.py:1497`), and
  `build_local_projection` leaves it out (1628): `Named` are the incidents it has. An order may
  leave the venue's lists (`OrderLeaves`). So a run with an incident that is not named can be
  reconciled, reset and prepare again, and the model shows it doing so.
* `prepare_operational_dry_run` answers a replay without the request, and the broker raises
  `KeyError` (`live/broker.py:84-85`) before it claims the outbox: `PrepareReplayed`.
* `ExternalOrder`: nothing is sent, so an order with an intent's client id is somebody
  else's, and may come when the dispatch has been handed over or settled.
* A fill at the venue is in the local projection whether or not the order is named, so
  `Named` stands for it too.

### Bootstrap, shadow, market data

* `Bootstrap`: `db` is the database behind the target name with its oid and catalogue,
  `lock` the advisory lock, `op[p]` one run of the command. `PlanReference`, `PlanInspect`,
  `Confirm`, `AcquireLock`, `LockedReference`, `LockedInspect`, `Revalidate`,
  `CreateDatabase`, `ActiveReference`, `StartMigrations`, `ApplyMigration`,
  `EndMigrations`, `SchemaReference`, `SchemaInspect`, `SchemaContract`, `Persist`, `Commit`,
  `VerifyReference`, `VerifyInspect`, `VerifyReload` are the statements of
  `live/bootstrap.py` in their order, one action for each connection it opens; `Interrupted` is any
  failure, `Administrator` the drop, the creation (empty, for another use, or restored from the dump of
  a configured database) or the use of the database by somebody else.
* `Shadow`: `rows` and `pending` are `audit.run_manifests` and its uncommitted row, `run[r]`
  an attempt, `sent` the requests that left the process. `RunFixture`, `RunPublic`,
  `SendFails`, `SendAnswers`, `AnswerUnusable`, `PublicDecides`, `Insert`, `FindExisting`,
  `Finalize`, `Commit`, `Respond`, and `Crash` and `Fail` at every one of them.
* `MarketData`: `venue` is what each provider lists, `run[r]` a pipeline run with its cursor,
  pages and report, `store` the tables. `Begin`, `CollectBinance` (one page),
  `CollectOkx` (page by page, newest first), `CollectionFails`, `Reconcile`, `Persist`,
  `PersistFails`, and `VenueChanges` between any two of them. `Persist` is one step, as the
  transaction is: its atomicity is the database's and is not a result of the model.

## 3. Properties and runs

Each property stands in the module it is about, with the code it is about.

| Run (module) | Instance | States | Properties |
|---|---|---|---|
| `PaperOneWorker` (`MCPaperBroker`) | one worker submits, queries, synchronises, cancels and recovers an order of 2 units in two fills; accepted, timed out, unknown, rejected; lagging fill list, stale clock, 1 crash | 1.5 million | `TypeOK`; `CallsSound`: sent once, only after a durable claim; `SafeRelease`: a reservation ends only when the venue can execute nothing more and all it executed is booked; `BookingSound`: every fill booked once, the projection not ahead of the venue; `ClosedMeansSettled` |
| `PaperTwoWorkers` (`MCPaperBroker`) | two workers submit, cancel and recover one order, leases run out | 1.7 million | `NeverRecancelled`: a cancellation is sent once; `LeaseRespected`: a leased claim is decided by its owner; `ProjectionMonotone`: late answers never take the projection back |
| `PaperLive` (`MCPaperBroker`) | fair; one worker, accepted, timed out, lost and delayed submissions, 1 crash | 63 thousand | `SafeRelease` when a submission reaches the venue after it was given up; `DispatchDecided`: what is ambiguous and known to the venue is decided; `CancelledSettles`: a cancelled order gives its reservation back |
| `BudgetTwoOrders` (`MCPaperBroker`) | two orders compete for one slot; rejection, expiry, 1 crash, recovery, kill switch | 1.1 million | `BudgetMatches`: the counter counts the open reservations; `ImplementsBudget`: the broker refines `PaperOrderBudget` |
| `FixOrders` (`MCFixGateway`) | three ClOrdIDs, four order templates, two bars, one of eight faults, `MaxSeq` 3, `MaxTime` 3, spot | 0.3 million | `OrdersSound`: inventory exact and never oversold, one order per ClOrdID, a pending test is known; `ViewFollowsBroker`; `AcceptedKept`: no accepted message is forgotten; `NoLateRestore` |
| `LiveAuthority` (`MCGuardedLive`) | two intents, one worker, `MaxTime` 5, approvals of one order | 1.9 million | `AuthoritySound`: stopped exactly while the switch is, approvals charged once per order; `AuthorityAfterLastStop`: nothing uses an authority collected before the last stop; `ResumesAfterIncidents`: after an incident an order is prepared only under an authority and on a reconciliation that came after it, the local rows read holding no named one |
| `LiveRecovery` (`MCGuardedLive`) | two intents, two workers, balance for one order, `MaxTime` 3 | 0.4 million | `ReservedWithinBalance`; `ConcludesFromOwnQuery`: a recovery concludes only from a query under its own claim |
| `LiveKillRetrigger` (`MCGuardedLive`) | one intent, one worker, `MaxTime` 5 | stops at a violation | `TriggerHeeded` (section 6) |
| `BacktestRun` (`MCBacktest`) | a spot and a perpetual series, four order types, prices 64 and 128, three signals, one funding event, three instants | 1.4 million | `AccountSound`: equity and round trips agree with the account; `RunsToItsResult`: no run fails on its own fills; `OrdersReachTarget`; `PurchasesCovered` |
| `BootstrapRun` (`Bootstrap`) | fair; two operators, two accounts, two migrations, an administrator who interferes four times, one try each | 0.3 million | `BootstrapSound`: only a clean complete catalogue is configured; `FirstChangeAsPlanned`; `ReadyForItsOwn`: what the verification reads in three connections is one database, complete, of no other use and with exactly its account; `EveryRunEnds` |
| `ShadowRun` (`MCShadow`) | fair; two runners of one run id, three fixtures, two sets of public faults, two tries | 0.1 million | `EvidenceSound`: every answer is what is stored, one persister per run id; `EvidenceImmutable`; `EveryAttemptEnds` |
| `MarketRun` (`MarketData`) | one runner, a window of three bars, pages of 2, at most 2 pages, one change of the venue, two runs | 0.4 million | `StoreSound`: every stored bar goes back to a raw observation and an accepting report, none is lost; `RunsSound`: no page is skipped |

The bounds, and why they are enough. (What section 5 proves does not depend on them.)

* Paper: `Qty` 1 or 2, so at most two fills. Two are the least with which a fill
  list can be incomplete and one transaction can book more than one fill. Every race in
  the code is between the owner of a claim and one other worker. Rows of different
  orders meet only in the budget, in the blocking by an incomplete projection and in
  `SyncApply`; with `MaxOpen = 1` two orders reach the limit. `Lease = 1`, `MaxAge` 0 or 1:
  a lease is live, runs out, and is judged with a reading taken before it ran out.
  A crash leaves rows and a fresh worker; a second one leaves the same rows.
* FIX: `MaxSeq = 3` has room for an accepted message, a gap and what fills it;
  `MaxTime = 3` for a heartbeat, the test request, the disconnection. One fault at a time:
  each has a condition of its own, and its effects meet every message; the theorems of
  section 5 allow any set of them. The templates hold a sell and a second one that compete for the
  inventory, a limit that rests, a stop, and the same ClOrdID with different content.
* Live: a stop, a reconciliation, a preflight for the reset and one to go on take an instant
  each, which `LiveAuthority` has beside the first; a second preflight is collected while
  the first is used, and evidence of 3 instants runs out within 5. Leases of 2 run
  out within that time. The balance of `LiveRecovery` covers one of two orders.
* Backtest: three instants hold an order, its fill or expiry, a reversal and the bar
  that marks it; prices 64 and 128 divide where the code divides, so that what fails
  would be the logic and not the rounding. Both kinds of series, because spot and perpetual
  cash differ.
* Bootstrap: four interferences are two replacements of the database, at any two points, and
  `MaxOid = 4` leaves an oid for each creation. One try each: the second operator
  is the second try. Two migrations have a catalogue that is neither empty nor complete.
* Shadow: two runners and one run id are replay and conflict; with `MaxTries = 2` a
  crashed runner comes back to what it left.
* Market: a window longer than a page, so that the second page begins where the first
  ended while the venue changes; a second run meets the rows of the first.

Deadlock is checked in the paper runs, where time always passes. The other systems
stop when time, tries or data have come to their bound, or when the run has ended.

Symmetry: workers, orders and intents are interchangeable in every definition, so the
safety runs with two of them use it; no liveness run does.

Every property of a passing run has a mutant in `PROJECT.json`: an operator beside
the one it changes, with an error a programmer could have made (`MissingAll`,
`CommitDecrementing`, `CancelForgotten`, ...), which makes the property fail.

## 4. Fairness

`PaperBroker.FairSpec` adds to `Spec`:

* weak fairness of each worker's calls: a call once begun returns or times out;
* strong fairness of `StartRecover`: `recover_unresolved` is called again and again and
  visits every unresolved submission. The repository has no loop that does so: the
  engine offers the operation to whatever drives the run, and documents and tests rely
  on its being repeated ("until recovery applies every fill"). The liveness properties
  say what repeated recovery achieves. It is strong because the worker has other work in
  between;
* strong fairness of `Tick`: time passes. Strong, because the bound `MaxAge` interrupts
  `Tick` while a call holds an old reading; the code has no such bound;
* weak fairness of `Arrive`, `VenueAcknowledge`, `ShowFill` and `CompleteCancel`: what is on
  its way arrives, and the venue finishes what it has accepted.

Nothing is assumed of fills, rejections, IOC expiry, cancellations the strategy may ask
for, crashes or the kill switch.

`Bootstrap.FairSpec`: weak fairness of an operator's `Step` (a running process goes on) and
strong fairness of `AcquireLock` (PostgreSQL grants a waited-for advisory lock in turn).
Nothing is assumed of confirmations, failures and the administrator.

`Shadow.FairSpec`: weak fairness of a runner's `Progress` (it goes on, or the request
ends). Nothing is assumed of new attempts, crashes and failures.

The other modules state safety only.

## 5. Proofs

Eight modules hold the proofs; every leaf is checked by `tlapm`. The constants are any that
satisfy the named assumptions of the modules that declare them (a positive quantity, a
null owner that is no worker, finite sets of orders, positive leases and page limits,
types of sets and limits); none restricts a size. TLC evaluates each assumption in the
runs.

| Theorem | Property | For |
|---|---|---|
| `PaperBroker_proofs!TypeCorrect` | `TypeOK` | any finite set of orders, any workers, any quantity in any number of fills, lease, clock age, limit, jobs, outcomes, crashes, lagging fills |
| `BudgetExact`, `ClosedSettled` | `BudgetMatches`, `ClosedMeansSettled` | the same |
| `NeverReopened`, `ProjectionForward` | `BudgetNeverReopens`, `ProjectionMonotone` | the same |
| `PaperEffects_proofs!BookingIsSound` | `BookingSound` | the same |
| `NothingRepeated` | `NeverRecancelled` | the same |
| `ClaimsBeforeCalls`, `CallsOfOneWorker` | the claim half of `CallsSound`; all of it | the same; for all of it a single worker (section 6) |
| `LeasesAreRespected` | `LeaseRespected`: the lease of the first claim, not that of a recovery | any workers and orders |
| `ReleaseIsSafe`, `BudgetImplemented` | `SafeRelease`, `ImplementsBudget` | any orders, lease, clock age, limit, crashes, lagging fills; jobs, outcomes, quantity and workers with `SyncSafe` and `RejectSafe` |
| `GuardedLive_proofs!AuthorityIsSound`, `ReservationsCovered` | `AuthoritySound`, `ReservedWithinBalance` | any intents, workers, limits, balance, leases, instants |
| `AuthorityOutlivesNoStop`, `WorkResumesAfterIncidents`, `RecoveryConcludesFromOwnQuery` | `AuthorityAfterLastStop`, `ResumesAfterIncidents`, `ConcludesFromOwnQuery` | the same |
| `FixGateway_proofs!OrdersAreSound`, `ViewIsTrue`, `AcceptedStays`, `RestoredInTime` | `OrdersSound`, `ViewFollowsBroker`, `AcceptedKept`, `NoLateRestore` | any ClOrdIDs, templates, bars, sets of faults, timers, spot or not, accounting that fails or not |
| `Backtest_proofs!TypeCorrect`, `OrdersLead`, `PurchasesArePaid` | `TypeOK` and the types of cash, fees, funding, positions, marks and orders (`Typed`); `OrdersReachTarget`, `PurchasesCovered` | any series, prices, strategies, charges, rates, limits |
| `InventoryIsThere`, `PricesAreTradable` | no fill finds its inventory gone; no order meets a price the broker raises on | the same, with limits that forbid spot shorts; with `PositivePrices` |
| `OnlyRoundingLeaks`, `RoundTripsCarryAll` | `EquityReconciles` from state to state unless the step `Rounds`; `TripsCarryAll` | any series, prices, strategies, charges, rates, limits |
| `ExactRunsAreSound`, `ExactRunsEnd` | `AccountSound`, `RunsToItsResult` | runs without a step that `Rounds`; the second with `PositivePrices` and no spot shorts |
| `FixedSizesAreExact`, `FixedSizesAreSound`, `FixedSizesEnd` | no step `Rounds`; `AccountSound`, `RunsToItsResult` | every run, if no configuration sizes by notional |
| `Bootstrap_proofs!BootstrapIsSound`, `ChangesAsPlanned`, `ReadyIsItsOwn` | `BootstrapSound`, `FirstChangeAsPlanned`, `ReadyForItsOwn` | any operators, accounts, migrations, interferences, tries |
| `Shadow_proofs!EvidenceIsSound`, `EvidenceNeverChanges` | `EvidenceSound`, `EvidenceImmutable` | any runners, run ids, fixtures, public faults, tries |
| `MarketData_proofs!StoreIsSound`, `RunsAreSound` | `StoreSound`, `RunsSound` | any runners, window, page limit, pages, changes, runs |

`ReleaseIsSafe` and `BudgetImplemented` have two hypotheses about the constants, because without
them the statements are false of the code (section 6), and TLC shows it. `SyncSafe`: no job
`sync`, or `Qty = 1`, or `Qty = 2` without `expire`. An order that ends with two fills and is not
filled loses its reservation at the first fill synchronised: TLC finds it with `Qty = 3` and a
cancellation whose answer is lost, and with `Qty = 2` and an expiry after a crash, or with two
workers in either case. `RejectSafe`: no outcome `rejected`, or one worker; of two, the one sends
again what the other was refused. Every run that checks the two properties satisfies both
hypotheses; so does every choice without `sync` and `rejected`, whatever the quantity, the
workers, the crashes and the other jobs. No other theorem uses them.

Three hypotheses of the backtest theorems are about the request. `PositivePrices`: offsets below
100 %, and a price less its offset above the slippage. `FixedSizes`: no configuration sized by
notional. `Limits.noShorts`: the risk guard refuses a spot short. A fourth is about the run: no
step `Rounds`.

The inductive invariants, and why the properties need them:

* `PaperBroker_proofs`. That the counter's update is right depends on reservation and slot
  going together in every row, which depends on what is open while fills are missing.
  `RowInv` says so of one row, and a lemma per repository transaction shows that
  it keeps `RowInv`, reopens nothing (`Kept`) and takes the projection forward
  (`Sound`). `IInv == DbInv /\ VenueInv /\ CtxInv /\ RestInv` lifts it: every row has
  `RowInv` and `openCount` is the cardinality of the counted orders, the venue's
  records are well-formed, and what a worker remembers is a snapshot the venue could have
  given. One lemma per part goes through every action. The
  counter rests on cardinality facts: a commit removes at most its own order
  from the counted ones, `SyncApply` several at once.
* `PaperEffects_proofs`. What a worker holds must not be ahead of the venue, or booking it
  would not be sound, and that a cancellation is not repeated depends on who is about to
  make it. `EInv` adds: the venue's quantity is that of its fills (`VenueInStep`), no answer
  is ahead of the venue (`SeenInStep`), the ledger holds fills of the venue
  (`RowsInStep`), and a call made or about to be made has a claimed row, with no other
  worker about to make it (`CallsClaimed`). A synchronisation books the missing fills in
  turn (`BookedInTurn`); what each booking keeps, all of them keep, by induction over the fills.
  `LeasesFine` relates the clock reading
  of a worker in a recovery to the lease it was granted; `AloneInv` is about a single worker.
  `SInv`, for the release, says what is over: a filled order is (`VenueOver`), an end projected or
  held by a worker is the venue's last word (`Final`), a row gives its reservation back only
  with everything booked (`RowSafe`), and what was turned away never came to the venue. The
  refinement needs it too: one lemma for each kind of step shows it to be `Book`, `Take`,
  `Enter`, `Execute` or a stutter of `PaperOrderBudget`.
* `GuardedLive_proofs`. Whether an authority is stale is known only from instants:
  nothing is stamped later than now (`InTime`),
  authorities are persisted in the order of collection (`Ordered`), one that names the present
  kill row was collected after the last stop (`UpToDate`). `Charged` says that
  approvals and balance cover the reserved rows, `Owned` who may conclude. For incidents instants do not help, since one
  may be stamped earlier than what is stored already: `Renewed` says that while the switch is
  armed the authorities that name the present kill row came after every incident, and
  `Remembered` that a reconciled run's evaluation did, too, and read no named one.
* `FixGateway_proofs`. `SesInv`: numbers from the expected one on are free, so an accepted
  message stays under its number. `Orderly`: position and book agree, a used ClOrdID has one
  order, the view follows the book. A market pass is a fold that may be cut short by
  an exception: `PassInv` holds of every prefix. The folds and sums of the
  community modules are taken as recursive functions over finite sets, and the
  induction is stated for sets of numbers instead of predicates.
* `Backtest_proofs`. A series has at most one active order (`Alone`), so that a pass is the
  handling of one; a mark exists when a signal needs a reference (`Marked`), an average exactly
  while a position is open, and a spot position is not short (`Held`).
  Equity is a sum over the series of what `Portfolio.values` reads, and `Reconciles` compares it
  with other sums; `Balanced` states the same as one sum of what each series owes the cash
  (its cost less its result), which a fill changes in one place. A fill keeps it unless
  the average is rounded (`Rounds`: a spot purchase after which the units held did not cost a
  whole price each; a perpetual books its result, so its average cancels out).
  Fixed sizes never round, because a series holds nothing or that size (`Whole`), and spot is
  bought from nothing.
  For the round trips, `Carried` replays the rows of the unfinished instant:
  a funding row comes before the fills already there, so adding one shifts
  the open trip of its series, which fills of other series do not read (`ShiftedFold`).
  `PricesAreTradable` needs of each waiting order terms that survive its waiting
  (`Workable`): a limit is positive, a sell stop above the slippage.
* `Bootstrap_proofs`. `RunOK(d, n, r)` is what a run may rely upon in a database; one lemma for
  each way the database changes, by the holder of the lock or by the administrator,
  shows that it survives.
* `Shadow_proofs`. Who may commit (`HoldsOne`), and that between commit and answer a runner still
  finds its own bundle (`Stored`, `Persisters`, `Reads`).
* `MarketData_proofs`. While pages are collected, the candles known when the collection
  began are still listed, and those from the cursor on have been got (`PagesInStep`);
  reports and bars are tied to raw rows (`RowsInStep`, `ReportsInStep`, `BarsInStep`).

Only model-checked, and why:

* `SafeRelease` and `ImplementsBudget` outside `SyncSafe` and `RejectSafe`: false there.
* `DispatchDecided`, `CancelledSettles`, `EveryRunEnds`, `EveryAttemptEnds`: liveness
  under fairness, which needs `ENABLED`; `tlapm` does not prove it.
* `AccountSound` and `RunsToItsResult` when a purchase rounds an average: false there (section 6),
  in the last unit the model has. The hypotheses of the theorems are about what the code
  does (`Rounds`) and about the request (`PositivePrices`, limits, sizes); TLC finds that the prices
  and strategies of `BacktestRun` fulfil them in every run, and that strategies of fixed sizes do with
  prices that do not divide.

## 6. Where code and documents disagree

`LiveKillRetrigger` ends in a counterexample to `src/docs/GUARDED_LIVE_EXECUTION.md:132` ("A
trigger rejects new intents and suppresses transport"): `trigger_kill` writes
`triggered_at_utc` unconditionally (`live/durable_repository.py:1398`), the database
refuses a change of a trigger instant that is set
(`src/open-core/db/migrations/0023_phase8a_authority_recovery_and_cli_integrity.sql:720`), and
`reset_kill` never clears it. After one trigger and one reset every further trigger fails.

Other disagreements met while modelling. They are part of the models (a run with other
constants reaches them) or of the code beside them:

* Two submitters. `src/docs/SAFE_PAPER_TRADING.md:51`: a worker "must then commit a
  single-owner `dispatch_claimed` transition before calling the venue". `claim_dispatch`
  returns `None` when the dispatch is decided (`paper/durable_repository.py:292`), and its callers
  call the venue without a token (`paper/broker.py:184-186`, `200-202`). An idempotent venue
  returns the first order; when the first call was rejected there is nothing to return, and
  the second is a new order without a reservation. `CallsSound` and `SafeRelease` fail for two
  workers with rejections.
* Lagging fills. Line 106: reservations stay open "until all venue-reported fills and fees are
  applied". A fill booked by `synchronize_fills` is observed under an order built from the
  venue's terminal state and the quantity booked *so far* (`paper/broker.py:279`), so a
  terminal order looks complete and its reservation is released with the first fill.
  `SafeRelease` fails for `Qty = 3` with `sync`, or for `Qty = 2` with `sync` and `expire`.
* Two fills of one synchronisation. Line 102: recovery "applies every fill exactly once". Two unapplied
  fills of a terminal order give two observations with one sequence and different
  quantities (`paper/broker.py:279`); the second conflicts with the first
  (`paper/durable_repository.py:524`, `534`), and so does every retry. `CancelledSettles` fails for `Qty = 2`.
* Kill switch and prepared dispatches. Line 71: "Triggers stop new submissions immediately".
  `claim_dispatch` does not read the switch (`paper/durable_repository.py:288`), so a prepared dispatch is
  claimed and sent after the trigger. Line 55 calls prepared dispatches restartable and does
  not mention the switch.
* Incidents. `src/docs/GUARDED_LIVE_EXECUTION.md:149`: the observation time of a reconciliation
  is "checked and advanced in one transaction". The one that an incident stores takes its caller's
  instant without a check (`live/durable_repository.py:1582`), so the run's latest can go
  back, and a reconciliation evaluated before the one it replaced then passes the check.
  No document says what becomes of an incident without the provider's order id once the venue
  no longer lists the order; in the code the run is reconciled and can be reset, so
  `ResumesAfterIncidents` asks less than that an incident stops the run for good. Nor
  does it ask that a reset comes after every incident: one that arrives while the switch is
  stopped does not change its version, and a report collected before it may still reset the
  switch. Nothing is prepared then, since the run's latest reconciliation is blocked.
* Stale bars. A bar collected while it formed and validated is kept when its final values come
  (`storage/postgres/repositories.py:203`, `ON CONFLICT DO NOTHING`); `StoreSound` holds of it.
* Backtest metrics. The net profit is compared exactly with a sum of parts calculated from
  rounded averages (`backtesting/metrics.py:77`), so a run with prices that do not divide can fail
  after its last event; `OnlyRoundingLeaks` proves that nothing else makes it fail. Funding and fills with one timestamp are ordered by kind and not by
  when they happened (`backtesting/metrics.py:21`), so a round trip can get another's funding.
* Repeated collection. A corrected candle under the identity of a stored one is a conflict, and the
  run that saw the correction stores nothing (`storage/postgres/repositories.py:172`).
* Trades of one millisecond are sorted by time and a name-based identifier
  (`data_collection/okx_v5_public.py:221`, `binance_public.py:195`), while the validator takes the venue's
  ids to ascend in that order (`data_validation/trades.py:190`).

The passing runs of the properties concerned are set where the defect cannot occur, and show
that nothing else breaks the property.

## 7. What is not modelled

* Money in the paper path: amounts, balances, positions, monetary limits, and with them the
  absolute balances a worker writes from its memory; the venue's event log and its
  reconstruction; reconciliation bundles; run start, approval, manifest, preflight and completion
  of a paper run (the live counterparts are in `GuardedLive`); fixture mode without PostgreSQL.
* FIX: the character codec, the demo, the durable mirror of the session.
* Backtest and simulation: validation inside records, the CLI, the persisted bundle.
* Live: HTTP collectors, the read-only preflight, command lines, evidence export and its
  verification.
* Market data: trades, funding, instruments and their typed pipelines; HTTP and normalisation
  of single fields.
* Monitoring and incidents; alpha and signal computation; storage of phases 1 to 6, whose
  idempotent insert is in `PaperOrderRow` (`Conflict`), `Shadow` and `MarketData`; evaluation wrapper, runner,
  orchestrator, scripts: functions of their input or command-line glue.
* How long things take: a deadline is a tick or an instant, and the age after which paper recovery
  triggers the kill switch is a nondeterministic choice (`suspect` in `ctx`).

## 8. Plan

Done: the modules of section 2, twelve runs, the theorems of section 5. Next, in this order:

1. The typed pipelines beside `MarketData`: trades by cursor, funding, instruments, with
   validation and store; property: no row a report covers is lost, no page is skipped.
2. Monitoring: incidents over repeated evaluations; property: what fails stays an open incident.
3. Paper accounting: reservations in amounts, balances written from a worker's memory.
