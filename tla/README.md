# A formal model of QuantumSentinel's backend

QuantumSentinel is a FastAPI backend (Python, `src/backend/`) with a web
frontend. Users research strategies (background jobs, backtests, experiments
with signed results), trade on a paper broker, and every sensitive operation
ends in a signed audit chain. It runs as several API processes and worker
processes that share a SQL database and, in production, Redis.

This directory holds TLA+ specifications of the parts of it where correctness
depends on the order in which processes, threads, transactions, messages and
bars of data meet; TLC configurations that model-check them on small instances;
and TLAPS proofs for every value of the constants. `PROJECT.json` maps every
definition to the lines it models and lists runs, mutants, hazards and theorems.

1. Inventory of the system
2. Modules and how they correspond to the code
3. Runs: what is checked, on which bounds, under which fairness
4. Proofs
5. Where code and documentation disagree
6. What is only model-checked, and what is not modelled
7. Plan

Paths below are relative to `src/`, and to `src/backend/services/` where only a
file name is given.

## 1. Inventory

### Research

| component | state | operations | hard behaviour | what makes it correct |
|---|---|---|---|---|
| **Job queue** (`research_jobs.py`) | table `research_jobs`: status, worker, attempts, cancel flag, lease, result | enqueue, request_cancel, claim_next, renew_lease, complete, fail, mark_cancelled, release, reap_expired, purge_finished | leases lapse while a worker still computes; the reaper decides from a snapshot; the same worker may claim a job twice | a superseded run writes nothing; effects and result commit together and once; runs are charged exactly; every job ends |
| **Worker** (`backend/worker.py`) | the loop's position, a stop event, a child process and its two pipes | serve, run_once, _execute, JobProcess.run/kill/stop, _child_main | kill at any point; timeout, cancel and shutdown race with the child's answer; a child serves many jobs | the result stored for a job is its own; a told worker stops and hands its job back |
| **Trial ledger** (`research_trials.py`) | evaluated configurations | the statement `complete` runs before it stores a result | two transactions in a fixed order | a stored result's trials are already counted |
| **Admission** (`research_jobs.enqueue`) | thread lock per process, row lock per user, active jobs | enqueue | check-then-act under two kinds of lock | active limit, no duplicate shared work, no deadlock |
| **Experiments** (`experiment_registry.py`, `backend/main.py`) | experiment rows, signed manifests, the queued jobs | create, run, validate, replay, approve | jobs queued on one state of a row finish on another; the engine is upgraded and the signing key changes in between | records are final; validated means reproduced |
| **Datasets** (`dataset_providers.py`, `dataset_store.py`, `dataset_registry.py`, `market_data.py`) | content-addressed blobs, registrations, grants to users | snapshot, store, verify and register, rerun on named datasets | the provider restates its history; prices are adjusted back from an anchor; a blob goes bad | a rerun sees what the first run saw; a row describes bytes that hash to its name |
| **Dataset format** (`dataset_format.py`) | - | Table.build, canonical encoding, encode, decode | nulls, empty strings, NaN and two zeros in one encoding | same rows, same name, and only then |
| **Backtesting** (`strategy_signals.py`, `backtest_service.py`, `execution_model.py`, `walk_forward.py`, `event_simulator.py`) | capital, positions, pending orders, curves | signals, one bar of each engine, one fold | signals are computed from the whole array before the first bar; assets share one bar's cash; fees, slippage, impact and borrow are charged in different places | no look-ahead, costs once, no cash spent twice |

### Markets

| component | state | operations | hard behaviour | what makes it correct |
|---|---|---|---|---|
| **Paper broker ledger** (`paper_broker.py`) | accounts (cash, reserved), orders, fills | try_reserve, fill_order, close_order, accept_order, convert, process_open_orders | concurrent placements, cancels and the sweeper on one account row; a rejected fill closes its order in a second transaction | never overdrawn; reserved cash is that of the open orders; cash and positions are those of the fills |
| **Order endpoints, sweeper** (`backend/main.py`) | per request: what it read earlier | place_order, cancel_order, the sweep loop | checks against values that change before the order is committed; crashes between commits | final orders stay final; every fill is reported |
| **Idempotency records** (`order_security.py`) | key: reserved / completed | get_completed, reserve, complete, release | retries at every stage of the first request | one order per key; keys resolve |
| **Fill rules** (`trading_service.py`, `paper_broker.py`) | - | simulate_fill, check_pending_limit_fill, _actionable | the same rule is written three times (Python twice, SQL once); rounding | the three agree; a limit holds |
| **Quotes** (`trading_service.py`) | cache, failure memory, striped fetch locks | _quote, get_last_price, get_mark_price | many readers find an entry expired; two assets share a lock; the provider fails or answers without a time | one fetch per TTL; marks never go back; an executable price is recent |
| **Order book** (`order_book.py`) | price levels, a FIFO of market and paper orders each, queue_ahead per order | add_order, cancel_order, consume_liquidity, apply_market_event, _prune | a stored queue position that every change of the level must keep up to date; aggregated events without order ids | positions are true |
| **Matching engine** (`matching_engine.py`) | untriggered stops | submit_order, cancel_order, on_market_event, expire_orders | one event fills, triggers and executes several orders in turn | no order is lost or doubled; FOK is all or nothing |
| **Paper exchange** (`paper_exchange.py`) | orders in flight, cash, position, clock, cost estimates | submit_order, cancel_order, advance_to, on_market_event | orders arrive late, on another book than the one they were checked on | what working orders committed is always covered |
| **L2 replay** (`l2_event_replay.py`) | working passive orders | replay_session, one event at a time | the strategy is asked again while its last order is in flight or partly filled | at most one lot; no passive order is forgotten |

### Platform

| component | state | operations | hard behaviour | what makes it correct |
|---|---|---|---|---|
| **Accounts and sessions** (`auth_service.py`, `backend/main.py`) | users, refresh tokens by family, lockout counters | register, login, refresh, logout, logout_all | concurrent rotations, reuse of an old token, revocations that lock the same rows; crashes | one live token per family; ended stays ended; absolute lifetime; guesses bounded per process, e-mail and address |
| **Handshakes** (`auth_service.perform_handshake`) | sessions and nonces per process, nonces in Redis | expire sessions, consume the nonce, store the session | outages and late answers of Redis; threads of one process | a nonce starts one handshake; the session store is bounded |
| **Signed requests, rate limiter** (`backend/main.py`, `integration_service.py`, `redis_store.py`) | counters and nonces in Redis and per process; API keys | count, verify, consume the nonce, revoke | delivered twice, to two processes, early or late in the clock window; INCR and EXPIRE are two commands | served once; the rate is kept and nobody is held longer than a window |
| **Signal stream** (`backend/main.py`) | connection counters | _ws_acquire, refresh, _ws_release | counters incremented, expired and reset by several processes; cycles longer than the counter's life; crashes | the limit holds, but for slots that were forgotten |
| **Kill switches** (`order_security.py`, `redis_store.py`, `backend/main.py`) | Redis keys, one set per process | set, clear, risk check | outages, restarts, processes that disagree | a switch that was set stops orders everywhere |
| **Audit chain** (`security_service.py`) | links, queue and leader flag per process, advisory lock; a remembered head per process | append in batches; audit_chain_status | leader/follower group commit; failures before and after the commit; overlapping checks of a chain that is damaged and repaired | one linear chain; returned means stored; a reported failure is reported until repaired |
| **Server identity** (`security_service.ServerIdentity`) | key, key id, registration per process; `server_signing_keys` | generate, register, sign | lazily made by concurrent threads, lost at a restart | what was signed stays verifiable |
| **Database start** (`backend/database.py`, `backend/db_roles.py`, `backend/main.py`, `backend/worker.py`, `backend/manage.py`) | revision, owners and grants of tables, migration lock | migrate, init_db, provision, the start of API and worker | processes of two releases start at once; provisioning locks what is in use; crashes | nobody serves on another revision; the application may use every table |

### How they interact

The API process enqueues jobs and cancels them; workers take them from the
database only. A worker computes a job in a child process it talks to over a
pipe. Runs, validations and replays of experiments are such jobs; their
finalizers write the experiment's row in the transaction that stores the job's
result (`Experiments` models what a finalizer decides, `ResearchWorker` that it
is applied once). `complete` and the order endpoints append to the audit chain
(`reports` and `audits` stand for that call in their modules; `AuditChain` is
what happens inside it, `ServerKeys` how the event was signed). `place_order` asks
the kill switches (`KillSwitch`), takes a quote (`Quotes`), reserves the idempotency
key, commits the order with its cash, applies the fill rules and settles at the
ledger (`PaperBroker`, with `FillRules`). The sweeper is a background task of
every API process, of which an advisory lock lets one run. Everything that uses
Redis shares its outages (`Deployment`).

## 2. Modules

| module | models | uses |
|---|---|---|
| `JobLifecycle` | the promise: transitions of a job, runs charged, ended by the newest run only | - |
| `ResearchJobs` | the table and each statement of `research_jobs.py` as an operator | - |
| `ResearchWorker` | workers, their children, API calls, time | EXTENDS `ResearchJobs`; INSTANCE `JobLifecycle` |
| `ResearchWorker_proofs` | theorems | EXTENDS `ResearchWorker` |
| `JobAdmission` | `enqueue` under its locks | - |
| `Experiments` | experiment rows and the jobs on them | - |
| `Datasets` | snapshots, blobs, registration, reruns; the canonical encoding, as operators on two tables | - |
| `Research` | admission, experiments, datasets and format together | EXTENDS the three |
| `Research_proofs` | theorems about admission, experiments and datasets | EXTENDS `Research` |
| `StrategySignals` | the signals, as operators on closes | - |
| `Backtest` | execution model, one bar of the backtester; folds, parameter search and evaluation of walk-forward | EXTENDS `StrategySignals` |
| `EventSimulator` | one bar of the event-driven simulator | EXTENDS `Backtest` |
| `Simulation` | pairs of runs of each engine | EXTENDS `EventSimulator` |
| `FillRules` | fill decisions as operators on one order and one price | - |
| `RestingOrder` | one order, its placement and sweeps, against every price path | EXTENDS `FillRules` |
| `PaperBroker` | one account: endpoints, sweeper, ledger, idempotency | EXTENDS `FillRules` |
| `SumTheorems` | lemmas: what `SumFunctionOnSet` computes | - |
| `PaperBroker_proofs` | theorems | EXTENDS `PaperBroker`, `SumTheorems` |
| `Quotes` | readers of quotes in one process | - |
| `OrderBook` | the book and its events, as operators on a record | - |
| `MatchingEngine` | order types, stops and expiry, as operators | EXTENDS `OrderBook` |
| `PaperExchange` | the exchange as a state machine: calls and feed | EXTENDS `MatchingEngine` |
| `L2Replay` | a replay that drives the exchange | EXTENDS `PaperExchange` |
| `Venues` | exchange, replay, resting order and quotes together | EXTENDS `L2Replay`, `RestingOrder`, `Quotes` |
| `Venues_proofs` | theorems | EXTENDS `Venues`, `SumTheorems` |
| `Sessions`, `Sessions_proofs` | accounts, lockout, refresh tokens | - |
| `Deployment` | processes, Redis, outages, restarts, keys that expire | - |
| `KillSwitch`, `ApiGate`, `StreamSlots`, `Handshake` | the users of Redis | each EXTENDS `Deployment` |
| `RedisGate`, `RedisGate_proofs` | all of them in one deployment | EXTENDS the four |
| `AuditChain` | appends to the chain | - |
| `ServerKeys` | signing keys of processes | - |
| `ChainCheck` | the check of the chain | - |
| `Startup` | migration, provisioning, start | - |
| `AuditTrail`, `AuditTrail_proofs` | start, keys, appends and checks together | EXTENDS the four |
| `MC*` | values of the constants for TLC, where a configuration cannot write them down | the module of that name |

**What a step is.** One database transaction, or one interaction with another
process (a pipe, Redis, a lock). What the code computes between two such points
is private to one thread, so it is folded into the step. Where a transaction's
statements can be observed apart - `fill_order` locks the order row first and
the account row later, `claim_next` holds a row lock between SELECT and UPDATE,
`reap_expired` reads a snapshot before it updates, a revocation locks a family's
rows one by one - each is a step of its own. In the simulators, which run in one
thread, a step is a bar, a fold, a call or an event.

**Composition.** `RedisGate` composes components that really share state: Redis
and its outages, the restarts of processes, the clock. `Research`, `Venues` and
`AuditTrail` compose components that share no state that changes; an interleaving
of two of them is no more than a shuffle of independent steps, so a behaviour
chooses one `part` and leaves the others alone. The module headers say why
nothing is lost. `RedisGate` uses the same device for handshakes, whose keys and
whose scale of time are their own.

### Research

**Jobs.** `status`, `worker_id`, `attempts`, `cancel_requested` are the columns of
the row. `lease` says whether `lease_expires_at` is NULL, in the future or past:
only that comparison is made anywhere. `claims`, `ended_by`, `claim` are history:
they number the claims of a job, so that "the newest run" can be said without
the fence under test (`Owned` compares `worker_id` and `attempts`; each of the two
alone would do in most interleavings, since a worker draws a fresh id at start
and a lapsed lease leaves its attempt charged; a release gives the attempt back,
so a *different* worker can hold the same attempt number, and the reaped run of
the *same* worker differs by attempt). `result_of` names the job whose parameters
the stored result was computed from. The reaper's snapshot is a plain SELECT and may be
arbitrarily old when its updates run; only `claim_next` takes its row with `FOR UPDATE
SKIP LOCKED` (`research_jobs.py:309`). Retention is days and a run is hours, so `Purge`
never deletes a row some worker still works on.

**Worker.** `todo` and `out` are the two directions of the pipe, `child` the
process. A tick of `on_tick` is one of four actions (shutdown, cancelled, lease
renewed, lease lost). `Fault` is a database exception that `serve` catches and
logs, at any place the worker is at. `Crash` kills worker and child.

**Admission.** One user; requests of different users never meet. The two locks
are taken in the code's order. `EndJob` (a worker or a cancel) takes neither.

**Experiments.** A job slot goes from the endpoint's check (`*JobParams`) over
`QueueJob` to the worker (`Execute`, `RegisterSigningKey`, `Finalize*Job`); the
check's view of the row may be stale at each later step, which is the point. An
element of `Inputs` is a strategy with dataset, parameters and seed. `RunStrategy`
depends on inputs and engine version: identical inputs give identical results on
one engine, and may not on another. A manifest's signature is ideal: it
verifies with the key that made it, if that key can be found. `evidence` is what the
last validation saw.

**Datasets.** A dataset is its content, which is also its id: family, symbols,
sessions covered and the revision of the provider's history they come from.
`Frame` is what a job computes from: the sessions of the period counted back
from `Anchor`, each with the number of dividends that adjust its price.
`Agree` is the check of overlapping parts. `spoiled` is history: the datasets whose file
went bad when they were registered. A request that names no datasets has an
empty `named`, as `MarketData` treats a missing list and an empty one alike. `DamageBlob` is bit rot at any moment;
`PutBlob` and `RecordMarketData` verify as the code does. `Rerun` is what a task would
compute from the datasets a result names; `ResultsAreRepeatable` compares the two.

**Dataset format.** The bytes of two tables of up to two rows, each with a key, a
nullable float and a nullable string, are built by the rules of the encoder and
compared; SHA-256 is injective.

**Backtesting.** Signals, bars, orders, fees, fills and equity are computed on
whole numbers; divisions round down, which keeps every comparison the code makes
and changes only amounts. `RunBar`, `SimulateBar` and `RunFold` are the bodies of the
three loops. A state of `Simulation` is a *pair* of runs of one engine whose
closes agree up to `cut` and differ at every later bar, and whose assets are
listed in opposite orders: that the past alone decides is then an invariant of one
state. The performance metrics (Sharpe, drawdown, Monte Carlo) are left out.

### Markets

**Fill rules.** Prices are tenths of a cent, so that a price can lie between two
cents. `Rounded` is a set because Python rounds binary floats: half a cent may go
either way. An empty set of fill prices means the order rests.

**Paper broker.** One user, one asset (an account's rows are locked per user, and
the fold of positions is per asset). `Observe`, `Admit`, `ReserveKey`, `Place`,
`StartFill`/`Expire`/`Convert`/`Accept`, `FinishFill`, `Reject`, `Report`, `CompleteKey`
are the transactions of `place_order` (a stop-limit order triggered on arrival is
converted in one commit and accepted in the next); `Cancel` closes an order and
`CancelReport` audits it, `cancelling` are the cancels in between; `seen` is what the request read before its
checks and uses later. `filling` is an uncommitted fill that holds the order
row's lock; its stamp is drawn there, before the account is locked. `Order[r]`
is fixed per request: order ids are fresh, so a retry is another request with the
same key. Checks that look at the request alone (signature, envelope, nonce,
limits on fields) are the nondeterministic `RefuseUnadmitted` and `PlaceFails`.
The sweep's rows come from one SELECT, in any order.

**Quotes.** A price is the moment its fetch began and the time of its trade. The
provider is external: it answers with a trade and its time, a price of unknown
time, or nothing. Two assets may share one of the striped fetch locks. Equal TTLs
of cache and failure memory, as in the code.

**Research exchange.** It is driven by one thread, so a call is a step; what
varies is the order of calls and events. The levels of the book are one function,
`queue`, from tickets to resting orders: who joins gets a higher ticket than all who
are there, so a level's FIFO is its entries in the order of their tickets. The stop
list is a set and the orders in flight a function, because orders reach the engine in
the order of their ids; loops over orders are `ForEachOrder`. An aggressor's
walk through levels and queues is stated in closed form: `Share` is what an entry
gets of a quantity, given what all entries with priority over it leave. A walk
prunes each level it leaves, `Execute` prunes the levels it hit; the others have
nothing to prune. Prices are ticks and sizes whole shares; `Sayable` keeps an
aggregated reduction to those that split into whole shares. The event log, average
prices and the analytics are left out; the `fills` of a call are kept until they
are settled, which is when cash and position move. TIF `DAY` is treated by the code
as `GTC` and has no value of its own. An in-flight order's `estimate` is its entry
in `_market_cost_estimate`.

**L2 replay.** One pass of `replay_session`'s loop is a step: the clock and the
event, the cancels of passive orders that waited too long, a snapshot, a
strategy that may answer anything, an order.

### Platform

**Sessions.** PostgreSQL at READ COMMITTED: a statement sees the rows committed
when it starts, waits for rows others hold, and a deadlock is broken by aborting
one of the two. Rows are locked one by one (`LockRow`). The lockout is kept as the code keeps it: a
counter for every process, e-mail and client address (`Counters`), which a restart of the
process forgets. Any party that was sent a
token may present it again at any time. `raced` are the families in which a rotation
committed while a revocation that had begun earlier waited for its rows.

**Redis.** `Deployment` has the processes, one Redis with its data kept through
outages, and both environments: in production an error of Redis refuses, in
development each process falls back on its own memory. `MaxFaults` bounds outages
and restarts together. `KillSwitch`: `check` is the risk check of one order in
progress, own set first, then one Redis key after another; `engaged` and `owed` are
history. `ApiGate`: the copies are one signed message, delivered to any process at
any age; `passed`, `through`, `begun` and `stranded` are history, of whom the rate
limiter let pass when, and of the bucket's beginning. `StreamSlots`: INCR, EXPIRE, DECR
and the reset are steps of their own, and keys expire between them. A cycle of a stream
begins with an EXPIRE (`Refresh`) and may last any time, since it downloads quotes one
after another before it waits; `since` is the time since then, and `lost` counts the
slots that were forgotten while they were held. `Handshake`: `run_sync` may give up on a SET that Redis still
performs (`AnswerTooLate`).

**Audit trail.** In `AuditChain` a link's hash is the sequence of events it covers, an
ideal hash; `DatabaseFails` fails a transaction before its commit took effect, or
after it (the acknowledgement was lost). In `ServerKeys` threads generate, register and
sign with a key that a restart may take away. In `ChainCheck` each query of a check
sees the chain at another moment, and rows are edited and repaired in between;
`alarm` and `due` are history.

**Startup.** Revision `r` of the schema creates table `r`. A migration is: try the
lock, look at the owner, compare, upgrade, commit; provisioning locks every table
or none, and changes owner and grants in one commit. Processes differ in the head
revision of their code, the role they connect as, and what they are (API that
migrates, API that does not, worker, the two commands).

## 3. Runs

`tlc -config <cfg> <module>`; twelve runs, nine of which must pass.

| run | instance | checks |
|---|---|---|
| `research_worker` | one job, two workers of which `w2` may be killed and told to stop, two attempts, one database error | `FenceIsExact`, `ResultsAreSound` (effects once, audit only of a stored result, trials first), the refinement `ImplementsLifecycle`, and the liveness `EveryJobEnds`, `StopsWhenTold` |
| `broker_ledger` | three buys (limit, stop, market), three prices, sweeps, cancels, one crash | `ReservationsHold` (never overdrawn; reserved is what open orders reserved; only buys that may cost more than they reserved are rejected for cash), `LedgerIsFills` (cash and position), `FinalIsFinal` |
| `broker_retries` | an IOC buy, its retry with the same key, a stop-limit sell; one crash | `OneOrderPerKey`, `RequestsResolve` (every end of an order is reported, keys settled) |
| `venues` | exchange: two orders out of six, latency none or one, three feed events, two instants; replay in both styles; every order type against every path of seven prices around a dollar; two readers of two quotes under one lock | `OrdersAreCovered`, `QueueAheadIsTrue`, `OrdersAreAccountedFor`, `ReplayHoldsOneLot`, `PricesAreHonest` (the fill rules, and the quotes they are given) |
| `sessions` | one account, one address, two processes, two requests at a time, five in all, three tokens, four units of time, crashes among the five | `OneHeadPerFamily`, `EndedStaysEnded`, `LifetimeIsAbsolute`, `GuessesBounded`, `EveryRequestEnds` |
| `redis_gate` | two processes, three calls, two outages or restarts, both environments; four requests of one client through the rate limiter, two of them all the way; two tabs; handshakes: two threads, two nonces, four requests | `EngagedStopsOrders`, `NoncesAreUsedOnce`, `RateIsKept` (fewer than twice the limit in any window, nobody held longer than one), `SlotsWithinLimit` |
| `audit_trail` | four threads in two processes, batches of two, one refused event, two failures; three signers in two processes, four keys; two checks, two links, two edits; six starters of two releases, one crash | `ChainIsLinear`, `AppendsAreHonest`, `EveryAppendReturns`, `SignaturesResolve`, `AlarmIsHeard`, `SchemaIsWhole` |
| `research` | four requests in two processes with a limit of two; one experiment, three jobs, an owner and an operator, one upgrade per process, one restart; two symbols, two users, two tasks, two days, one restatement, one damaged blob; tables of two rows | `AdmissionLimits`, `AdmissionEnds`, `ValidatedIsReproduced`, `RecordsAreFinal`, `RerunSeesTheSame`, `ResultsAreRepeatable`, `SameDataSameName` |
| `simulation` | two assets, two prices, six bars (eleven for folds), four strategies, with and without short selling | `NoLookAhead`, `CostsAreCountedOnce`, `NeverOverspends` |

The other three runs show a disagreement between the code and what it says of
itself (section 5). Every property of a passing run has a mutant in
`PROJECT.json`: a plausible bug of the code (a lock not taken, a check made once
only, a nonce not stored) under which TLC violates it.

**Bounds.** Two workers are enough for every conflict between a superseded run
and its successor, two attempts for one requeue and the giving up; the proofs
carry the safety part to any number. One crash and one database error are placed
at every point by TLC; a second crash meets a state a first one already
leads to. Four requests with a limit of two fill the queue, are refused, share and
fail. Three buys with cash for less than all of them make every check bite; the
prices contain the limits, a price above and one below, and the limit lies between
two cents, so that a fill may cost more than was reserved. The prices of the resting
order lie on both sides of one dollar, on and between cents. Three threads with
batches of two give a leader whose own event is not in its batch. Two orders
compete for the exchange's cash or its one share, and one of them may stand in the
queue before the other; three events are enough for liquidity, a change in front of
a resting order and a trade that triggers a stop. In `sessions` three tokens are a
login and two rotations, so that reuse of the first meets the rotation of the
second; the times are such that sliding and absolute expiry both pass. Counters of two
addresses differ as those of two processes do, so one address is enough. In
`redis_gate` a nonce lives longer than the clock window, as in the code; a limit of two
and four requests fill one bucket and meet the next; one slot per user makes two tabs
compete, and a counter that lives two intervals expires under a slow stream. In `research` three jobs are a run, a second run or
validation, and one that waits meanwhile; a dividend lies inside the period and one
symbol stopped trading before it, so that the anchor matters. In `simulation` six
bars are warm-up, a signal, its delayed execution and a bar after it; eleven give
two folds. Its prices keep costs below half a price, where sells are floored (section 5).

**Symmetry.** `redis_gate` alone uses it, over processes and copies: they are
interchangeable in every definition, and the run has no liveness property.

**View.** `broker_ledger` alone has one: states that differ in `reports` only are one state.
No step reads `reports`, and none of the run's properties (safety, all of them) names it;
`broker_retries` has no view and checks what is reported.

**Deadlock.** Submissions, calls, requests and bars are finite in these instances,
so a behaviour may legitimately come to an end: the configurations turn deadlock
checking off and the liveness properties say what must have happened by then.
`research_worker` keeps it on: a worker's loop never ends unless it is told to.

**Fairness.** Weak fairness only. In `ResearchWorker`: the steps of a worker that
is alive (a loop without waiting for others), the child's computation, the ticks
that see a shutdown or a cancel (`on_tick` runs about once a second while the child
computes), and the lapse of a lease nobody renews (time). Renewal, timeouts,
faults, kills and API calls have none. In `PaperBroker`: a request that was received
is handled, a cancel that closed its order reports it, and a sweep that was begun ends; no
fairness for new requests, cancels, sweeps or prices. In `JobAdmission` and `AuditChain`: a thread's next step, which stays
enabled once the lock it waits for is free for good; no lock is assumed to be
fair, since there are finitely many rivals. In `Sessions`: a request's next step,
which includes PostgreSQL's breaking of a deadlock it is part of; nothing makes a
client send one.

## 4. Proofs

`tlapm <module>`. All theorems hold for every value of the constants under the
named assumptions of the modules. Most of them say only that sets are disjoint where
they must be, that functions have the domains they are used with and that bounds are
naturals (`JobsAssumption`, `WorkerAssumption`, `AdmissionAssumption`,
`SwitchAssumption`, `SlotsAssumption`, `HelloAssumption`, `ChainAssumption`,
`KeysAssumption`, `RolesAssumption`, `ExperimentsAssumption`, `PricesAssumption`).
Seven say more, as the code does:

* `ApiAssumption`: a nonce lives longer than twice the clock window and the longest
  stall of a request between its two checks (`consume_api_nonce` keeps it 300 seconds,
  `verify_hmac_request` accepts timestamps 30 seconds off either way);
* `SessionsAssumption`: the window in which failures count is no longer than the
  lockout (`auth_service.py`: both 900 seconds);
* `BrokerAssumption`: orders with a limit or a stop name it, as `place_order` checks
  (`backend/main.py:1375-1378`), and prices and quantities are positive;
* `DatasetsAssumption`: a period has at least one day;
* `QuotesAssumption`: a failure is remembered at least as long as a price
  (`trading_service.py`: both 20 seconds);
* `ExchangeAssumption`: a price of the feed is at least one tick
  (`market_microstructure.py:381` and 443, `validate_events`); orders may be
  malformed, the exchange checks them itself;
* `ReplayAssumption`: lot, snapshot interval and `cancel_after_events` are positive
  (`backend/schemas.py:934-942`).

None of the safety properties is inductive. Each module states the inductive
invariant next to the model, with a comment that says why the property holds; TLC
checked each of them on the instance of its run before it was proved.

**`ResearchWorker_proofs`.** That effects are committed once depends on the worker that commits them
holding the newest claim, which depends on rows being consistent. The inductive
invariant is

    QueueInv == TypeOK /\ RowsConsistent /\ WorkerKnowledge /\ EffectsExactlyOnce
                /\ AuditedOnlyIfStored /\ TrialsBeforeResult

`WorkerKnowledge` says that what a worker remembers is true when it acts: it knows
its job; if the row still carries its id, its claim is the newest; a cancellation it
is about to record was requested (and so was one in a reaper's snapshot); a
result about to be stored has its trials; one about to be audited is stored,
unaudited, and nobody else's. The argument goes in two layers. Lemmas about the
table (`JobTableSteps`, `ReapRow`, `TableStep`, `OneMoves`, `RowSteps`,
`LedgerSteps`) classify what a transaction may do to a row; one lemma per part of
the invariant (`ClaimKept`, `RequestKept`, `TrialsKept`, `JobKept`, `EffectsKept`,
`StoredKept`, ...) then goes through the worker's actions.

Theorems: `QueueInvariant`, `TypesHold`, `RowsAreConsistent`, `FenceHolds`,
`EffectsOnce`, `AuditsFollowResults`, `TrialsComeFirst`, `ResultsHold` (the three
together, which the run checks as `ResultsAreSound`), `CancelledOnRequest` (an
action property), and `LifecycleImplemented`: any number of workers, jobs and
reapers implement `JobLifecycle` with state, run, charged and endedBy mapped to
status, claims, attempts and ended_by.

**`Research_proofs`, admission.** `AdmissionInv` is inductive (`AdmissionInvariant`): a transaction holds both
locks from its first to its last statement, and what it found (no job to share,
a free place) stays true because only holders of the row lock add jobs.
`ActiveLimitHolds` and `NoDuplicates` follow from it together with the properties
themselves; `LimitsHold` states both, as the run checks them (`AdmissionLimits`).

**`PaperBroker_proofs`.** `BrokerInv` has a part per request and two parts for the
account. For a request, `RowInv` says which columns go with which status and place in
`place_order`, `HoldInv` what cash it holds, `FillInv` that an uncommitted fill belongs to an open order
and that only what may overrun is about to be rejected. `KeysInv` says who may have reserved a key and that at most
one of them has made, or can still make, an order. The totals are sums over sets of
requests. A step changes at most one request in most cases: `OthersStay` and its
relatives carry the per-request parts for all others, one lemma per action (`OwnPlace`,
`OwnCommit`, `OwnRollback`, ...) does it for the one that moves, and `TotalsPlace`,
`TotalsClose`, `TotalsCommit` say how the sums move with it. Theorems:
`BrokerInvariant`, `BrokerTypes`, `ReservationsDoHold`, `LedgerStaysFills`,
`KeysMakeOneOrder`, `FinalStaysFinal`.

**`SumTheorems`** proves what the sums rest on: `SumFunctionOnSet` picks the members
of a set in an order nobody knows, so that "the sum with one member more" needs an
induction. The library's induction theorems take the statement as a parameter, which
the provers cannot instantiate; the lemmas therefore take a smallest counterexample,
which `WFMin` and `NatLessThanWellFounded` provide. `PaperBroker_proofs` does the same
for the fold of `held_quantity`.

**`Sessions_proofs`.** `SessionsInv` is `TokensInv` (one token of a family
is unused, and none was made after the family's absolute lifetime), `LocksInv` (a request
that is about to rotate holds the row's lock and the row is live; the UPDATE of a
revocation covers the live token of every family it touches, unless a rotation raced it) and
`GuessesInv` (the counted failures are the newest wrong guesses; those in the window
and the requests still verifying are fewer than the limit and the number of requests
together; all of it is per counter: of one process, e-mail and client address).
Theorems: `SessionsInvariant`, `FamiliesHaveOneHead`, `EndedFamiliesStayEnded`,
`SessionsDoEnd`, `GuessesAreBounded`.

**`RedisGate_proofs`.** `GateInv` is one invariant per user of Redis. `SwitchInv`: Redis
holds every switch that is engaged, and a check has yet to ask for the switches it is
owed or has found a reason to refuse. `ApiInv`: once a copy is served, what is left of
the nonce's life covers the time in which another copy can be accepted; of the requests
that passed the buckets before the present one, fewer than the limit are still in the
window, because the one that gave a bucket its expiry has left it when the bucket is gone
(`PassedInv`); and a bucket without expiry has a request about to set it, or was stranded
by a fault (`BucketInv`). `StreamInv`: the
counter is never below the slots held, but for those lost, and it has not less to live
than since the last refresh of any open stream. `HelloInv`: in
production, or while Redis answers, a nonce that was accepted is in Redis; and sessions
and handshakes in progress together stay within the bound. Theorems:
`GateInvariant`, `SwitchesStopOrders`, `NoncesUsedOnce`, `RatesAreKept`,
`SlotsStayWithinLimit`.

**`AuditTrail_proofs`.** `ChainInv`: who holds the advisory lock has read the true head
(`HeadIsTrue`), an event is in at most one queue or batch of its process
(`EventsAreApart`), and every event of a batch is linked, failed or still to be tried
(`BatchesAreHonest`). `KeysInv`: a thread
registers under the lock, and what it signs with is registered and stays until it has
written. `CheckInv`: while a reported link is wrong no head is remembered. `StartInv`: who
migrates holds the lock, so that the revision it compared is the revision. Theorems:
`TrailInvariant`, `ChainStaysLinear`, `AppendsStayHonest`, `SignaturesDoResolve`,
`AlarmsAreHeard`, `SchemaStaysWhole`.

**`Research_proofs`, experiments and datasets.** `ExperimentsInv`: a row without a record is new, one with a record
has a manifest that describes it and is signed with a key of the table (`RecordInv`),
what is validated is what was executed last (`EvidenceInv`), and a job that is ready to
sign has registered the key it will sign with, which a restart takes away together with
the readiness (`JobInv`). `DatasetsInv`: every registered dataset is sound, is stored, and
was good when it was registered (`VersionsInv`), and the frame of a task is the frame of
the datasets it used, whose parts agree and are all needed again (`FrameInv`). The heart is the lemma `FrameOfUsed`: a
job computes from a set of datasets and records the ones that supplied something; the
ones left out hold no session of the period, and the latest session of all, from which
the period is counted back, always belongs to one that is used. So the frame of the used
ones is the frame of all, and what a result names is enough to compute it again
(`RepeatFollows`). Theorems: `ResearchInvariant`, `ValidationsReproduce`,
`RecordsStayFinal` (an action property), `RerunsSeeTheSame`, `ResultsStayRepeatable`.

**`Venues_proofs`, prices.** `RestInv`: a new order was not triggered, a market order
never rests, and a resting order that was triggered has become a limit order; with it
the fill rules are arithmetic on one order and one price (`RestRules`). `QuotesInv`: who
fetches holds the asset's lock and began after what is cached, what a fetch came to is
remembered as a price or as a failure until its time is over, and no reader is owed more
than is cached. Theorem: `PricesStayHonest`.

**`Venues_proofs`, exchange and replay.** A call of the exchange goes through several handlers, and within one of
them an order is nowhere: taken off the stop list and not yet in the book. `ExchangeInv(x,
limbo)` therefore names the orders being processed. All others are where their status
says (`PlaceInv`) and were filled what their status says (`OrderInv`); every entry of the
book has shares left; and a paper order in the book rests there once, at its limit,
with the true queue ahead (`EntryInv`). Between two calls nothing is in limbo, no fill is
unsettled, and only an exchange with latency has orders in flight (`AtRest`).

The money is a balance, not a state: `Flow(g, h)` says that from `g` to `h` the position
moves by exactly what the orders bought and sold, and that the cash less what working
buys may cost does not shrink, unless a buy that no estimate bounds was executed. Every
handler is shown to keep `ExchangeInv` and to flow (`Goes`), loop bodies included; only
a new order commits more, and `pretrade_check` is where it is shown to be covered. Two
facts carry the arithmetic: what a walk through the book takes, entry by entry, sums to
what the aggressor was filled, and the estimate of a market buy covers what the walk
then pays (`EstimateCovers`). The sums rest on `SumTheorems`. A loop over orders is an operator with an
operator for its body; no prover instantiates one, so each loop has a name of its own and an
argument by the smallest order at which it would fail.

The replay adds that the position and all that is on order to be bought stay within
a lot (`Lot`), because a strategy is asked only when no order works, and that
no passive order is older than it may be (`NoneLate`). `MarketInv` joins all of this. Theorems:
`QueuesAreTrue`, `OrdersStayAccountedFor`, `OrdersStayCovered`,
`ReplayStaysWithinALot`.

**What the proofs found.** Two properties that the runs had passed turned out to be
false beyond their bounds, and were corrected. `SlotsWithinLimit` did not count the slots
that a late reset of the counter discards, which takes three tabs and five calls.
`ReservationsHold` said that only stop buys are rejected for want of cash; a limit in
fractions of a cent can be too, and `broker_ledger` now has such a limit. Section 5 has
both. In the replay, two arms of the CASE that
chooses an order overlapped where an order still works; TLC takes the first, a proof
may not, and `OrderForSignal` now says that they exclude each other.

## 5. Where code and documentation disagree

* `worker_stale_outcome` - an exception of `on_tick` (a database error while
  renewing the lease) leaves `JobProcess.run` without killing the child. `serve`
  logs it and goes on; the next job's `run` sends its task to the same child and
  receives the *previous* task's outcome, which is stored as its own. `run`'s
  docstring promises the task's own outcome (`backend/worker.py:175-180`).
* `broker_pending` - a process that dies between the commit of a PENDING order and
  its fill or acceptance leaves it PENDING for ever. The sweeper takes ACCEPTED
  orders only; `cancel_order` answers "order is still being placed; retry the
  cancel" to every retry (`backend/main.py:1603`). Its cash stays reserved.
* `broker_phantom` - `fill_order` draws `filled_at` before it locks the account,
  while `held_quantity` and `rebuild_positions` fold fills by `filled_at`. A sell
  stamped before the buy it settles against is folded first and takes nothing
  off; the bought share remains after it was sold.

Observations without a run of their own. Where a property excuses one of them, the
property says so and excuses nothing else.

Research:

* A crash between `complete`'s commit and its audit event leaves a result without
  an event; the converse cannot happen (`ResultsAreSound`).
* `PersistentExperimentRegistry.complete` reads the status without a lock; only
  tests call it, the endpoints record through jobs.
* An experiment's engine version is the one of the API process that created it
  (`Create`), not of the worker that ran it.
* The event simulator returns before it liquidates on a flat signal
  (`event_simulator.py:618`, before 621), charges borrow on sells that close a long
  position, and checks leverage with the quantity before it is capped. Its
  `MomentumStrategy` counts calls, not bars: with several assets it acts on another
  bar for each (`calls` in `EventSimulator`).
* A sell is floored at half the close (`execution_model.py:319`) while its reported
  spread and slippage are not: where the floor binds, the gross curve of the
  backtester adds back more than was paid.
* Walk-forward test windows overlap when the step is shorter than the test window.

Markets:

* The matching engine's docstring says that FOK "checks available liquidity *before*
  executing" (`matching_engine.py:14-15`); for a market or a triggered stop order it
  does not, such an order may be filled in part. `FokAllOrNothing` is about orders
  with a limit.
* A market buy in flight is executed on a later book than its cost was estimated on,
  and a stop buy may gap through its stop: the exchange's cash may go negative
  although "a buy must be covered by available cash" (`paper_exchange.py:18-19`).
  `CashCovered` excuses these two.
* An order whose `expires_at` passes while it is in flight still trades on arrival:
  `advance_to` releases before it expires.
* The position limit (`backend/main.py:1431-1441`) is decided before the order is
  committed and not again: two concurrent buys exceed it together. Only the cash is
  checked under the lock (`ReservationsHold`).
* `simulate_fill` rounds a bounded price to cents (`trading_service.py:234-236`),
  so a limit between two cents is crossed by up to half a cent
  (`LimitHoldsToHalfACent`), and a buy whose whole cash is reserved at such a limit
  may be rejected for want of the difference, although `paper_broker.py:191-192`
  says that only a stop order can be. `broker_ledger` reaches it, and
  `OnlyOverrunsRejected` excuses such limits (`MayOverrun`) and no others.
* An order that the sweeper fills between its acceptance and `place_order`'s
  report is reported as filled twice (`reports` is a set), and an exception in the
  middle of a sweep loses the events of the orders it had filled.

Platform:

* A process consults its own set of kill switches first and clears it only through
  a call it serves itself. A switch set through one process and cleared through
  another keeps stopping orders in the first; the docstring
  (`order_security.py:227-228`) says Redis is checked first, and
  `README.md:40` "stored in Redis for multi-worker consistency". `delete_key`
  swallows a Redis error, so a clear may be acknowledged while the switch stays
  set. Both fail on the safe side.
* A refresh token rotated while a revocation of its family waits for its row leaves a
  successor the revoking UPDATE could not see: that successor lives
  (`EndedStaysEnded` excuses `raced`). A client whose answer was lost and who retries
  with the old token loses its family.
* The lockout counts the failures of one e-mail from one client address
  (`auth_service.py:117-118`) in maps of each process (113-114), and production runs two
  processes (`Dockerfile:34`, `docker-compose.production.yml:138`): an account as a whole
  can be tried as many times the limit as there are addresses and processes, and a
  restart forgets the counters. Login attempts that run at once all pass the
  lockout before any is counted: `GuessesBounded`, which is about one counter, allows one
  more per concurrent request.
* A session is stored without `_SESSIONS_LOCK` (`auth_service.py:570`); a thread that
  walks the store at that moment may fail, before the nonce is used.
* A fault between INCR and EXPIRE leaves a rate bucket in Redis for ever
  (`backend/main.py:503`), and its client is refused from then on; `RateIsKept` excuses
  such a bucket (`stranded`). Redis lets up to twice the limit less one pass in a
  window that spans the end of a bucket. For the stream, EXPIRE is sent before the limit is compared
  (`backend/main.py:1123`), so tabs that are refused keep a leaked counter alive.
* The counter of a user's streams may expire while connections are open: a cycle refreshes
  it once, before downloads that run one after another, and lasts longer than the
  counter's 120 seconds when those are slow (`backend/main.py:1195-1242`). Later tabs then
  exceed the limit, although "At most 3 connections per user across all workers (Redis)"
  (`backend/main.py:1167`). A release that finds it negative sets it to 0; when this SET comes after the INCR of later
  connections, their slots are forgotten too and the limit is exceeded by as many
  (`backend/main.py:1141`). `SlotsWithinLimit` counts all these in `lost`.
* `run_sync` gives up after two seconds on a SET that Redis may still perform: the
  client's retry with the same nonce is then refused as a replay.
* When a commit of the audit chain takes effect and its acknowledgement is lost,
  the retry one by one meets the stored rows; the callers see errors for events
  that are in the chain. The chain stays linear (`ChainIsLinear`).
* `SECURITY.md:69-71` says that sequence numbers use `nextval()` on PostgreSQL. They no
  longer do: a batch takes the number after the head's, read under the advisory lock
  (`security_service.py:328-345`). `audit_chain_status` checks pointers, hashes and
  signatures, not that the numbers have no gap.
* `provision` takes no migration lock. A migration that found the schema not yet
  provisioned and commits after provisioning did leaves tables that belong to the
  administrator and that the application role is not granted (`backend/database.py:152`,
  against the docstring at 131-134). `SchemaIsWhole` excuses those tables (`raced`)
  until provisioning runs again.
* Two concurrent `rotate_keys` requests of one user may both leave an active key
  (`backend/main.py:2500`), and concurrent edits of one watchlist lose one of them.

## 6. Limits

**Only model-checked:** all liveness (`EveryJobEnds`, `StopsWhenTold`, `AdmissionEnds`,
`RequestsResolve`, `EveryAppendReturns`, `EveryRequestEnds`), because the proof system
has no support for fairness and ENABLED; `SameDataSameName`, whose encoding and parser
are recursions over sequences of bytes; `ResultBelongsToJob`, which does not hold with
database errors; and the simulators (`NoLookAhead`, `CostsAreCountedOnce`, `NeverOverspends`),
whose statements compare two whole runs or whole sums of a run with truncating
divisions at every bar. Theorems about a recursive definition are possible
where a smallest counterexample gives the induction, as in `SumTheorems` and for
the exchange's loops; the library's induction theorems cannot be used.

**Abstracted:** payloads, parameters and results (only whose they are), wording and
formats of messages, wall-clock time (a lease is current or lapsed; elsewhere small
integers in the unit the module names), floats (integers in a unit fine enough for
the comparisons made), signatures, hashes and key exchange (ideal). SQL isolation is
what the statements rely on: conditional UPDATEs, row locks, advisory locks.

**Not modelled:**

* Numerical research (`alpha_research.py`, `correlation_engine.py`, `factor_model.py`,
  `portfolio_optimization.py`, `regime_detection.py`, `signal_engine.py`, `stat_tests.py`
  and others, and the performance metrics of the backtesters): floating point without
  state, out of TLC's reach.
* Reports and benchmarks (`report_generator.py`, `latency_bench.py`): formatting and
  timing.
* Cryptographic primitives (`crypto/pqc.py`): a library interface.
* Request and response schemas (`backend/schemas.py`), table definitions
  (`backend/models.py`) and migrations' bodies: declarative.
* The web frontend (its reconnects are modelled in `StreamSlots`) and the C++
  extension, a numeric kernel with a Python reference.
* Watchlists, preferences, saved strategies: one row, read, changed and committed,
  with no promise beyond the last write.
* Webhooks: sent best-effort, without state; what is modelled of
  `integration_service.py` is the API keys.
* Parts left out of modelled components: `ServerIdentity.rotate` and the in-memory
  `ExperimentRegistry` (called by tests only), rows from before the chain
  (`_legacy_chain_timestamps`), licences and listings of datasets, average cost and
  P&L of positions, heartbeats of workers.

## 7. Plan

Done, in this order, because the queue and the ledger carry the program's own
state: job queue and workers with their lifecycle, admission, fill rules and
ledger, kill switches, audit appends, the research exchange; then sessions, the users
of Redis, keys and the check of the chain, experiments and datasets, the backtesting
engines, replay, quotes, handshakes and the start of processes. Proofs of the queue
and of admission, then of everything that shares Redis, of the audit trail, of sessions,
of the broker's ledger, of experiments and datasets, of resting orders and quotes, and
of the research exchange and its replay.

Next:

1. `NeverOverspends` and `CostsAreCountedOnce`, bar by bar.
2. `NoLookAhead`, as an invariant of the two runs: they agree up to the bar at
   which their prices part.
