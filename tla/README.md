# A verification project for the multi-agent ad optimizer

The repository is a FastAPI service (`backend/src/adoptimizer`) that runs teams of
agents over advertising campaigns, puts what they propose in front of an operator, and
writes what the operator approves to the ad networks. Around it are a scheduled
ingestion of network reports, a PostgreSQL database, an optional ClickHouse warehouse
and a React front end. This directory holds TLA+ models of the parts whose correctness
rests on the order in which things happen, TLC configurations that check them on small
instances, and TLAPS proofs that the most important properties hold for all instances.

Paths below are relative to `src/`; `ad/` abbreviates `backend/src/adoptimizer/`.

## 1. The system

### Components

| component | state it keeps | operations |
|---|---|---|
| Run lifecycle (`ad/services/optimization.py`, `ad/repositories/runs.py`) | `optimization_runs` rows (status, idempotency key), one asyncio task per dispatched run in the replica that took the request | start with an idempotency key, dispatch, execute, finish, cancel, reap |
| Event bus and run stream (`ad/orchestrator/events.py`, `ad/api/v1/runs.py`) | per process: history ring, sequence counter and subscriber queues per run; `run_events` rows | publish, close, subscribe, server-sent events with resume |
| Orchestrator and agents (`ad/orchestrator`, `ad/agents`) | the graph state of one run, in memory | route, run an agent, merge its update, criticise, iterate |
| Action gate (`ad/services/actions.py`, `ad/tools/executor.py`, `ad/tools/platform.py`) | `optimization_actions` and `campaigns` rows; per process a store of replayable results | approve, reject, execute, bulk approve-and-execute, push to the network |
| Ad platform adapters (`ad/infra/ads`) | none of their own; the network's campaigns | set budget, set status |
| Ingest scheduler (`ad/services/scheduling.py`, `ad/repositories/scheduling.py`) | `ingest_watermarks` and `scheduler_leases` rows, one per feed | plan a window, claim, pull, advance, release, backfill |
| Ingestion (`ad/services/ingest.py`, `ad/repositories/campaigns.py`) | `daily_metrics` and `ingest_batches` rows | attribute, refuse, upsert, report, rehearse |
| Critic (`ad/agents/critic.py`) | findings in the graph state | withhold refused, repeated and contradicting proposals, escalate opposed spend |
| Accounts and sessions (`ad/services/auth.py`, `ad/repositories/users.py`) | `users`, `refresh_sessions` | log in, refresh, log out, change password, create, set role, (de)activate |
| LLM gateway (`ad/llm/gateway.py`, `ad/llm/ledger.py`) | budget latch, cache, semaphore, per-run totals; `llm_spend` rows | complete with cache, retries and streaming, degrade to the mock |
| Alerts and anomaly detection (`ad/repositories/alerts.py`, `ad/domain/anomaly.py`) | `alerts` | raise, acknowledge, resolve |
| Rate limiting (`ad/core/middleware.py`) | fixed windows per process | admit, refuse |
| Domain calculations (`ad/domain`) | none | detection, budget allocation, pricing, scoring, statistics |
| Warehouse (`ad/services/warehouse_sync.py`, `ad/infra/analytics`, `ad/infra/warehouse.py`) | a ClickHouse copy of `daily_metrics` | sync, read back |
| Campaigns, creatives, experiments, analytics; CLI and configuration; front end | rows and files of their own | reads, CRUD, rendering |

### How they interact

* An HTTP request is served by one of several API processes (`deploy/k8s/backend.yaml`
  runs two replicas). Processes share the database and the ad networks, and nothing
  else: the tasks of a run, the event bus, the rate limiter and the replay store of the
  tool executor live and die with one process (ADR 0002).
* Sessions are READ COMMITTED. Hardly any query takes a row lock, so most handlers read
  a row, decide, and write it back; the guarantees come from unique indexes, from the
  lock that a flushed `UPDATE` keeps until commit, and from conditional `UPDATE`s.
* A run is started by a request that commits a row and then creates a task. The task
  marks the row running, probes the row before every agent, and finishes by writing its
  proposals and the final status in one transaction. Cancel and the reaper write the
  row from other requests and other processes.
* A proposal becomes an *action*; approving it changes a row; executing it writes the
  campaign row, then the ad network, then the verdict, in one transaction whose network
  part cannot be rolled back.
* CronJob pods, resident loops and manual commands tick the same feeds. A lease row
  keeps them apart, a watermark row tells the next one what is owed.

### What is hard, and what correctness means

* **Run lifecycle**: retried and concurrent `POST /runs`; a process that dies between
  commit and dispatch; a cancel, a sweep and a finish that all decide on a status they
  read earlier. Correct: one run per key, proposals visible only of closed runs, prompt
  cancellation, no reopening, every row ends.
* **Action gate**: two executions of one action, an approval or rejection that overtakes
  an execution, a network that applied the change but did not answer, a batch in which
  one action fails, retries on another replica. Correct: nothing unapproved reaches a
  network, `executed` means written unless a refusal passed for a success, database and
  network agree outside named failures, a retry in the same process replays.
* **Ingest scheduler**: ticks that overlap after a lease expired, a slow holder that
  comes back, crashes with the lease held, midnight during a pull, an outage longer than
  the catch-up bound, a pull that finds nothing to write. Correct: the watermark never
  claims a day nobody asked for and nobody was or will be told about, unless the tick that
  left it out dies between landing and returning; it only widens, unless pulls that share no
  row overtake each other past a lease; the schedule is never wedged.
* **Event stream**: bounded queues, an end marker that needs room in one, sequence
  numbers that restart. Correct: in order, without repeats, resumable, and every stream
  of a finished run ends.
* **Agent loop and critic**: channels that grow next to channels that are overwritten,
  verdicts that accumulate over iterations, rehearsals that are refused or never made,
  a tool budget that runs out. Correct: one open proposal per intent, no two that
  contradict, nothing lost because a copy of it was refused, opposed spend escalated.
* **Accounts**: administrators who demote each other, revocation against sign-ins and
  rotations in flight. Correct: an administrator remains; signed out is signed out.
* **LLM gateway**: a check-then-act budget and a latch, streaming with retries, a call cut
  between its ledger row and its tally. Correct: bounded overshoot, totals that agree with
  the ledger, no text rendered twice.
* **Alerts**: detections that overlap each other and the operator. Correct: what fires is
  listed, once.
* **Ingestion and warehouse**: overlapping batches of feeds that measure different
  columns; replayed, partial and overlapping syncs. Correct: the last word on every column
  stands, reports add up, nothing is counted twice.

The full list, each at its line, is under `hazards` in `PROJECT.json`.

## 2. Plan

| # | module | models | composed with | abstract specification | status |
|---|---|---|---|---|---|
| 1 | `RunLifecycle` | run rows, tasks, cancel, reaper, crashes | `RunStream` uses its terminal statuses | a run as a three-state register that closes once (with the resurrection as its exception) | checked and proved |
| 2 | `IngestScheduler` | plan, lease, watermark, crashes | - | a span with an account of every day, monotone but for a named race | checked and proved |
| 3 | `ActionGate` | decisions, executions, network, replays | - | a write-once register per action | checked and proved |
| 4 | `RunStream` | bus, log, SSE streams | `RunLifecycle` (who closes a run) | an append-only log read by cursors | checked and proved, but for its liveness |
| 5 | `AgentLoop` over `Anomaly`, `Bidding`, `Budget`, `Critic` | the agents of one run and what it persists | `Critic` and the domain modules by `EXTENDS` | `ReviewQueue`, which it is shown to implement | checked and proved |
| 6 | `Accounts` | users, sessions, roles | `MCServices` | "an administrator remains"; revocation | checked and proved |
| 7 | `LlmGateway`, `RateLimits` | budget, cache, retries, streaming, ledger; limiter windows | `MCServices` | - | checked and proved |
| 8 | `Alerts`, `MetricIngest`, `WarehouseMirror` | alert rows; batches into daily rows; their mirror | `MCServices` | the primary's reader, for the mirror's | checked and proved |

Each module has an `MC` module with its small instances (the services of rows 6 to 8 share
one, as they share no state) and, where a theorem is worth proving, a `_proofs` module.
Every constant has a named assumption; no module that is proved about uses recursion.
Facts about sums over finite sets that several proofs need are in `SumTheorems`. The first
four modules share facts, not variables:
`RunStream` takes from `RunLifecycle` that a run's status turns terminal by the commit of
a finish, a cancel or a sweep, and from `ActionGate` that executions of its actions come
later; `AgentLoop` leaves the cancellation probe between two agents to `RunLifecycle`.

## 3. The modules

### RunLifecycle

State: the committed `status` of each row, whether its proposals are committed
(`saved`), the control state of each request and each task, the rows a sweep has
selected, the run a cancel has read as active, and the live replicas. Histories record
that `mark_running` committed, that a cancel was acknowledged, and how many agent steps
began after the row had turned terminal.

| actions | code |
|---|---|
| `Receive`, `LookupHit`, `LookupMiss`, `Admit`, `Refuse`, `InsertWins`, `InsertLoses`, `Dispatch` | `OptimizationService.start_run`: lookup by key, active-run gate, insert against `uq_run_idempotency`, `_dispatch` after the commit |
| `MarkRunning`, `ProbeOpen`, `ProbeClosed`, `BeginStep`, `EndStep`, `EndGraph` | `execute_run`, `_cancellation_check`, `raise_if_cancelled` before every agent |
| `FinaliseRead`, `FinaliseCommit`, `TaskDies` | `_finalise` and `mark_finished`; an exception in either transaction |
| `CancelRead`, `CancelCommit`, `CancelAbort` | `cancel`; the service is built per request, so its map of tasks is empty and cancellation is cooperative |
| `SweepRead`, `SweepCommit` | `reap_stale_runs` and its loop; how long a run has been quiet is the environment's choice |
| `Crash`, `Restart` | a replica dies with its requests, tasks and sweep |

### IngestScheduler

State: the calendar day, the committed watermark and lease rows, where each tick stands,
the window it planned with the gap it will have to report (`owed`), and the watermark its
open pull has read and the days of which it has written a row (`rows`). Histories: the days
pulled; the days reported as a gap, when the tick returns (`declared`); the gap days of
ticks that died after their pull had landed and before they returned (`unsaid`); the
processes whose lease expired under them (`overrun`); and the open pulls that a pull with no
row in common has overtaken, one of the two past its TTL (`bypassed`).

| actions | code |
|---|---|
| `PlanTick` with `Reason`, `Window`, `Gap` | `plan_window`, `_plan_with_watermark` |
| `Claim`, `ClaimLost`, `ClaimFirst`, `Insert`, `InsertLost` | `acquire`: conditional `UPDATE`, then `INSERT` for a feed's first tick |
| `PullRead`, `PullCommit`, `PullFails` | `_pull`: `upsert_daily` and `advance` in one transaction, a rehearsal moves neither; the watermark is read without a lock; the locks on the rows two overlapping pulls have in common (`RowsFree`) order them if there are any |
| `Release`, `ReleaseFails`, `Expire`, `Crash` | `record_outcome` and release by holder, then the return of the tick with its `gap_days` (`Returns`); TTL; a process that dies with the lease, and with its report if it had not returned |
| `Midnight`, `Backfill` | the clock; the `ingest --start --end` command, which leaves the watermark alone |

One feed is modelled, as feeds share nothing. `Busy` are the days of which the feed has
rows; a pull writes rows of any of the busy days in its window, or of none, since an empty
answer is legal and a record may be rejected or resolve to no campaign, and advances the
watermark whatever it wrote. A day counts as pulled when a committed pull asked for it. A
tick that lost the lease or failed reports its gap as well. The release and the return are
one step, as nothing is awaited between them. The `last_*` columns are reporting only.

### ActionGate

State: the committed status of each action, the committed value of one synced campaign
and the network's value of it, one transaction per request with its flushed drafts, and
one replay store per process. An action wants a value, or is advisory (`NoValue`).

| actions | code |
|---|---|
| `DecideRead`, `DecideCommit`, `DecideAbort` | `approve` and `reject`, which overwrite whatever is stored |
| `Open`, `BulkRead`, `BulkApprove`, `BulkNext` | the gate of `execute`; `bulk_approve` and the loop of `POST /actions/bulk` |
| `Advise`, `Flush`, `FlushNothing` | `_apply`: the local change is flushed before the push, and locks the row; the session emits no `UPDATE` for an equal value |
| `CallStops`, `Send`, `Land`, `Answer` | `_push` and `ToolExecutor.call`: replay, rehearsal, the network call before and after it was applied |
| `Decline`, `NoAdapter` | the network answers that it did not do it (`ExecutionResult.success` is false), or there is no tool layer and no configured adapter: both return as a success does |
| `BulkFail`, `BulkSettle`, `BulkCommit`, `Commit`, `Abort` | the two ways an execution settles: a single one rolls everything back on failure, a batch writes `failed` and keeps the local change |
| `Crash` | the process dies with its transactions and its replay store |

The history `astray` is set by the transactions after which database and network may
differ: a rollback after the network was written, a replay, rehearsal, refusal or failed push
whose local change commits, a write by a session that held no lock. It is reset by the
next execution that writes the network while holding the row. The history `unheard` has the
actions an execution settled although the network never applied them. Edits of campaigns through
`PATCH /campaigns` are not part of the module.

### RunStream

State: whether the committed status is terminal, the rows of `run_events`, per process the
bus's counter and history, per client the queue of its subscription, how far each
publication is, and per client the control state of `event_source` with its page or
replay, its cursor and what the browser was sent. One run is modelled: runs share a bus
but neither counters, history nor queues. Code between two awaits is one step.

| actions | code |
|---|---|
| `WorkerPublishes`, `CallerPublishes` with `Number` | `next_seq` and the history: by the task until its terminal event, by executions of the run's actions (`ToolExecutor`) once the run has committed them |
| `Record`, `Collide`, `RecordFails`, `FanOut` | the rest of `publish`: the row commits, is refused by `uq_run_event_seq`, or is not written (an error, or a process without a sink); then every queue, dropping the oldest entry of a full one |
| `Finalise`, `TaskDies`, `WorkerCloses` | `_finalise`, and `close_run` after its commit |
| `TeardownRead`, `TeardownCloses`, `TeardownRaises`, `TeardownCommits`, `TeardownAborts` | `cancel` and `reap_stale_runs`, in any process: `close_run` comes before the commit, and raises at a full queue |
| `Connect`, `ReadLog`, `ReadStatus`, `EmitNext`, `PageEnds` | `stream_run`: a page of the log past the cursor, then the status in a second statement, the page's frames |
| `Subscribe`, `EmitNext`, `Take`, `Skip`, `TakeEnd`, `Resync`, `Disconnect` | `EventBus.stream`: subscribe, replay, tail; the end marker or `STREAM_HEARTBEATS_PER_RESYNC` silent waits return to the log |
| `Crash` | a process dies with its bus, its streams, its task and its calls |

Two histories excuse `NothingSkipped`. `lossy` has the clients whose own queue dropped an
event they had not seen. `orderly` is lost when a number is given out twice, when a row is
recorded behind a higher number, or when a bus forgets the run in the middle of a
publication. The history limit of 2000 events is not reached.

### AgentLoop, with Anomaly, Bidding, Budget and Critic

State: the inputs of the run (`world`: snapshots, budgets, targets, creatives, which
campaigns have a network id, what its rehearsals refuse), the node about to run, the
channels of `AgentState` (`alerts`, `decisions`, `drafts`, `proposals`, `findings`,
`complete`), the tool calls left, the persisted queue, and the campaigns whose stored
burn-rate alert is critical. An agent is one step.

| definition | code |
|---|---|
| `Monitor` with `Detect`, `PriorBurnRate`, `Checked` | `MonitorAgent.run`: every rule over every snapshot, hysteresis from the alerts channel of this run, live checks of the worst campaigns |
| `Audience`, `Creative`, `BiddingStep` | segments for the reader; variants for the first of the weak campaigns (`Targets`), as many for each as its own model answer has; one decision per campaign (`recommend_bid`) |
| `Optimize` with `Candidates`, `Deduped`, `FirstOf`, `Refusals` | `OptimizeAgent.run`: five sources of proposals, one kept per intent, the first few rehearsed, refusals marked |
| `Allocate` | `budget.allocate`: the greedy fill in closed form, `_apply_holds` |
| `CriticStep` with `Review`, `Survivors` | `CriticAgent.run`: refused, repeats, two conflict tables in their order, opposed spend |
| `Finalise` | `_finalise`: every proposal is stored, withheld ones as `suppressed` |
| `RouteAfterCritic`, `NextRun` | the conditional edge; the next run with fresh channels |

Rates are compared by cross multiplication and confidences kept per mille, so that the
comparisons of the code are exact; the logarithm in `allocation_score` is a table that the
module assumes strictly increasing and to cover every ROAS of its portfolios
(`BudgetsComparable`, which also numbers the campaigns in the order of their ids, takes a
budget for an amount and a target for a number of tenths). Proposals of one iteration are identified by intent,
which `_dedupe` ensures. `allocate` adopts a solver's plan only where it beats the greedy
one; `PlanIsOptimal` says that no transfer between two campaigns makes such a plan, and the
theorem `PlanAlwaysMaximal` that there is none at all.

`ReviewQueue` is what an operator is promised: a run raises proposals, then publishes in
one step a selection that repeats, contradicts and retries nothing. `PublishesOnce` states
that `AgentLoop` implements it. Which of the raised proposals are published is left to the
loop; that none is lost because a copy of it was refused is `NothingLostToRefusals`.

### Accounts

State: committed users and sessions, one transaction per request with the row it read, the
sessions it selected for revocation and the rows it has updated or locked. Requests of
`login`, `refresh`, `logout`, `change_password`, `create_user` and `PATCH /admin/users`
are split at their statements; `SELECT ... FOR UPDATE` keeps out updates and the foreign
keys of new sessions, a flushed `UPDATE` only updates. Whether a password is right, and the
lockout, are left open: any sign-in may be refused.

Two histories excuse what the code does not promise. `overtaken`: a transaction disabled
an account whose role it had read before it changed, and so skipped the guard. `raced`: a
session was minted while another transaction was signing its user out.

### LlmGateway and RateLimits

A call of the gateway is split at its awaits: budget, cache, semaphore, attempts with their
stream of fragments, cache write, ledger, tally. A fragment carries its attempt, so a text
rendered twice or mixed is visible. `Interrupt` cancels the task at any await; `cut` records
that this happened between the ledger's commit and the tally. The limiter's `allow` has no
await and is one step; `admitted` records when requests were let in.

### Alerts

The rows of one fingerprint (fingerprints do not interact) and transactions that read,
flush and commit. A run's detection keeps its row locked until it commits. The history
`twin` marks a row that became live beside another one by an overlapping insert or an
acknowledgement of a resolved row, `blind` a detection that refreshed a row resolved under
it.

### MetricIngest and WarehouseMirror

`MetricIngest` has the batches of one day: what becomes of each record (`SemanticProblem`,
`Attributable`, `Colliding`), the slots known at the start, then `Load` and `Flush` per
record, and one commit with the report. An `UPDATE` names only the columns that differ from
the row that was loaded, a flushed row is locked, an `INSERT` that lost aborts the batch.
`WarehouseMirror` has the rows of one campaign and day, in the primary and as the versions
ClickHouse keeps until a background merge; a sync reads once and inserts in chunks, may fail
after any of them, and may overlap another. `SqlDelivery` and `ClickHouseDelivery` are the
two readers that must agree.

## 4. The runs

| run | instance | what it shows |
|---|---|---|
| `run_lifecycle` | 2 requests, 1 key, 1 replica, 1 operator, cap 1, 2 agent steps, 1 crash | the safety of the run lifecycle; every row that exists ends terminal for good |
| `run_cancelled` | 1 of each | finding: an acknowledged cancel is overwritten |
| `ingest_scheduler` | 2 processes (plain, forced), 5 days of which 2 have rows, lookback 2, catch-up 3, 1 crash | the safety of the scheduler; every day since the first pull is accounted for |
| `ingest_owed` | 1 process | finding: reported gap days are no longer owed |
| `action_gate` | 2 actions, 2 values, 2 requests, 1 process, 1 operator, 3 deployments | the safety of the action gate |
| `action_retried` | 1 action, 2 processes | finding: a retry on another replica writes again |
| `run_stream` | 1 client, 2 processes, 1 execution, 1 operator, queue 1, page 2, 3 events, 1 fault | safety of the stream, and that every stream of a finished run ends |
| `run_stream_recorded` | 1 process, no operator, no fault | finding: the event of a later execution is not recorded |
| `agent_loop` | 8 portfolios of 2 campaigns, 3 iterations, 2 runs, 11 tool calls, 1 live check, 3 rehearsals | the queue's promises, the refinement of `ReviewQueue`, optimal budgets |
| `critical_pause` | the same | finding: a clearly critical pause loses to a bid |
| `critical_sticky` | the same | finding: hysteresis does not outlive its run |
| `services` | see below | the safety of six services |

`services` works on one of its services in each behaviour (`focus`), so that their state
spaces add up: 2 users with 2 transactions, 3 sessions and 1 revocation each; 2 callers of
one gateway with 2 calls each, a limit of 2, completions of at most 2, 2 attempts of 2
fragments, one permit; 2 clients over 3 windows with limits 1 and 2 and a table that
overflows at 2 buckets; 2 transactions on 3 alert rows; 2 batches at a time of 3 out of 6,
with two feeds that measure different columns; 2 syncs of chunks of one row, 3 writes.

**Why these bounds.** Two requests with one key are what a lost idempotency race needs;
with a cap of 1 the gate both admits and refuses; two agent steps give a probe between
steps; a crash separates commit from dispatch. Five days with a catch-up of 3 give every
reason of `plan_window`, including `capped`, and one midnight within a tick; two
processes give a holder and a usurper, one of which skips the plan's verdict. Of the five
days two have rows to write, so that two overlapping pulls may share a row, share none, or
write nothing: without the row locks, and without either excuse (`unsaid`, `bypassed`), a
property fails in this instance. Rehearsals are
left to the theorems, which hold for every set of rehearsing processes: one that rehearses
for ever may keep the others from ever pulling, so liveness is claimed without it. Two actions on one campaign give
replays that are stale by the time they are used, two requests give every race of two
transactions, and two network writes per action distinguish a repeated write. A
deployment without the approval gate was checked once in the same instance (11.2 million
states) and is covered by the theorems, which range over every deployment. Three events with a
page of two and a queue of one give a second page, a dropped event and an end marker that
finds no room; the publishers' processes are chosen in the initial state, so the browser
may sit with the task, with the later execution, with both or with neither; one fault is a
crash or an event that is not written. Browsers do not interact, except that a full queue
makes `close_run` raise for all: `BusCloseRaises` lets any of the others have been told
first, which the theorems cover for any number of clients. The portfolios of
`agent_loop` were chosen so that every rule fires, every pair of the conflict tables meets,
holds are kept and released, a refused copy competes with an executable one and the tool
budget runs out in the third iteration; two campaigns are what a transfer of budget needs,
and both may be given new creatives (`MaxTargets` is 12 in the code; it is 1 in the two runs of
findings, where the second weak campaign gets none);
three iterations what an outdated verdict needs. Two transactions are what the races of
`services` need, three sessions a rotation next to a sign-in, three batches a late commit
between two others, three syncs a failed one before two that overlap. Symmetry is used only
in `action_gate` and `services`, which check invariants only. Deadlock is not checked
because the bounds on steps, days, crashes and writes let a behaviour end.

**Fairness.** `run_lifecycle` assumes that a live event loop keeps running its tasks, that
the reaper loop, which catches its own errors, keeps committing its sweeps, and that a
crashed replica is restarted by Kubernetes (weak fairness); and that a sweep finds a row
whose task is gone (strong fairness, since the sweeping process may be dead or busy in
between: it is only repeatedly possible). Requests, operators and crashes owe nothing.
`ingest_scheduler` assumes that the schedule fires for ever and a tick ends (its pod has a
deadline), that a held lease reaches its expiry (weak), and that an outage of feed or
database does not hit every pull for ever (strong fairness of the pull's two steps).
Days need not pass and nobody owes a backfill.
`run_stream` assumes that a connected browser keeps reading and that the server's
generator is run whenever it can be: its wait for an event has a timeout of 15 seconds,
so it is never blocked (weak fairness of a stream's step). Publishers, the operator and
browsers that connect owe nothing.

Every property of a passing run has a mutant, a plausible error written next to the
definition it would replace (`Broken variant` in the modules), that violates it.

## 5. The proofs

TLAPS checks, for every value of the constants that satisfies the module's assumption:

| module | theorems |
|---|---|
| `RunLifecycle_proofs` | `RunTypes`, `RunIdempotence`, `RunProposals`, `RunCancellationBound`, `RunStaysClosed` |
| `IngestScheduler_proofs` | `SchedulerTypes`, `SchedulerNoSilentHole`, `SchedulerSingleFlight`, `SchedulerWidens` |
| `ActionGate_proofs` | `GateTypes`, `GateSanctions`, `GateEvidence`, `GateAgreement`, `GateReplays` |
| `RunStream_proofs` | `StreamWellTyped`, `StreamAscends`, `StreamOutlives`, `StreamSkipsNothing` |
| `AgentLoop_proofs` | `QueueAlwaysCoherent`, `LoopImplementsQueue`, `VerdictsAlwaysAgree`, `OpposedSpendAlwaysEscalated`, `NothingEverLostToRefusals`, `PlanAlwaysOptimal`, `PlanAlwaysMaximal`, `HoldsAlwaysReleasedLast`, `HoldsAlwaysBidUp`, `BidUpNeverCut`, `PausesAlwaysProven`, `LoopWellTyped` |
| `Accounts_proofs` | `AnAdminAlwaysRemains`, `GuardsNeverCross`, `SignOutIsFinal`, `AccountsTyped` |
| `Services_proofs` | language model: `TotalsAlwaysMatch`, `FragmentsRenderedOnce`, `OvershootAlwaysBounded`, `GatewayWellTyped`; limiter: `LimiterWellTyped`, `NeverTwiceTheLimit`; alerts: `AlertsWellTyped`, `FiringAlwaysListedOnce`; ingestion: `LastWordAlwaysStands`, `ReportsAlwaysAddUp`, `IngestWellTyped`; mirror: `MirrorWellTyped`, `MirrorAlwaysConverges`; all: `ServicesStandAlone`, `ServicesWellTyped` |
| `SumTheorems` | no theorem about the system: lemmas on sums over finite sets and on the greedy fill of an ordered set |

Each follows from one inductive invariant per component:

* **RunLifecycle.** `OneRunPerKey` is not inductive: a request that lost the insert
  answers with a row, so every answer must be tied to a row with the same key, and a
  row to a request past its insert (`RowsFollowRequests`, `KeysAreUnique`). The bound on
  late steps needs the exact account of where a task stands when its row closes
  (`LateSteps`): it is zero before the probe and at most one after it. `ClosedRows` says
  that whoever may write `running` has not started the run yet.
* **IngestScheduler.** The read and the write of the watermark are apart, so the proof
  has to say what a pull may find stored when it commits. `StaleIsBypassed`: either what it
  read, or it was overtaken by a pull with no row in common; a pull with a row in common
  would have waited (`RowsAreLocked`), and without an expired lease there is no other
  (`OneLiveHolder`). So only an overtaken pull can narrow the span (`SchedulerWidens`). A
  stale pull still adds no silent day. Every span it may have read shares a day with the
  stored one (`SpansShareADay`), and it writes only a bound beyond what it read, so the row
  it leaves lies within what was stored and its own window, together with the days between
  them; those are none, or accounted for, or its own gap to report (`WindowsMeetTheSpan`,
  with `Accounted`). That needs the windows under way at the same time to touch
  (`WindowsAreRecent`, lemma `WindowsTouch`), hence the assumption `MaxStall =< Lookback`: a
  tick straddles no more midnights than the lookback has days, which the half hour of its
  pod grants even to a lookback of one. The bound is tight: TLC finds a silent hole as soon
  as one midnight more is allowed.
* **ActionGate.** `RowLock` (at most one transaction has changed the campaign row) and
  `InStep` (what a transaction that holds the row implies of the network's value) carry
  `SystemsOfRecordAgree`; `Sanctions` says that everything past the gate had its
  approval; `Evidence` that every `done`, drafted or recorded success is backed by a
  write or was taken from an answer without one (`Answered`); `Replays` that what a process recorded stays recorded while it lives.

* **RunStream.** `TimelinesAscend` needs that nothing sent is beyond the cursor (`Sent`),
  that what a page or a replay has left is beyond it with one event per number
  (`Unread`), and for that that log and history have one event per number (`Numbered`):
  the log by its unique index, a history because a bus forgets counter and history
  together. `StreamsOutliveTheirRun` needs that a terminal status is final (`Endings`).
  `NothingSkipped` has an invariant of its own, `SkipIInv`, which follows every event that is
  anywhere on its way (`Known`), not only the log: a stream has been sent all that is recorded
  or may yet be recorded in order, as far as its cursor has come (`HasAll`). A page is cut off
  by number, so it leaves out nothing recordable (`BatchHasAll`, lemma `PageHasAll`), and
  what is in flight then lies beyond it. A replay leaves out nothing at all, for while
  `orderly` holds one bus has given out every number and remembers all events or none
  (`OneBus`). In a queue each event comes after all earlier ones (`QueueHasAll`), which
  publishers could break by fanning out in another order than they numbered; they do not,
  for the task publishes alone and its last event, a terminal one, comes before all callers'
  (`TaskInOrder`): what the bus remembers is in the queue already, or still with the task
  (`Awaited`), or lies behind a terminal event that ends the stream (`Ends`, `NotPastEnd`).
  `NothingSkipped` alone is not inductive: it says nothing of an event that is recorded
  later than a higher number was sent.

* **AgentLoop.** One pass of the critic is settled first, for any pool of proposals:
  settling a conflict leaves one side per scope (`SettleSeparates`) and settling later
  rows of the tables only withholds more, so survivors contradict nothing and hold nothing
  refused (`SurvivorsApprovable`). That an intent survives once needs the optimizer too:
  what it raises in one iteration has one proposal per intent (`DedupedOnce`, from the shape
  of the five sources, `CandidateKinds`), and every proposal is dated with the iteration
  that raised it (`ProposalsDated`), so the critic's order by age can tell two apart.
  `ReviewedAndHeld` carries the verdict to `_finalise`. `Handed` says what the earlier
  agents pass on: alerts of a known severity and one decision per campaign, whose confidence
  is a number because the run's input is a possible delivery funnel (`DeliveryPossible`).

  The verdicts need more: that the two tables of conflicts, settled one row after the other,
  come to a condition on each proposal alone. `PassDecides` proves it: a pass withholds
  exactly what does not stand (`Stands`). A pause stands unless a rival is more confident; a
  spend move stands if a spend move of its campaign is more confident than the pause; a
  test if any rival is. It holds because severity never puts the less confident of the spend
  moves first (`StrongestIsMostConfident`), which follows from what the kinds are (`Entry`).
  Over the iterations the rules propose the same again with a later date, although the burn
  rate's hysteresis makes the detector read its own earlier alerts (`DetectStable`,
  `OffersKept`, `BidsStay`), so a run has raised copies of the same intents, equally
  confident, that differ in their date and in whether a rehearsal refused them (`Raised`,
  `Accumulated`). A copy of an earlier iteration that is open in the end had its fresher
  copies refused, so it is a pause or a budget move, and it stood in every earlier pass
  against the same confidences (`VerdictsLast`). `VerdictIInv` ties the channels of the state
  to what the detector and the bidder find in any iteration (`Informed`) and every verdict
  to the pool it was given on (`Verdicts`); TLC checked it on the instance of `agent_loop`.
  `LoopWellTyped` needs `PortfoliosFinite` besides: a run loads its campaigns and their
  creatives as lists.

  The budget plan is a function of the state, so its theorems need no more of the invariant
  than that `world` is a portfolio; the work is in the sums. Both of the allocator's orders
  are strict and total because the id decides between equals (`RankedStrictly`). Filling best
  first hands out the whole headroom and starves a campaign only for those before it
  (`GreedyFillsAll` of `SumTheorems`, `FillIsOptimal`): hence `PlanIsOptimal`. That a plan no
  single transfer improves is the best of all is a second argument: the fill has a margin, the
  least score that was given anything: above it every campaign is at its ceiling, below it
  at its floor. Another plan can only take from the former, a unit of which is worth at least
  the margin, and give to the latter, where it is worth at most that (`AroundMargin`); as the
  totals are equal, it gains nothing (`FillMaximises`). `PlanIsMaximal` is stated over every assignment of amounts, which
  no run can enumerate, so it is in `AgentLoop_proofs` and not in a run. For the holds,
  `KeptHolds` stops releasing as soon as a budget outside them is above its floor, or none
  is left: the minimal set of releases is the one after which headroom appears
  (`HoldsYieldWeakestFirst`, `NoHeadroomFreezes`).

  `BidUpNeverCut` puts the two agents together. The easing for the learning phase never
  raises a bid (`VolumeBounded`), so a multiplier past the threshold takes a ROAS of 1.2 times
  the target (`RaisedIsEarned`); then the second condition of `_hold_at_target`, a ROAS of the
  target, always holds as well, and the campaigns held are those bid up (`HoldsAlwaysBidUp`).
  A campaign that is bid up and cut has therefore been released. `PausesAlwaysProven` follows a
  proposal of any iteration back to its rule (`Accumulated`) and the rule's confidence gate to
  the sample (`PauseNeedsSample`): 14000 impressions, or 500 less for each of up to 20
  conversions. These three were checked by TLC on the instance of `agent_loop` as well.
* **Accounts.** A guard's count is made in one statement and relied on in a later one, so
  `Covered` keeps what it found: a guarded transaction holds the row lock of another active
  administrator, and no other transaction can commit a change to a locked row. For
  `RevocationIsComplete`, `Swept` says that a sign-out about to commit has selected every
  session that was not minted during it, and `UpToDate` that whoever is about to mint one
  has read a row that still stands, unless the session will be marked as raced. Both
  theorems hold with the excuses `overtaken` and `raced` of section 3.
* **LlmGateway.** `TallyLags`: between the ledger's commit and the tally exactly that
  call's cost is missing, unless the call was cut there. `Streamed`: only the first attempt
  forwards fragments, in order, and a provider that answers it has forwarded all of them.
  A step moves one call (`OneCallMoves`), so each action is a statement about its caller.
  The month's spend is a fold over the callers. In `SumTheorems` a sum over a finite set is
  unfolded without induction over data: a nonempty family of subsets has a minimal one
  (`SomeMinimal`, from the library's `WFMin`), so two functions that unfold alike agree
  (`SumsAgree`) and one element can be taken out wherever it stands (`SumPick`). The bound itself is not inductive;
  `Exposed` counts the calls already let through: below the limit anyone may be, and from
  then on the spend with theirs at full price stays below the limit plus one price for each
  caller, as nobody else is let through.
* **RateLimits.** A window's start is a multiple of its length (`Aligned`), a bucket of the
  current window counts what was admitted in it, and a client without one was admitted
  nothing in it, whatever was pruned (`Counted`). A span of one window's length meets two
  windows at most (`Multiples`).
* **Alerts.** At most one live row is not a twin (`OneEldest`), and what an open transaction
  knows (`Informed`: only an insert has no row and found none live, a refresh found its row
  unresolved) decides which commit may add a second live row, which is then a twin, or
  leave none, which only a refresh that could not see it does.
* **MetricIngest.** `Since` says of a value a batch read that the column holds it still, or
  holds the word of a batch that committed after the reader began. What an `UPDATE` leaves
  out because it is equal is of that kind (`DraftSound`), and it stays so whoever commits
  (`SinceSurvives`): that is why a stale row never hides a newer word, and why no row lock
  is needed for it. `LandedRows` and `LandedSpeech` compare the rows and reports before and
  after one commit, by operators with the rows as parameters. Its types need a count:
  every batch has a number of its own and is reported at most once (`Numbered`, which
  `IngestTypeOK` says of the reports), so there are no more reports than batches were opened
  (`ReportsWithinOpened`).
* **WarehouseMirror.** `CurrentLands`: a sync that nothing has overtaken read the primary as
  it is, and all it has inserted is the newest version. Once it has landed the two readers
  sum the same rows, over different domains (`SumSame`, `SumSkipsZeros`). That the mirror has no
  slot the primary lacks is part of `MirrorTypeOK`: a sync has read only slots the primary
  had, and the primary drops none.

* **The services together.** The composed specification lets one service run in a behaviour
  and leaves the others where they began. `ServicesStandAlone` shows that it implements the
  specification of each, so every theorem about one service holds of the composition that the
  run `services` explores, and their shapes together are `ServicesTypeOK`.

Two things came out of the proofs rather than the runs. `RoasMultiplier` was written as a
`CASE` with overlapping guards, which TLC reads from the top and TLA+ does not: nothing could
be proved of a target of 0 until it was written as the chain of returns the code has. And the
second condition of a hold never decides, as said above.

The properties were checked by TLC on the instances above before they were proved. Every
invariant and action property of a passing run is now a theorem, and so is the refinement of
`ReviewQueue`. Model-checked only is liveness (`EveryRunSettles`, `EveryDayAccounted`,
`StreamsEnd`): it is out of the prover's reach, as is everything about `ENABLED`. So are the
properties of the runs that expect a violation, which the code does not have.

## 6. Where code and documentation differ

* `mark_running` overwrites the stored status and `mark_finished` decides on a status
  read before, so an acknowledged cancel can still end `succeeded` (run `run_cancelled`).
* `advance` stores the hull of old span and window, so the days a capped tick reported
  as a gap are covered from then on (run `ingest_owed`).
* The replay store is one process's dictionary; a retry on the other replica writes to
  the network again (run `action_retried`).
* `close_run` forgets the sequence counter, so the `tool.invoked` of an action executed
  after its run is published as number 1, refused by `uq_run_event_seq`, and lost to
  `run_events` (run `run_stream_recorded`).
* `_alert_actions` does not pass an alert's urgency on, and `_action` writes 0.0, so that no
  proposal of the loop ever dominates and a clearly critical pause (confidence 0.9) loses to
  a bid with much delivery behind it (0.98) (run `critical_pause`).
* The severities of the pass before come from the run's own alerts channel, which starts
  empty: hysteresis works between the iterations of a run but not between runs, nor for
  detections on demand (run `critical_sticky`).

Smaller differences met on the way, which no run is about:

* `gap_days` reaches the log and the lease row only when the tick returns, after `_pull` has
  committed the watermark (`ad/services/scheduling.py:316-334`). If the process dies in
  between, the span covers days that nobody pulled and nobody was told about, and the next
  plan has no gap; the module (`ad/services/scheduling.py:14-17`) and
  `docs/production/02-architecture.md:397` say that past the bound somebody is told. The
  model has the crash and `NoSilentHole` names it (`unsaid`).
* "The watermark only ever widens" (`ad/repositories/scheduling.py:5`): of two pulls that
  overlap because one outlived its lease and that wrote no row in common, the one that commits
  last may store an older bound (`bypassed` in `WatermarkOnlyWidens`).
* `_persist_alerts` (`ad/services/optimization.py:378`) is documented to resolve alerts that
  stopped firing; it does not, and `resolve_for_campaign` has no caller.
* `MetricRecordIn` (`ad/schemas/ingest.py:51`) says that a record with both addressing
  schemes is rejected; `_resolve_campaign` accepts it when both name the same campaign.
* `DatabaseSpendLedger.record` (`ad/llm/ledger.py:23`) says failures never break the run; it
  catches nothing, and the call fails (`RecordFails`).
* `_push` (`ad/services/actions.py:372`) says that a platform error lands as failed rather
  than executed; an answer with `success` false is no error to anybody on the way, so the
  action is settled as `executed`, as its test has it (`Decline`).
* `access_token` (`ad/infra/ads/google.py:64`) says it refreshes a token close to expiry; the
  adapter asks for one once, when it builds the HTTP client it keeps, so a process that lives
  longer than the token sends it expired ever after.
* The budget latch of a gateway is never released, so it outlives the month.
* The lowering of a bid that `low_roas` asks for carries no `direction`, so the critic does not
  see it oppose a raised budget.
* Overlapping batches can leave a row with the source of one and the batch id of another,
  since an `UPDATE` names only what changed (`LastWordStands` is stated per column).
* A roll-up row that asserts only some columns hides the others of its breakdown
  (`merged_slots` chooses per bucket, not per column), and the mirror never deletes what the
  primary deleted.

## 7. What is not modelled

* **Floating-point statistics** (`ad/domain/statistics.py`, audience insights, the health
  score): formulas for the reader, on which no decision of the loop depends. The formulas
  that do decide are in `Anomaly`, `Bidding` and `Budget`, in exact integer arithmetic;
  rounding to cents and to three decimals is left out, so two proposals whose confidences
  differ by less than a rounding step are not told apart as the code would.
* **Text**: prompts, parsing of model answers, messages, findings' wording.
* **Networks**: the adapters' request formats and the retries inside `http_client`, which
  repeat an idempotent set; a request whose caller gave up is applied within the call or
  never. Tokens of the networks and their refresh.
* **CRUD and queries**: campaigns, creatives, experiments, analytics, audit; the warehouse's
  raw events, audience splits and time series. `PATCH /campaigns` writes the campaign row
  beside the action gate and is not an action of it.
* **Accounts**: the lockout counter and the rehash at sign-in (a sign-in may always be
  refused); permissions other than the administrator's.
* **Start-up**: seeding, migrations, configuration, the CLI's formatting, and the front end
  apart from its resume cursor.
