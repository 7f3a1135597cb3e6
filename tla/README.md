# NoeRelay in TLA+

A model of NoeRelay in two halves. One is the durable store shared by concurrent
Rust processes: work queue and leases, runs and their cancellation, idempotency
keys, effect journal, outbox, circuit breakers, stream ownership, and the
governance authority with its budget, ledger and receipts. The other is the
Python system: the gateway from socket to receipt, its administration, the
decisions it takes, the model fleet, the benchmarks and the self-improvement
loop, node provisioning, and the tools that keep requirements and agents in
order. TLC checks small instances; TLAPS proves the safety properties they pass for all.

Contents: [the system](#the-system) · [modules](#modules-and-the-code) ·
[runs](#what-the-runs-check) · [bounds](#bounds) · [fairness](#fairness-and-time) ·
[proofs](#what-is-proved) · [divergences](#divergences) ·
[not modelled](#what-is-not-modelled) · [plan](#plan)

Throughout, *store* is `crates/noerelay-store/src/execution.rs` and *core* is
`crates/noerelay-core/src/execution.rs` unless another file is named; *gateway* is
`reference/gateway/`, and a bare `x.py` is in the directory the section names.

## The system

NoeRelay is a governance gateway for language models. A request is turned into a
contract, a route is chosen by true cost among models that are good enough, a
provider is called, the answer is verified, and only then released, with a
receipt that binds a hash-chained ledger. This exists twice: in Rust
(`noerelay-gateway` over `noerelay-core` for decisions and `noerelay-store` for
PostgreSQL) and in Python (`reference/gateway`, threads over one SQLite file and
a process's memory). Around both stand benchmarks, a loop that improves the
configuration from them, a command line that provisions nodes, and an adapter for
local agents.

### Durable store and authority (Rust)

| Component | State | Operations | Talks to | Hard part | Correct when |
|---|---|---|---|---|---|
| Work queue, leases, worker fleet (`execution.rs`) | `work_items`, `leases`, `workers` | enqueue, acquire, claim with retry, complete, fail, dead-letter, renew, release, requeue, take over, drain, fail over, compare-and-set | `request_cancellation` frees its rows | workers die or stall holding a claim and come back; reads that are not locked | a superseded worker is fenced; every claim ends; finished work stays finished |
| Runs and cancellation (`execution.rs`) | `runs`, `steps`, `attempts`, `reservations`, `provider_calls`, `tool_effects`, `cancellation_log` | create and update each; `request_cancellation` over the descendants | work queue, budget | seven statements, each seeing other transactions' commits; overlapping cancellations | nothing below a stopped run goes on; budget is freed once; outcomes are kept |
| Idempotency keys (`execution.rs`) | `idempotency_records` | claim, replay, complete, fail, expire | clients of the HTTP API | claims lapse and are granted again while the first client still works | one answer per key, for the request it was computed for |
| Effect journal (`execution.rs`) | `effect_journal` | record intent, record result, reconcile, list unknown | tools and downstream systems | a crash between sending an effect and recording what it did | every uncertain effect is listed for reconciliation |
| Circuit breaker (`execution.rs`, both crates) | one row per scope | check, record success, record failure | callers of providers | reports arrive late and out of order | database and in-memory breaker agree; an open one readmits |
| Stream ownership (`execution.rs`) | `stream_ownership` | acquire, renew, release | `workers` | takeover at the moment of expiry | never two owners |
| Outbox (`execution.rs`) | `outbox` | enqueue, publish batch, mark failed, dead-letter | broker | overlapping publishers, crashes | an event is handed out once, in order, and does not stay |
| Governance authority (`runtime.rs`, `budget.rs`, `ledger.rs`; store and gateway `lib.rs`) | `GovernanceRuntime` per gateway; `authority_snapshots`, `ledger_events`, `run_receipts`, `usage_records` | prepare, complete, abort, save, load | clients, execution store | replicas over one snapshot, a commit whose reply is lost, handlers that vanish | the stored history is one runtime's; budget, ledger and receipts agree |
| Artifacts and legal holds (`artifacts.rs`) | `artifacts`, object store | store, delete, hold, release, clean up, verify | lifecycle jobs | two systems changed in separate steps | held or retained content is never deleted |
| API keys (`api_keys.rs`) | `api_keys`, `api_key_rate_limits` | issue, verify, revoke, rotate, rate window, concurrency slots | gateway | revocation against requests under way; slots of dead holders | limits hold, revoked keys stop working |
| Governance revisions (`governance.rs`), registry (`registry.rs`) | revisions, dependencies, run pins, evidence | transition, supersede, link, pin, quarantine | runs | checks on rows that are not locked | one active revision, no dependency cycle |
| Deletion jobs, exports (`lifecycle.rs`) | policies, jobs, exports, tombstones | start, progress, complete, fail, cancel | artifacts | progress counted by several workers | counts never exceed the total, ended jobs stay ended |
| Identity, routing, contracts, evidence (`iam.rs`, `core`) | principals, roles; none | authorize; pure functions | authority | configuration, many cases | as their definition |

All processes meet in PostgreSQL at READ COMMITTED; nothing in the repository
schedules the sweeps (`requeue_expired_leases`, `expire_*`,
`publish_pending_events`): a deployment calls them.

### Gateway and its surroundings (Python)

| Component | State | Operations | Talks to | Hard part | Correct when |
|---|---|---|---|---|---|
| Run registry and ledger (`runs.py`, `db_registry.py`, `database.py`) | bounded dict of runs; `runs`, `run_tenants`, `ledger_events` | begin, append, receipt, flags, look up | pipeline, run endpoints | the dict forgets its oldest run, reading back, `INSERT OR REPLACE` cascades | what a receipt binds is what is stored |
| Verification machine (`statemachine.py`) | one state per run | transitions of `spec/verification-state-machine.json` | pipeline | driven by two paths and by errors | no acceptance without evidence |
| Tenants and charges (`tenancy.py`) | `tenants`, `tenant_spend`, copy in memory | charge, delete | pipeline, administration | a deletion is three statements | one charge per accepted run, to its tenant |
| Inference pipeline (`pipeline.py`) | the request's own variables, response cache | refuse, clarify, route, call, escalate, retry, verify, publish | all of the above | threads, evictions, switches and restarts between any two steps | what is answered is durable, own, charged once, and not stopped |
| HTTP server (`server.py`, `api_keys.py`, `rate_limit.py`, `rbac.py`, `audit.py`) | request slots, active count, keys, buckets, audit log | serve, authenticate, meter, authorize, drain | signals, administration | signals during requests, keys changed during requests | slots come back, revoked keys do nothing, nothing runs unaudited |
| Administration (`handlers.py`, `config_manager.py`, `secrets.py`, `webhooks.py`, `alerting.py`, `database.py`) | config, candidates, policy, secrets, keys, hooks, alerts, backups | set, reload, rotate, restore, deliver | pipeline | read-modify-write by concurrent handlers | secrets unique and readable, newest entries kept |
| Contracts, routes, verdicts (`governance.py`, `contracts.py`, `../epr/kernel.py`, `verification.py`) | none | compile, select, judge | pipeline | many cases | cheapest admissible plan; fail closed |
| Model fleet (`model_lifecycle.py`, `cost_model.py`, `online_learning.py`) | histories, canaries, production | analyse, recommend, pull, remove, promote | Ollama, hub | advice from few runs | nothing removed or promoted unearned |
| Benchmarks, evaluators (`reference/benchmark`) | result files | run, compose, recommend | gateway | failing evaluators, partial results | a report speaks for what was run |
| Self-improvement (`scripts/noerelay_self_improve.py` and helpers) | state file, baseline, history | probe, benchmark, analyse, apply, converge | gateway | death between any two writes and in them | no action twice, the best run is kept |
| Portfolio benchmark (`scripts/multi_model_portfolio.py`) | benchmarks on disk | measure, choose, report | providers | failures, ties | the reported best is unbeaten |
| Node provisioning (`src/noerelay`: `installer.py`, `provision.py`, `llama_config.py`, `hf.py`, `lifecycle.py`, `cli.py`) | files, llama-server processes | provision, download, start, stop, schedule, adopt | GitHub, Hugging Face | cut anywhere and run again | configurations agree, downloads are prefixes, own files stay |
| Epistemic state, context (`epistemic.py`, `epistemic_ledger.py`, `context.py`) | evidence, claims, transitions, calibration | add, adjudicate, ledger, compile, compact | pipeline | orders of calls | beliefs traceable to evidence and ledger |
| Requirement contract (`src/noerelay/reqtest.py`) | manifest, wording, evidence files | append, link, record, report | CI | commands that overlap or die | a gate that passes is covered |
| Agent lifecycle, tool loop (`sdd.py`, `mcp_agent.py`, `deploy/host/local-model-plane.py`) | spec.md, claims, state.json | prepare, step, assess, restart | local models | files written one by one, a lock that covers some | one section per claim, specified before worked on |
| Prompt compression (`compression.py`, `compression_cache.py`) | cache, adaptive ratio | select, rewrite, measure, cache | pipeline | threads over one cache, messages changed in place | own conversation, instructions kept |
| Analytics (`analytics.py`) | none: queries of `runs` | spending, quality, routing, ranking, usage reports | pipeline's saves | several queries that commit one by one | figures are those of the table |
| Provider client, dashboards, command line | | | | network, pages | |

## Modules and the code

An action is one committed transaction, one registry call, or one stretch of a
handler between two places where other threads can run and be noticed. Code that
reads without a lock something it acts on later, or runs several statements that
commit one by one, is split there. An operation that returns an error and changes
nothing has no action. Variables marked *ghost* are history for the properties.

### Durable store and authority

**WorkQueue** models the three queue tables. `item`, `lease`, `worker` are the
rows; `txn` is the open transaction of a worker process for the three operations
that read before they lock (`claim_work_item_with_retry` reads the worker row,
`fail_work_item` reads attempts, `update_work_item_cas` reads the whole row).
`tickets` and `accepted` record what callers were told: which claims were
granted, which completions accepted. `FencedNext` is every operation except two,
`RequeueExpiredLeases`, which clears the fencing token, and the compare-and-set
writes; `Next` has them all. The split shows what fencing rests on.

**RunDag** models runs with their steps, attempts, reservations, calls and
effects. Single-row operations are single actions. `request_cancellation` is a
program counter over its statements (lock the root, read the descendants, stop
runs, steps, attempts, reservations, calls, effects, write the log). Row locks are
represented where they exclude something: the lock on the root blocks inserts
below it through the foreign keys. Its statement on the queue is
`WorkQueue!CancelItems`; the two modules do not share further state.

**Idempotency** models the record of a key and clients that hold claims on it,
each claim numbered, so that a late completion can be told from the current one.
**EffectJournal** models intents, dispatches and results with crashes between;
dispatch and crash are the caller's. **Outbox** models overlapping publishers:
`SelectBatch` locks rows, `Publish` commits.

**CircuitBreaker** is the in-memory breaker of the core and serves as the
specification; **CircuitStore** is the breaker in the database with callers that
report late, and implements it.

**StreamOwnership** models one stream row with a numeric clock, since renewal
adds times. `belief` is until when a worker's last answer said it owns the stream.

**GovernanceRuntime** is the in-process authority of the core: spent and reserved
budget, active runs, ledger, changed by prepare, complete and abort. It is the
specification. **Authority** is the deployment: gateway replicas with a runtime in
memory (`memory`, `known`), the tables (`version`, `snapshot`, `events`,
`receipts`), handlers at work (`working`) and the one save a replica may be
waiting for (`pending`; the runtime's mutex is held across it). `Save` is
`PostgresAuthorityStore::save` with its version check, event and receipt
conflicts; `Reply`, `ReplyLost`, `GiveUp`, `Start` and `ReplicaCrash` are what may
follow. While a project has no row, `FOR UPDATE` locks nothing: its first save is
`FirstSaveReads` and later `FirstSaveWrites`, whose upsert overwrites whatever
version was committed meanwhile with version 1, unless an event conflicts
(`EventsAgree`; two events are equal if they say the same and fell in the same
millisecond). So the stored account may go back, and two history variables say from
where: `newest` is the furthest account ever stored, `setBack` whether it happened.

### Gateway

**VerificationMachine** is the table of transitions and `After`, a state after a
list of events. **RunRegistry** has both copies of a run: `order`, `held`, `book`
are `_runs`, its keys oldest first and the record kept; `rows`, `owner`, `chain`
are the tables. A record is forgotten when `capacity` is passed and built again
from its row when somebody looks, and then knows only what the row knows.
`issue_receipt` has two halves: `IssueReceipt` gives the record its receipt,
`SaveReceipt` looks the record up again and writes its row if memory still has one.
`save_run` is `INSERT OR REPLACE`, which deletes the row it replaces, and with it,
by cascade, the owner. **Tenancy** adds tenants, charges and the deletion in three
statements.

**InferencePipeline** EXTENDS these. A run is a thread with `pc`; the steps are
those of `run_inference_pipeline` in its order: `Refuse` (kill switches),
`ServeCached` or `Miss`, `Begin`, `Clarify` or `Prepare`, `Route` or `NoRoute`,
`CallReturns` or `CallFails`, `RetryInCloud`, `RejectRun` or `Pass` and `Complete`;
then the receipt, `Certify` and `Save`; then `Escalate` or `Publish` and `Answer`. A
record may be dropped between any two, and the thread then ends in `LoseRecord`, the
`KeyError` of its next registry call. The world interferes with `Look` (reads a
forgotten run back), `SetSwitch` (the global switch, a tenant's, a project's or a
provider's), `DeleteTenant`, `Restart`. Verification, retries and costs are choices. The
history variable `dropped` has the runs whose record memory dropped before it was saved
with its receipt. Registry calls made in a row, with no wait between them, are one
step, and so are the two lookups inside the first half of `issue_receipt`.

**GatewayServer** is a thread per connection: `slots` and `active` are counted as
`server.py` does, including the branches that answer 503; `installed` is which
signal handler is in force, and `main` what the main thread does while it drains;
key lookup, bucket, role check and audit row are steps of their own, so that a key
may be revoked between any two.

**AdminPlane** runs `Admins` threads. `doing` keeps what a handler has read and
has still to write. `CompleteRun` is the moment the pipeline raises alerts and
collects the webhooks, `Deliver` and `TriggerAlert` what the thread does after.

**Decisions** takes one request through governance, contract, route and verdict,
as operators over records; its `Next` is the order of the calls. **ModelFleet**,
**Evaluation**, **SelfImprove**, **PortfolioBench**, **EpistemicState** hold the
state of their components with one action per operation (two for the ledgering of a
verification, which takes the transitions out and tells them one by one); amounts are scaled
integers (percent, thousandths, millionths), roundings as in the code.
`SelfImprove` has a step for every write of a cycle, and for the emptying of
`baseline.json` before it is filled, so that it can die between any two; the save of
`orchestrator_state.json` alone is one step, see below.

### Nodes and tools

**LlamaPlan** is the pure part: what is detected, which model fits, how GPUs share
it, the configuration rendered and read again by either parser. **NodeInstall**
has the disk, the steps of an installation that may be cut, downloads block by
block, servers and the pid file, and `adopt`. **ReqContract** lets commands read
whole files, work, and write them back: a file is emptied when it is opened, filled
later, and torn when the command is killed in between. **AgentLoop** has the adapter's threads,
the lock they share and the files they write. **Compression** has all strategies
as operators over messages made of sentences, the cache with its eviction order
and lifetime, the adaptive ratio, and threads that look, compress and put.
**Absence** declares Python's `None` for the modules checked together; **Picking** is
what a comprehension over a list leaves of it.

**Analytics** has the table of runs, saves of a run that is under way, and reports:
a report is the figures it has read so far, one query after the other, with saves
between them. Costs are millionths, rates percent. Time is in hours, which SQL groups
into days: a trend goes back thirty days from the moment of its query, peak hours seven
from that of the report (the handlers' defaults; other windows differ in the number
only), while the totals beside them count every run.

*...Proofs* modules hold the theorems about the modules they extend.

### Instances

`MC_WorkQueue`, `MC_RunDag` and `MC_Server` add symmetry and small sets.
`MC_Gateway` adds the workloads. `MC_Protocols` and `MC_Plane` put components that
share no state into one instance: `part`, chosen in the initial state, says which
of them moves, so the state space is the sum of theirs, not the product.
Definitions named *Mutant of ...* are faulty variants of the definition they stand
before; no specification uses them. They state what bug each property would
notice, and `PROJECT.json` pairs them.

## What the runs check

| Run | Question | Properties |
|---|---|---|
| `queue_fenced` | Does fencing hold while two workers claim, fail, renew, are drained, time out, are taken over and failed over? | `ClaimsConsistent`, `AcceptedIsLatest`, `FenceMonotone`, `TerminalNeverRevived` |
| `queue_full` | With token-clearing requeue and unlocked writes too: can recovery find every claim, and does every claim end or pass to another holder? | `ClaimsRecovered` |
| `dag` | Two cancellations of overlapping trees against updates, inserts and sweeps: is what is reported true, and what was stopped at rest for good? | `CancellationTruthful`, `CancellationSealed` |
| `protocols` | Do authority, idempotency keys, effect journal, outbox, streams and circuit breakers keep their promises under crashes, lost replies and late reports? | `AccountStored`, `AccountBalanced`, `AnswerOfRecord`, `EffectsAccounted`, `NeverTwoOwners`, `CircuitSound`, `ImplementsRuntime`, `ImplementsCore`, `HandedInOrder`, `Progress` |
| `gateway` | Two requests through the pipeline while runs are evicted and read back, switches thrown, a tenant deleted, the process restarted | `LedgerSound`, `AcceptedOnEvidence`, `AnsweredIsDurable`, `CachedAnswerOwn`, `ChargedOnce`, `StoppedIsUnanswered` |
| `server` | Three connections, a key change and a signal, embedded use | `SlotsSound`, `DrainedBeforeExit`, `RevokedNotServed`, `KeyHandedOver`, `AuditedBeforeRun` |
| `plane` | The twelve parts around the request path, one at a time | `DecisionsSound`, `FleetEarned`, `ReportsSound`, `CyclesSound`, `BestUnbeaten`, `BeliefsSound`, `ContractSound`, `LifecycleSound`, `CompressionSound`, `FiguresSound`, `AdminSound`, `InstallSound` |
| `queue_token_reset` | Are fencing tokens monotonic in the whole system, as `LeaseInfo` says? No | `FenceMonotone` |
| `dag_late_child` | Is the whole DAG cancelled, as the comment of `request_cancellation` says? No | `DagCancelled` |
| `server_main` | Does `python -m gateway` drain as `server.py` says? No | `DrainedBeforeExit` |
| `plane_config` | Does a configuration change take effect at run time? Not always | `ConfigCurrent` |
| `plane_converged` | Does "converged" mean what the loop's description says? No | `ConvergedMeans` |

Some properties join what belongs together; each part is defined and commented
where its module states it:

| Property | Parts |
|---|---|
| `ClaimsConsistent` | types, `TokensIssuedOnce`, `FailedHasAttemptsLeft`, `LeaseRowMatches` |
| `ClaimsRecovered` | types, `NoStrandedClaim`, and in time `HoldsEnd` |
| `CancellationTruthful` | types, `ResultTruthful`, `FreedOnce`, `SettledByCancellation` |
| `CancellationSealed` | `RootSealed`, `OutcomeKept` |
| `AccountStored` | `InSync`, `LedgerMatches`, `AnswersStored` |
| `AccountBalanced` | types, `ReleasedOnce`, `BudgetKept`, `AccountAudited` |
| `AnswerOfRecord` | types, `AnswerDurable`, `AnswerMatchesRequest` |
| `EffectsAccounted` | types, `DispatchJournaled`, `UnsettledListed` |
| `CircuitSound` | types, `ClosedMeansHealthy` |
| `HandedInOrder` | types, `HandedOnce`, `OldestFirst` |
| `Progress` | `ClaimLapses`, `PendingLeaves`, `AlwaysReadmits` |
| `LedgerSound` | types, `ReceiptBindsLedger` |
| `SlotsSound` | types, `SlotsReturned` |
| `DecisionsSound` | `CheapestAdmissible`, `AcceptedIsVerified` |
| `FleetEarned` | `RemovalsAreFair`, `ProductionEarned` |
| `ReportsSound` | `SpeaksForEvaluators`, `RoutePaid` |
| `CyclesSound` | `AppliedOnce`, `BaselineIsBest` |
| `BeliefsSound` | `TransitionsReplay`, `PackageClosed`, `CalibrationHonest` |
| `ContractSound` | types, `PassedGateCovered`, `WordingRegistered` |
| `LifecycleSound` | types, `OneSectionPerClaim`, `SpecifiedFirst` |
| `CompressionSound` | `OwnConversation`, `InstructionsKept`, `CacheOrdered` |
| `FiguresSound` | `OnePicture`, `FiguresBracketed`, `RankedByTrueCost` |
| `AdminSound` | `OneSecretPerName`, `SecretsReadable`, `NewestKept`, `RevokedStays` |
| `InstallSound` | `ConfigsAgree`, `PrefixKept`, `PlanFits`, `OwnFilesKept` |

What the Python runs show, in words. A run is stored as accepted only with policy
check, start, passed evidence and outcome in its stored ledger in this order; an
answer's run can be looked up after eviction and restart with the ledger that proves it,
and with its receipt unless memory dropped its record while it was under way; a cached
answer was made for the same tenant and for messages that compress to what is
asked; nothing that was emergency-stopped on arrival is answered. A request slot is
returned on every path and a key revoked before a connection was made never gets a
handler run. The chosen route is admissible and no admissible one is cheaper
(checked against a reference definition over every portfolio of the pool); what is
accepted above low risk has met every mandatory criterion. The others hold over
every interleaving, cut or order of calls their parts allow, within the bounds
below.

`ImplementsCore` and `ImplementsRuntime` are refinements: the abstract
specification is instantiated with the stored row, or the furthest account stored
(`newest`), in the place of its variable.

## Bounds

Bounds are the sets in the `.cfg` files and `MC_` modules and the constants named
bound in the modules.

- `queue_fenced`: one item, two workers, two leases, two attempts and two grants.
  Every takeover needs a former and a present holder, a stale answer needs the
  former one's ticket; both occur. Items do not interact except through lists of
  orphans, and the proofs cover any number of them. `VersionLimit` 1 bounds
  `update_work_item_cas`.
- `queue_full`: liveness without symmetry, so one worker and one lease besides the
  caller's own; a claim, its loss, a takeover and a second claim fit, and two versioned
  writes. What must happen in time does not rest on the bounds: it is said of a token,
  not of an item, which `claim_orphaned_work` may grant again and again, and a row written
  back has the deadline it was read with, so that no number of writes extends a claim.
- `dag`: two runs (one may be the other's parent), one row of each kind, two
  cancellations, two attempt numbers. `dag_late_child`: three runs, the least in
  which a descendant that is not the root gets a child.
- `protocols`: two replicas, two run ids, costs 1 and 2 under a limit of 3 (two runs
  may or may not fit), four saves: a run id prepared, released, prepared and
  completed again. One key (keys are independent rows), three clients, two
  bindings, five claims. Two effects, attempts and intents. Three events, two
  publishers, batches of two: a batch that is full, one that is not, a skipped row.
  Streams: five ticks, durations 0 to 2, tokens to 3, enough for a renewal, an
  expiry, a takeover and a release with reuse. Three callers, thresholds 3 and 2,
  failures counted to 6; the code sets 5 and 2, the theorem covers every threshold.
- `gateway`: two runs, so that one evicts the other at capacity 1, may hit the
  other's cached answer, and may belong to another tenant; two tenants; five
  workloads (local with fallback, cloud only, different tenants and risks, invalid
  and unclear requests); a cache of one entry; two faults. The switches are the global
  one, a project's and a provider's.
- `server`: three connections over two slots, so that one must wait; two keys, a
  bucket of two, one tick, one signal, one key change. The theorems cover any number.
- `plane`: two administrators and five requests (a read with its write, overlapped
  by another), lists of two; 154 route requests over every portfolio of six
  candidates; four fleet operations with advice after two runs; three cohorts;
  two cycles and two starts of the loop, one cohort; two models on two cohorts;
  five hosts, downloads of two blocks, two commands; four epistemic operations;
  four requirement commands by two processes; four agent requests by two threads
  with two steps and two calls each; three compressions by two callers of five
  conversations under two configurations, a cache of two that lives two ticks; three
  finished runs (one about to leave the trends' thirty days, one that has left them, one
  of the hour) and a live one over two days of two hours, one peak hour, reports of all
  time or up to the first hour.
  `plane_config` needs three requests, `plane_converged` three runs of the suite.

`CHECK_DEADLOCK FALSE` is set where bounds or finished work leave nothing to do.

## Fairness and time

Safety runs assume none, and of the Python system only safety is checked: a thread
may stop anywhere. `LiveSpec` of WorkQueue: a claim's deadline passes, and
`requeue_expired_leases` is called again and again; no worker is fair, so the
property holds though every worker dies. It does not say that an item comes to rest:
takeovers may follow one another for ever. `protocols` assumes for each part what it
needs, as `ProtocolsSpec` lists: 24 hours pass and the expiry sweep of idempotency
keys is called; a breaker's cooldown passes; somebody keeps calling
`publish_pending_events` (weak fairness), and no publisher dies inside that
transaction every time (strong fairness of the commit). The sweeps are assumptions
about the deployment: the functions exist to be called periodically, no code here
does so. Authority has no fairness: the code promises no retry there.

One clock is assumed. The Rust code compares both the database's `now()` and the
process's `Utc::now()` with stored times; skew between them is not modelled. In
WorkQueue and CircuitStore a deadline is only ahead or past; in StreamOwnership,
Compression and the rate buckets time is a number.

## What is proved

TLAPS checks the theorems in eight modules, for every value of the constants the
named assumptions allow. `PROJECT.json` lists them. Every safety property of the
passing runs is a theorem, invariants and action properties alike, and so are the two
refinements; liveness stays with TLC. None of the properties is inductive by itself;
below is what each invariant adds and why.

Assumptions on constants are `ASSUME`s with a name, in the module that declares the
constant; TLC evaluates them in every run. Most say what a value is (a limit is a
number, a set is finite, `NULL` is no value) or what the code's own tables hold:
`DecisionAssumption` has the content of `spec/routing-policy.json`, `CatalogAssumption`
the types of the entries of `MODEL_CATALOG`, of which there is one, `NodeAssumption` that no model
is stored under the name of a file of the installation, `AnalyticsAssumption` that no
stored run is dated after now and that a pending one has no model yet.
`CompressAssumption` is what `from_env` accepts and no more: the least and the greatest
ratio are numbers, the wrong way round or not.

**WorkQueueProofs.** `TypeCorrect`: all operations keep all tables in their types.
For `FencedSpec`: `FencedTokensIssuedOnce`, `FencedCompletion`, `FencedFailures`,
`FencedMonotone`, `FencedTerminal`, `FencedConsistent`: the properties of
`queue_fenced`. `FencedInv` joins types, what an open claim still relies on
(`LocksHold`: its item stays pending and no other claim holds it), the relation of
tickets to the row (`FenceInv`: no ticket is newer than its item's token, an
accepted one is the token a finished item keeps) and what the verdict of an unlocked
read is still good for (`VerdictInv`). One lemma describes what a step may do to one
item (granted, freed, left alone); each operation is shown to be such a step, and
the invariant is preserved by steps of that form. `LeaseRowMatches` then follows from
two facts about steps: a lease row keeps its item and token (`RowsKept`), and an item
takes a lease id only together with the row inserted for it (`LeaseNamed`). The
theorems do not hold for `Spec`: `queue_token_reset` shows why. What does hold for it is
`NeverStranded`, the safety half of `ClaimsRecovered`: an item has a lease id and a
deadline exactly while it is in use, so that recovery finds every claim. `FoundInv` adds
the row locks (the exhausted claim dead-letters its row without clearing it, which is
right only because a locked row is still pending, and the requeue and the optimistic
writes keep off it) and that a row on its way back to the table, however old, is
findable itself.

**RunDagProofs.** `CancelsTruthfully` and `CancelsSealed`: the properties of `dag`
for any DAG and any number of cancellations in flight. The argument has two layers.
For each table one formula (`RunStep` ... `EffectStep`) says what any transaction may
do to it: rows stay and keep what they belong to, what has ended is not rewritten,
and nothing is inserted below a locked root; every action is shown to obey all six
(`AllSteps`). `RequestInv` says for one request, at each of its statements, that the
tables it is past hold nothing open of what it read (`Left`), that the rows it read
exist (`Read`), that the answer agrees with the status of its root (`Answered`), and,
until it commits, that it has read all there is directly below the root (`Sealed`).
`Left` survives the other transactions because ended rows stay ended, `Sealed`
because of the lock. It is about the root only: `dag_late_child` shows that one
level further down it fails.

**ProtocolProofs.**
- Streams, `OneOwner`: no two workers believe to own the stream at one time. The
  invariant: a row's times are in order, and whoever believes to own it is its owner
  and believes no longer than the row lasts. Renewal keeps the first, takeover needs
  the second and the strict comparison with `now()`.
- Breakers, `StoreImplementsCore`: the stored breaker implements the in-memory one.
  The two treat `success_count` of a closed breaker differently, which makes no
  difference because it is 0 there; that is the invariant. Each report maps to the
  core's step, reads and the insertion of a default row to stuttering. `BreakerSound`
  adds `CountsRun`: a closed breaker has counted the last run of failures.
- Outbox, `OutboxInOrder`: a locked row is pending and locked by one transaction
  (`LocksHeld`), a row was handed out at most once and has left *pending* then
  (`ReturnedOnce`), and an undelivered event is with one publisher (`InOneHand`).
- Keys, `OneAnswer`: all claims of a key were granted for the request of its row
  (`OneRequest`), a client's claims are among them (`HeldGranted`), and the response
  of a completed row is one of theirs (`ResponseGranted`). The row compares bindings
  before it grants, so a completion that comes late may replace whose answer it is,
  never for what.
- Effects, `EffectsJournaled`: whatever was let through agrees with the journal row
  of its effect, and a row that is not unknown was settled by somebody.

**AuthorityProofs.** `DeploymentImplementsRuntime`: what any number of replicas
store evolves by the transitions of one runtime; with it `ReplicasInSync`,
`LedgerStored` and `AnswersAreStored`, together `AccountIsStored`. Since a delayed
first save may set the version back, versions do not order what was stored, and the
argument rests on the ledger instead (`Accounts`): every account there is, stored, in
memory or in flight, is within the limit, has spent what its ledger charges and
reserved what its ledger left unfinished (`Sound`), its ledger is a beginning of the
event table, and a version is the length of a ledger. Prepare, complete and abort lead
from a sound account to a sound one, and a sound account is what its ledger says
(`LedgerTells`), so two replicas at one version hold the same account
(`SameAccount`). A save therefore either goes on from the furthest account, and is a
step of the runtime, or stores an account whose events are all in the table already,
and nothing but the snapshot goes back (`SaveStores`). In the second case the receipt
it brings is stored already too, which gives `ReceiptsRelease`: a run id, though used
again, is released once in the history. The receipt on its way to a client must be
stored (`RepliesStored`).

**Sums.** What the sums over finite sets used there compute. The library's induction
theorems cannot be instantiated by the installed provers, so the induction is
written as a minimal counterexample: among the subsets of a finite set for which a
statement failed there would be a smallest one (`MinimalSubset`, from the
well-foundedness of strict inclusion). It gives that the sum is a number, does not
depend on the order of choice, what adding or removing an index does to it, what a part
sums to, and that the sums of groups add up to the whole; also that finite sets of
numbers have a least and a greatest member, and what a list is with places taken out of
it (`Picked`).

**GatewayServerProofs.** `SlotsAreSound`, `RevokedKeysRefused`, `RunsAreAudited`,
`OneKeyAtATime`: the properties of `server` for any finite sets of connections and
keys and any number of slots and signals. `ServerInv` adds to them that until the
process exits `active` and `slots` are counts of threads at certain places
(`Counted`), that keys revoked before a connection stay so and a thread past a check
has passed it (`Checked`), and that the set of usable keys is a singleton. The counts
need three lemmas on how one thread's step changes the size of a set of threads.
`EmbeddedDrains` proves `DrainedBeforeExit` under the assumption that `main` of
`__main__.py` is not the entry; `server_main` shows that it is needed. The proof
rests on the order in `server.py`: the shutdown is flagged before the count is read,
so no request enters after the count was seen at zero.

The module also proves two parts of `plane`.
- `FiguresStaySound`: reports are sound whatever is saved while they are read. The
  invariant `AnalyticsInv` keeps the rows as a save leaves them (`TableSaved`) and says
  that each figure is the query of some table the gateway had between the request and
  now, at an hour that is past, and the very same one while nothing was saved
  (`ReadFrom`, `Later`). Then the parts of a figure add up to it because sums over groups
  do, the days of a trend to at most all runs and at least those still in its window
  (`StillRecent`), and a count of settled runs lies between the answers of then and of now
  because such rows stay. The flags of a run may be lost (see Divergences), so nothing is
  said of the counts of reviews and reworks between two saves. `RankedByTrueCost` is a lemma about the
  ranking with its rounding: costs are rounded to a micro-dollar and accuracies to a
  tenth of a percent before they are divided, so the order is that of the true costs
  where they differ by two percent and a micro-dollar per answer and at least a tenth of
  the runs was accepted; closer models may tie or swap.
- `PromptsSound`: what is sent, compressed, cached or both, says the instructions of
  the conversation it is sent for. `CompressIInv` says it of every job, entry and
  answer (`Faithful`): it has the same conversation, up to blanks, as its source, which
  is also the key of its entry as the strategy left the messages; the list of accesses
  has each entry once (`Listed`); the ratio is between its ends. Each strategy has its
  lemma: the last message of each role is the end of the last message of that role in
  the result (`Carried`), because deduplication keeps the first of a run of repeats,
  merging appends at the end and pruning keeps the end of what it shortens; together
  `CompressSays`. Merging is a recursive function; that it carries the ends along is shown by a
  least place at which it would not.

**InferencePipelineProofs.** Seven theorems about any number of runs, tenants and
providers. Every step is first reduced to what it does to one thread and to the
registry (`StepResult`: it moves to a next place and leaves the other threads alone;
`Posting`, `Entries`, `Writes`: which events it appends to which copy of the ledger, and
which rows it writes), so that
the invariants below are each proved over a handful of shapes, not over all actions.
- `StopsHold`: who arrived under a stop is never past the switches.
- `CacheServesOwn`: an entry's key is what its run was looked up by after compression
  (`KeysOwn`); therefore the hit has the same tenant, and what it was made for
  compresses to what is asked.
- `AnswersDurable`: threads that have settled, cache entries and sources of answers
  point to runs that are `Served`: the row is there, the ledger proves the acceptance,
  and unless the record was dropped under way the row is accepted and has the receipt.
  Nothing is written of such a run any more (`ServedStays`), and an eviction forgets the
  record, not the row.
- `ReceiptsBindLedger`: what memory has of a run is always the end of the stored ledger
  (`Numbers`), and all of it unless the record was dropped (`Binding`); a receipt exists
  only when the outcome closes the ledger (`Closes`, `Receipts`), and nothing is
  appended after it. A record read back starts its numbering again, and its receipt then
  binds what came after that.
- `AcceptedAreProven`: how far a thread has come is already written in the stored
  ledger (`Evident`), in order, and the ledger only grows at its end; an accepted row is
  written only with an accepting receipt (`Receipts`).
- `ChargesOnce`: the charges of a tenant are of distinct `Served` runs of its own whose
  call had a cost, and a fresh paid answer is among them unless the tenant is being
  deleted.
- `BooksSound` (`LedgerSound`): the lifecycle machine of a run is at the state its
  thread's place calls for (`MachineInv`), so that it is never sent an event its state
  does not know; the dict lists each run it holds once and at most `max_runs`, whatever
  is evicted and read back (`OrderKept`, `RegistryInv`); receipts bind the ledger.

**PlaneProofs.** Ten parts of `plane`.
- `DecidesSoundly`: contract, decision and verdict are what the functions return for
  what was handed over before them (`DecisionInv`), and a lemma for each function says
  what it returns: plans are admissible, a chosen one is least, a verdict of *accepted*
  has all criteria met and the review its risk asks for. The assumption on the routing
  policy is the content of `spec/routing-policy.json`.
- `LifecyclesSound`: between reading `spec.md` and the end of `prepare` a thread holds
  the lock, so what it found missing is still missing when it appends (`Grounded`).
- `ContractHolds`: a manifest on disk that is no torn file, and every manifest a process
  has still to write, registers what its gates ask for (`GatesRegistered`, `WritesPending`); a
  process that is alone was started on the files as they are (`StartedOn`). The first
  holds over lost updates, because a manifest is written as a whole; the second is
  what they destroy.
- `AdminKeepsSound`: a thread that is about to store a secret has sealed it with the
  key of now (`InHand`), which rests on `rotate_master_key` running alone; a stored
  secret is sealed with that key, or with one a rotation dropped before its transaction
  had begun (`KeyRotated`), or came back from a backup; what a backup holds is what the database held then (`BackupSound`); hooks are registered in
  increasing order, below the count of requests.
- `BestIsUnbeaten`: figures are numbers whatever calls failed, the files are the
  benchmarks of the run, and who beats another has the higher score in any field
  (`BetterScores`, from the monotony of the rounded percentage). That a finite field
  has a greatest score is again a minimal counterexample.
- `FleetIsEarned`: what a model costs is a number for every history of measurements
  (means by sums, `CostTyped`), and a model that is ranked below the first is ranked
  there behind one that costs no more (`FairAdvice`); the evidence a version was
  promoted on reported every gate within its limit, cohort by cohort, or flat where it
  named no cohorts (`_check_promotion_gates`).
- `BelievesSoundly`: what a sequence of transitions tells of a claim is what its last
  one about it says (`ToldNext`), and a sequence that grows tells the same of what came
  before (`ToldBefore`); evidence is never lost, so a packed claim has its own. That the
  binned calibration error bounds the error as a whole (`ErrorBounded`) is the triangle
  inequality over the bins, by a minimal set of bins that breaks it.
- `ReportsSoundly`: in a phase all result files of the evaluators have distinct names,
  and every composed file is the composition of results of theirs, of all of them when
  it names all (`ComposesAll`); what a composition returns is a lemma for each strategy
  (`Composition`). Tiers cost more the higher they are, so a budget that pays a tier
  pays what is recommended in its place (`BudgetPays`). The assumption: cohorts have
  distinct names.
- `CyclesHold`: an action is known to the state file or to the running cycle, or was
  done by a cycle that was lost (`LostOnly`). That needs the actions left of a cycle to
  be apart from each other and from what it has done (`ActionsLeft`), although the
  analyzer removes duplicates by category and target and the loop compares descriptions:
  `WhatSaysWhere` shows that a description determines both. A cycle has done nothing
  before it applies and is recorded before the check (`DoneBy`); scores are numbers also
  when cohorts fail (`CycleScoreTyped`), so a baseline that can be read is the best of the
  compared runs (`BestSoFar`), and while a better one is written over it the copy made
  before is (`Saving`).
- `ProvisioningSound` (`InstallSound`): the steps a provisioning has behind it have left
  their files (`UnderWay`), and after a complete one `config.json`, the YAML and the
  operator's own configuration say what its plan says (`Complete`); a download goes on where its
  file ends, and every file under way is a beginning of the model's (`Fetching`,
  `Downloads`). That a plan fits the host (`PlanFits`) comes from a lemma for each choice
  the planner makes, with and without a GPU. An adopted project's own files stay.

Only model-checked:
- liveness under fairness, which is beyond this prover: `HoldsEnd` (the rest of
  `ClaimsRecovered` is proved) and `Progress`;
- `ENABLED`, therefore that an action can be taken: TLC fires every one;
- how short the summaries and what the quality figures of Compression come to: they
  are computed by recursion over the conversation, and nothing is claimed of them but
  what `CompressionSound` says of every result.

## Divergences

Where the code disagrees with its own comments or does something a caller would
not expect. Five are shown by runs (`queue_token_reset`, `dag_late_child`,
`server_main`, `plane_config`, `plane_converged`); the others were met while
modelling. The models do what the code does.

Work queue (store unless said otherwise)
- `requeue_expired_leases` (735) clears the fencing token; the next claim counts
  from 1 again, while core 872 calls the token monotonically increasing.
- `request_cancellation` (1952) locks the root only; a run created below another
  descendant meanwhile is not cancelled, while its comment says the DAG is
  cancelled atomically.
- `renew_lease` (1231) extends the leases row but not
  `work_items.lease_expires_at`, which recovery reads: renewing does not protect a
  claim. It extends by the growing span since `acquired_at`.
- `dead_letter_work_item`, `acquire_lease` and `complete_work_item` make
  transitions `WorkItemStatus::legal_transitions` does not list.
- `fail_work_item` leaves its leases row active, so `acquire_lease` makes a second
  one (1131), and `release_lease` leaves the work item claimed (1254).
- `acquire_lease` does not look at the worker: drained workers get leases (2358).
- `max_attempts` is read by `claim_work_item_with_retry` only (core 461); takeover
  grants a poison item for ever (2560).

Runs
- Attempts, steps and reservations may be created under a cancelled run (86, 1942);
  nothing cancels them.
- A failed step counts as terminal and may be retried (core 1071, 1081).
- `reconcile_tool_effect` writes a timestamp only, so a later cancellation marks a
  reconciled effect cancelled (880, 2055).

Others
- `fail_idempotency` of a lapsed claim fails the claim of the client that works now
  (1917).
- `record_effect_result` overwrites what reconciliation recorded (2196).
- A half-open breaker admits every request, not a probe (1602, core 687).
- `release_stream` deletes the row with its token, so tokens may be used again
  (2704, core 920).
- `publish_pending_events` marks events published before anyone delivered them; a
  publisher's crash loses them (1033). `failed` is described as retryable
  (core 816) and nothing retries it. A failed delivery is counted twice (1073).

Authority (gateway `lib.rs`)
- A first save that found no row, and is delayed, sets the snapshot back to version 1
  (`save`, store `lib.rs` 132 and 147) if its event is the stored one; replicas that
  are further then fail every save. What was committed meanwhile stays in
  `ledger_events` and `run_receipts`, and is repeated only as it was.
- A replica whose save committed without the reply arriving, or whose handler was
  dropped while it waited (526), keeps the old version: every later save of it is
  refused until it restarts. The same befalls a second replica as soon as the first
  saves. Its answer then says that the transition could not be committed.
- A handler that ends between prepare and complete (1207, a failure of
  `create_durable_run`, of `record_stub_attempt` or of the completion itself) leaves
  the run active and its budget reserved; restored runs are not taken up either.
- Reusing the id of a released run is allowed by prepare, but its second acceptance
  meets the first receipt and is refused; the run stays active.
- `ledger_events` is keyed by organization and sequence, so two projects of one
  organization exclude each other (`migrations/0001_authority.sql:34`).

Gateway (Python; `pipeline.py` unless said otherwise)
- The retry in the cloud of a failed local answer routes over `ctx.portfolio` as it
  is: kill switches of models and providers, applied to the first route (830), are
  not applied to this one, and local candidates are still in it, though its comment
  says "retry with the cloud (OpenRouter) model" (1072). Only the last attempt's cost is charged.
- `save_run` (`database.py` 246) replaces the row, which cascades away the tenant
  whose docstring says it is persisted separately (228).
- The machine is in its final state before the receipt exists. Between the two halves
  of `issue_receipt` (`db_registry.py` 76, 80) memory may drop the record: the run is
  answered and charged and its row stays pending without a receipt. A record dropped
  after that, before `head_hash` is read (1263, 1196), turns an accepted run into a 500.
  The receipt of a record that was read back under way binds only the later events.
  `_states` is never trimmed.
- With compression on, the response cache is looked up under the original messages
  (770) and filled under the compressed ones (1290): it never hits. Putting an entry
  at the limit evicts the oldest even if the key is present already.
- `evaluate_verification` is never given a `test_result`. Corroboration (EPR-EPI-003)
  is recorded, not enforced.
- `add_evidence` overwrites what an id says (`epistemic.py` 218) while the claims that
  rest on it keep their status. The transitions a claim went through are taken out before
  they are ledgered (521): when the ledger raises in the loop, the rest is told to nobody.
- `delete_tenant` is three commits; a charge may fall between them.
- `EscalationPolicy.record_run` takes no lock. A failed delivery to a SIEM is not
  buffered, though a comment says so.

Server
- `main` installs a second signal handler that does not drain (`__main__.py:22`).
- A second signal while the first handler holds the lock never returns
  (`server.py:139`).
- A slot is not returned when answering 503 during a shutdown raises.
- A rotated key starts with a full bucket.

Administration
- `ConfigManager.get` may put an old value into the cache after a set
  (`config_manager.py:38`).
- Candidates are changed by replacing a list read earlier: an addition may be lost
  (`handlers.py`). The policy row is written from such a dump, and never read again.
- `rotate_master_key` replaces the keys in memory before `BEGIN IMMEDIATE` and outside
  the `try` that restores them (`secrets.py` 223, 228): when the database is locked by
  another process the rows stay sealed with keys nobody holds until the next start.
- What `/v1/export` writes, `/v1/import` cannot read. A restore brings revoked keys
  back. `AlertManager`'s own list of webhooks is always empty.

Analytics
- A report reads its figures in several queries: with runs saved between them a rate
  may exceed 100%. Saving a run again renews its `created_at` and overwrites the cost
  of a first attempt. A record evicted after its own mark, and read back before the row
  is saved (`db_registry.py` 178), has lost that flag, and the last save writes it so.
- The dashboard's totals are of all runs, its trends of thirty days: the days do not add
  up to the totals once a run is older (`analytics.py` 142, 541).
- Grouping or filtering by tenant changes nothing, though a docstring offers it
  (`analytics.py:100`). `is_local` and `cache_hit` are always saved as false, so the
  counts of local and cached runs are 0.
- A model none of whose answers was accepted ranks first, with a true cost of 0.

Compression
- Deduplication changes the caller's message dicts in place (the key of the entry
  is made before); merged messages lose their `tool_call_id`; summarization drops
  the system prompt and the last user message of a long conversation, though its
  comment says they are preserved (`compression.py:555`). The cache's key knows
  neither strategy nor ratio. `from_env` does not compare the least with the greatest
  adaptive ratio.

Benchmarks, improvement
- "Converged" says only that three scores are close (`noerelay_self_improve.py:593`)
  and stays true when the loop is run again. Bootstrapping resets the loop's state.
- A death while `baseline.json` is overwritten leaves a file that is no JSON; every later
  benchmark then ends in an exception and scores 0, until someone restores the copy
  (`continuous_benchmark.py` 412).
- Composition skips result files that are half written.

Nodes and tools
- A cut download is kept as the final file by `ensure_model`; a cached archive is
  skipped without having been unpacked; `config.json` is not written atomically;
  `llm start` does not look whether a server runs; the schedule written on Linux
  holds a literal `{wrapper}`; a bigger host may get a smaller context. A model path with
  an apostrophe in it (a home directory may have one) is rendered between apostrophes as
  it is (`llama_config.py` 363): PyYAML then refuses the file, and the built-in parser
  reads it. The model's paths have none, which is what `InstallSound` is checked and proved under.
- `req`: two commands at once lose an append (`reqtest.py` 405), a command killed
  between its files leaves an entry without wording, one killed while it fills the
  manifest leaves a file that every later command refuses, a partial result counts as
  passed.
- The agent adapter's lock is held through a subprocess of up to a minute, and
  assessments read without it.

## What is not modelled

- Row-level security and tenants of the store: those modules are one organization.
- Priorities and `ORDER BY` of claims: any eligible item may be claimed.
- Transactions that abort: they change nothing. Deadlock between two cancellations
  that update the same rows in different order ends so; that PostgreSQL detects it
  is its promise.
- The window in which `claim_orphaned_work` reads the worker's status before a
  drain commits: drained workers obtain leases anyway.
- Content: payloads, hashes, signatures, prompts. Where a decision depends on them
  the model takes any outcome.
- SQLite's own locking and the GIL: a statement, and a method of a dict or list, is
  a step.
- Forecasts, anomalies, per-risk breakdowns and statistics of audit and benchmarks.
- A death, or an exception, in the save of `orchestrator_state.json`
  (`noerelay_self_improve.py` 150): a torn state file stops every later start.
- The gateway without authentication, and with keys from the environment
  (`auth.py` 57): no such request depends on a stored key, so there is nothing to revoke; a key
  that is in both places stays good when its row is revoked.
  Buckets, drain and connections are the same for them.
- Edits of `spec.md` by the agent with its own tools, which `AGENT_INSTRUCTIONS`
  (`sdd.py` 117) asks for and which take no lock: what it wrote between the adapter's
  read and write of a file is lost. `AgentLoop` has the writers of this repository only.
- Network formats, streaming, dashboards, metrics, log export, process start-up.
- The extension of compression in Rust, absent unless built.
- The components with status `not_modelled` in `PROJECT.json`, for the reasons given
  there; what is left out of those that are `partly` modelled is in their notes.

## Plan

Order of construction, most important behaviour first. Done:
1. WorkQueue with its proofs. 2. RunDag. 3. Idempotency, EffectJournal.
4. CircuitBreaker and CircuitStore, with the refinement proved. 5. StreamOwnership
with proofs, Outbox. 6. GovernanceRuntime and Authority, with the refinement proved.
7. VerificationMachine, RunRegistry, Tenancy, InferencePipeline. 8. GatewayServer,
AdminPlane. 9. Decisions, ModelFleet, Evaluation, SelfImprove, PortfolioBench.
10. LlamaPlan, NodeInstall, ReqContract, AgentLoop. 11. EpistemicState, Compression.
12. Analytics. 13. The proofs of RunDag, the server, the pipeline, the remaining
protocols, and of Decisions, AgentLoop, ReqContract, AdminPlane, PortfolioBench, ModelFleet,
EpistemicState, Evaluation, SelfImprove, NodeInstall, Analytics, Compression.

No safety property of a passing run is left without its theorem; a module added below
should bring its own.

Next modules:
- **Artifacts**: the table and the object store as two systems; holds, retention,
  `delete_artifact`, `cleanup_expired` with a crash or a hold between its two steps.
- **ApiKeys**: keys, minute windows and concurrency slots of the store; holders that
  die.
- **Revisions**: governance and registry lifecycle, supersession, concurrent
  dependencies (`add_dependency` reads all links without a lock), run pins.
- **DeletionJobs**: progress and cancellation under concurrent updates.
- **Cancellation**: RunDag composed with WorkQueue, so that a claim racing with
  `request_cancellation` is covered.
- `AdminPlane` composed with `InferencePipeline`: candidates and switches changed
  through the cache that may be behind its row.
