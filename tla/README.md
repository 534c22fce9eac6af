# Verification of idelium-api-go

TLA+ models of the parts of `idelium-api-go` in which requests, runners and
worker processes compete for shared rows, checked by TLC on small instances and
proved by TLAPS where a proof says more than an instance can.

## The system

A Go HTTP service that takes over, route by route, from a Laravel application
on the same MySQL schema. Handlers keep no state between requests: what they
share are rows, locked with `SELECT ... FOR UPDATE` where a handler thinks of it.
A second process, `/idelium-worker`, posts webhook deliveries.

### Inventory

| Part | State | Operations | What makes it hard |
|---|---|---|---|
| Parallel run row (`browser_parallel_runs.go`, `parallel_runs.go`) | status, aggregate, worker states with leases, counters, stamps | create, claim, heartbeat, worker update, cancel | leases judged with a clock read before the lock; four transactions deriving the same columns; late requests on finished runs |
| Run tokens, worker tokens, claims (same files) | `run_tokens`, worker token hashes in the row, audit events | issue, revoke, consume, validate, claim | a claim is three transactions; checks read without a lock; aborts between them |
| Agent inventory (`agents.go`) | `agent_registrations` | register, set status | refresh against approval; changed-rows semantics of MySQL |
| Integration deliveries and worker (`integrations/`, `integration_*.go`, `cmd/worker`) | `integration_deliveries`, endpoint status, advisory lock | create, replay, poll, load, post, save, start, stop | crash between post and save; two consumers; retries; starvation |
| Queue drain verification | four counts | verify | counts read one after the other |
| CLI execution results (`cliapi/`, `cli_performed*.go`) | performed cycles, tests, steps | create (idempotent), update | retries after a lost answer, no-op updates |
| Asset versions and reviews (`browser_assets.go`, `browser_auth.go`) | versions, review events | save, import, transition | `MAX(version) + 1` under concurrency; who may approve |
| Artifacts, exports, bulk jobs (`browser_auth.go`, `artifacts/`) | descriptors, exports, snapshots, jobs | register, hold, archive, restore, delete, export | legal hold against deletion; expiry |
| Sessions and tenant switch (`browserauth/handler.go`) | `go_browser_sessions` | login, logout, switch | audit after commit; expiry during a request |
| Accounts, customers, projects, environments, plugins, steps | one table each | create, update, delete | checks before inserts |
| Identity (`identity/`) | SSO states, MFA secrets, SCIM users, break-glass | start, callback, enrol, confirm, provision | single use; secret replaced between check and confirmation |
| Platform catalogue (`platforms/`) | catalogue tables | create, update, delete | references between entries |
| API keys, service accounts | key rows | create, rotate, revoke | use during rotation |
| Migrations (`migrations/`, `cmd/migrate`) | schema, ledger | baseline, bridge, upgrade | crash between two steps |
| Process lifecycle, routing, configuration, redaction, secrets, OpenAPI table | none shared | | |

`PROJECT.json` lists all of them with their status, and the hazards of the code
at the lines where they bite.

## Modules

| Module | Models |
|---|---|
| `ParallelRunRow` | one row and its transactions as functions from the locked row to the committed one |
| `ParallelRun` | the row under concurrent requests: a clock, and requests with the time they captured |
| `RunLifecycle` | what readers of a run can rely on, status and occupied slots only: a run that is over has nobody working on it, for good. The converse is not part of it: a run nobody works on may stay `running` |
| `ParallelRunProofs` | proofs about `ParallelRun` |
| `AgentRow`, `AgentRegistry` | one agent registration; the inventory and its answers |
| `RunnerClaims` | composition of run, run tokens, worker tokens and agents; each request is a process |
| `IntegrationDelivery` | deliveries, endpoint, advisory lock and worker processes |
| `IntegrationDeliveryProofs` | proofs about `IntegrationDelivery` |
| `MC*` | small instances |

### Parallel run

The variable `run` is the row; `DOMAIN run.workers` is the set of keys of the
JSON column `workerStates`. Each transaction of the code is one action (`Claim`,
`Heartbeat`, `UpdateWorker`, `Cancel`), including the recalculation, the
counters and the outcome it derives on the way. A refused or rolled-back
transaction leaves the row alone and is a stuttering step.

Handlers call `time.Now` before they ask for the row lock. A request waiting for
the lock holds nothing but that time, so it needs no process: an action takes
any `now` a handler may have read up to `MaxDelay` ago, also after transactions
with a later `now`. `LaravelCancelling` stands for the Laravel application, the
only writer of `cancelling`; it is modelled from how the claim reads it.

`RowOver` describes the stored row. Capabilities, display timestamps and
`resultSummary`, a copy of what the row holds anyway, are left out. Worker
tokens are values that are equal or not (`Creds`); hashing is not modelled.

### Claims

`ClaimParallelRun` consumes the run token in one transaction, audits it in a
second and takes the slot in a third, with one captured time. A request is a
record with a program counter, and other requests run between its steps:

    idle -> consume -> auditConsume -> claim -> admitted -> idle
    idle -> validate -> write -> idle          (runner heartbeat and report)
    idle -> auditIssue -> idle                 (token issue)

Issue, revocation, consumption and rejection of a token are audited in
transactions of their own, after the fact; `audit` holds what was recorded, and
an audit may fail without undoing what it is about (`MayAudit`). A runner write
reads its time after the token check, between the check and the row lock.

`admitted` is the time between the checks of the third transaction and its
commit, while it holds the row lock (`RowFree`). The agent's row is not locked,
so it may change then. `Abort` ends a request at any point. A commit may take
effect and be reported as failed (`ConsumeToken`), and an answer may be lost
(`TakeSlot`: the runner then never learns its worker token).

### Agents

MySQL reports the rows an `UPDATE` changed (`clientFoundRows` is not set), and
`updated_at` has a resolution of a second. `UpdateAgentStatus` keeps both, and
its answer is part of the state.

### Integration deliveries

A worker process goes through `poll -> load -> send -> save`; nothing encloses
these steps. `Stop` is a cancelled context, after which the outcome cannot be
saved; `Crash` leaves the advisory lock to the database, which frees it in
`ReleaseDeadLock`; `DropLease` is the loss of the connection that holds the lock
while its worker goes on; `DatabaseFails` is a failed read or save. `Load` may
refuse an attempt without posting: the endpoint is disabled, or its URL, its
secret or the payload is unusable. A delivery is created only for an endpoint
that subscribes to the event (`Subscribed`). `Unreadable` rows are those that
`LoadForDispatch` cannot return at all. The clock saturates at `MaxClock`, which
keeps delays of different lengths comparable in a finite model.

## Runs

| Run | Shows | Instance |
|---|---|---|
| `parallel_run` | counters, outcome, verdict, stamps, leases, losses and admission of the row, and that it implements `RunLifecycle` | 3 workers, 2 slots, leases of 1 and 2, requests delayed by 1, clock to 3 |
| `parallel_run_settles` | **violation** of `EndedRunIsOver` | 2 workers, 1 slot |
| `parallel_run_slots` | **violation** of `ConcurrencyLimit` | 2 workers, 1 slot |
| `agent_registry` | a refresh never changes an approval | 2 agents, 1 certificate |
| `agent_registry_answers` | **violation** of `NotFoundMeansUnknown` | 1 agent |
| `runner_claims` | a token pays once, nobody enters without one, stamps stand | 2 workers, 2 overlapping requests, 1 token, required |
| `runner_agents` | one late claim at most; a repeated claim keeps the reported result | 1 agent, 2 overlapping claims |
| `runner_writes` | runner writes after the token check, also when the worker claimed anew meanwhile: the newest token stands; the composition implements `ParallelRun` | 1 worker, 2 requests, 2 worker tokens |
| `deliveries` | attempts counted once, retries bounded, repeated posts explained | 1 delivery, 2 workers, 3 attempts, 2 replays, 1 fault, lock may be lost |
| `deliveries_settle` | every delivery is sent or becomes a dead letter | 2 deliveries, 2 workers, 1 replay, 1 fault |
| `deliveries_unreadable` | **violation** of `EveryDeliverySettles` | 1 unreadable delivery of 2 |
| `deliveries_lease` | **violation** of `SingleConsumer` | 2 workers, lock may be lost |

### Why the bounds are enough

* A delay of 1 with a clock to 3 lets a request judge a lease with a time before
  the end of the lease while others committed after it; leases of two lengths
  let a renewal end before and after a claim's lease.
* Three workers on two slots meet the conflicts over a slot and the verdicts
  that need two kinds of ends besides a third. Workers are interchangeable, so
  the instance is reduced by symmetry. Reported results and worker tokens play
  no part in its properties and are left to the runs of `RunnerClaims`.
* One token and two requests are the conflicts over a token: claim against
  claim, against revocation, against expiry. Tokens do not interact.
* One delivery suffices for what is said of a single row; the order between
  rows matters for progress only, and `deliveries_settle` has two.
* `MaxReplays` and `MaxFaults` bound the environment. `MaxAttempts` is 3 as in
  the service for the counting, 2 where only progress matters.

Runs of the parallel run do not check deadlock: a finished run at the end of the
clock has nothing left to do.

### Fairness

Only `FairSpec` of `IntegrationDelivery` assumes any: the clock goes on, the
database notices dead connections, a worker that is down is started again (the
deployment's restart policy), and the loop of `worker.go` goes on by itself,
since it waits for nothing but its timer and bounded calls. Saves, posts and
endpoints may still fail, replays and faults are finite.

## What the violations show

* `ConcurrencyLimit`: a worker finishes, another takes the slot, the first
  claims again. `ClaimParallelRun` looks at the limit only for workers it does
  not know, so two run on one slot. A report of `running` does the same. What
  does hold is `NewWorkerFitsConcurrency`.
* `EndedRunIsOver`: the only worker reports `completed`. `UpdateRunnerWorker`
  stores the workers and the counters, not the status, the aggregate or the
  completion time, so the run stays `running` with nobody active; the golden
  fixtures of the same request expect `completed`. What does hold is
  `OutcomeIsWhole` (a run that is over has its whole outcome, and no other run
  has any of it) and `HeartbeatSettles` (the next heartbeat of any known worker
  leaves a worker running or the run over).
* `NotFoundMeansUnknown`: setting the status an agent has, twice in a second,
  answers that the agent does not exist.
* `SingleConsumer`: the lease is not watched after it is granted. What does hold,
  with any number of consumers, is `AttemptFinalizedOnce`.
* `EveryDeliverySettles` with an unreadable row (a payload that is not a JSON
  object): loading fails before an attempt is counted, so the delivery is due
  again at once and keeps those behind it waiting.

`findings` in `PROJECT.json` quotes the lines of the repository they disagree
with.

## Proofs

`ParallelRunProofs` proves, for any finite set of workers, any leases, delay and
concurrency: `TypeOK`, `CountersMatchWorkers`, `OutcomeIsWhole`,
`HeartbeatSettles`, `StampsWithinDelay`, `TerminalIsFinal`,
`NewWorkerFitsConcurrency`, `SilentWorkersFound`, `NoRevival`, `LeaseSetBack`,
and that `ParallelRun` implements `RunLifecycle`. The
assumptions are `RowAssumption` and `TimeAssumption`.

The inductive invariant is the conjunction of the state properties with two
facts: a queued run has no workers (`QueuedIsEmpty`), and `startedAt` is not in
the future (`StartedInPast`). The first is what keeps a heartbeat or a report
from touching a queued run, which the refinement needs; the second is what
bounds the stamps, because a transaction that stamps the end of a run captured
its time at most `MaxDelay` before a clock that `startedAt` does not exceed. The
admission theorem needs `CountersMatchWorkers`: the claim compares a stored
counter, and the theorem speaks of the workers. `LeaseSetBack` needs one more
invariant, `LeaseInReach`: no stored lease ends later than the clock plus the
length of some lease, so that a renewal computed with a time at
most `MaxDelay` old cannot fall further behind it. Each transaction has a lemma on
the row it computes (`ClaimFacts`, `HeartbeatFacts`, ...), each action one on
the invariant, and `StepEffect` collects what a step does to the running workers
for the action properties and the refinement.

`IntegrationDeliveryProofs` proves `TypeOK`, `RetriesBounded` and
`AttemptFinalizedOnce` for any number of deliveries, workers, replays and
faults, with the lock lost at will. The invariant adds `ProcessesAligned`: a
process at `save` carries the attempt after the one it read, with status and
retry time in agreement; the optimistic guard then makes every saved outcome the
next attempt. The assumptions are `DeliveryAssumption` and `NullAssumption`.

Only model-checked: liveness and fairness; `VerdictExplained`, `ResultsSurvive`,
`NoPrematureLoss`, `RenewalInTime`; everything about `RunnerClaims` and
`AgentRegistry`; `PostsExplained`.

## Not modelled

Reads, routing, middleware, configuration, payload formats, cryptography and
redaction have no shared state to get wrong. The generated OpenAPI table is
data. The parts of the inventory that are not modelled yet are planned below.

## Plan

1. `RunCreation`: `createParallelRuns` with its idempotency key and matrix,
   composed with the row.
2. `PerformedResults`: idempotent creation and updates of cycles, tests and
   steps under retries and lost answers.
3. `AssetVersions`: version numbers under concurrent saves, review transitions
   and the rule that authors do not approve their own versions.
4. `Identity`: SSO state, MFA enrolment, break-glass, SCIM.
5. `Artifacts` and `Exports`: lifecycle with legal hold and expiry; grid
   snapshots and bulk jobs.
6. `Sessions`: login, expiry, tenant switch with its audit.
7. `QueueDrain`: the drain verdict against concurrent producers, composed with
   `IntegrationDelivery`.
8. `PlatformCatalogue`, accounts, API keys and service accounts.
9. `Migrations`: crash between steps and reruns.
10. Proofs: `PostsExplained` (while the lock is not lost, the only process that
    dispatches is its owner), `TokenPaysOnce` and `WorkersPaid`, the refinement
    of `ParallelRun` by `RunnerClaims`, then the invariants of 1 to 3.
