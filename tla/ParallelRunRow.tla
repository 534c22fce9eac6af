--------------------------- MODULE ParallelRunRow ---------------------------
(***************************************************************************)
(* One row of parallel_run_schedules and the four transactions that        *)
(* rewrite it: claim, heartbeat, worker update and cancellation.  Each     *)
(* transaction holds the row with SELECT ... FOR UPDATE from its first     *)
(* read to its commit, so each is a function from the locked row to the    *)
(* row it commits, together with the guard under which it commits at all.  *)
(*                                                                         *)
(* Worker capabilities, display timestamps (claimedAt, lastHeartbeatAt,    *)
(* updatedAt, lostAt) and resultSummary, which every transaction rebuilds  *)
(* from the worker states it stores, are left out.                         *)
(***************************************************************************)
EXTENDS Naturals, FiniteSets

CONSTANTS
    WorkerIds,              \* worker identifiers that may claim a slot
    Results,                \* results a worker may report
    Creds,                  \* worker tokens the service may generate
    Null,                   \* SQL NULL, JSON null, an absent JSON member
    RequestedConcurrency,   \* the row's requestedConcurrency, 1..32
    ClaimLease,             \* lease granted by a claim (120 seconds)
    WorkerTokenTTL,         \* lifetime of a worker token (120 seconds)
    Leases                  \* leases a heartbeat may ask for (15..3600 seconds)

ASSUME RowAssumption ==
    /\ IsFiniteSet(WorkerIds)
    /\ RequestedConcurrency \in Nat \ {0}
    /\ ClaimLease \in Nat \ {0}
    /\ WorkerTokenTTL \in Nat \ {0}
    /\ Leases \subseteq Nat \ {0}
    /\ Null \notin Nat
    /\ Null \notin Results
    /\ Null \notin Creds

Times == Nat \cup {Null}

WorkerStatuses == {"running", "completed", "failed", "cancelled", "lost"}

Worker == [status : WorkerStatuses, lease : Nat, result : Results \cup {Null},
           cred : Creds \cup {Null}, credExpires : Times]

TerminalStatuses == {"cancelled", "completed", "failed", "lost"}

RunStatuses == {"queued", "running", "cancelling"} \cup TerminalStatuses

\* parallelRunTerminal
Terminal(status) == status \in TerminalStatuses

(***************************************************************************)
(* workerStates: a JSON object, here a function whose domain is the set of *)
(* workers that ever claimed the run.                                      *)
(***************************************************************************)
WorkersWith(ws, s) == {w \in DOMAIN ws : ws[w].status = s}

Count(ws, s) == Cardinality(WorkersWith(ws, s))

\* The counter columns; the number of lost workers has no column.
Counters(ws) ==
    [active    |-> Count(ws, "running"),
     total     |-> Cardinality(DOMAIN ws),
     completed |-> Count(ws, "completed"),
     failed    |-> Count(ws, "failed"),
     cancelled |-> Count(ws, "cancelled")]

\* Variant: the lease already counts as over in the instant it ends.
ExpiredAtOnce(worker, now) == worker.status = "running" /\ worker.lease <= now

Expired(worker, now) == worker.status = "running" /\ worker.lease < now

\* recalculateParallelRunWorkers: a running worker whose lease lies strictly
\* before the request time is lost.
Recalculate(ws, now) ==
    [w \in DOMAIN ws |->
        IF Expired(ws[w], now) THEN [ws[w] EXCEPT !.status = "lost"] ELSE ws[w]]

\* Variant: lost workers take precedence over failed ones.
VerdictLostFirst(ws) ==
    IF Count(ws, "lost") > 0 THEN [status |-> "lost", aggregate |-> 4]
    ELSE IF Count(ws, "failed") > 0 THEN [status |-> "failed", aggregate |-> 2]
    ELSE IF Count(ws, "cancelled") > 0 /\ Count(ws, "completed") = 0
         THEN [status |-> "cancelled", aggregate |-> 3]
    ELSE IF Count(ws, "cancelled") > 0 THEN [status |-> "failed", aggregate |-> 3]
    ELSE [status |-> "completed", aggregate |-> 1]

\* The verdict on a run none of whose workers is active, by precedence.
Verdict(ws) ==
    IF Count(ws, "failed") > 0 THEN [status |-> "failed", aggregate |-> 2]
    ELSE IF Count(ws, "lost") > 0 THEN [status |-> "lost", aggregate |-> 4]
    ELSE IF Count(ws, "cancelled") > 0 /\ Count(ws, "completed") = 0
         THEN [status |-> "cancelled", aggregate |-> 3]
    ELSE IF Count(ws, "cancelled") > 0 THEN [status |-> "failed", aggregate |-> 3]
    ELSE [status |-> "completed", aggregate |-> 1]

\* Variants: the completion time is forgotten, or is Go's zero time.
OutcomeUnstamped(row, now) ==
    IF DOMAIN row.workers = {} \/ Count(row.workers, "running") > 0
    THEN row
    ELSE [row EXCEPT !.status = Verdict(row.workers).status,
                     !.aggregate = Verdict(row.workers).aggregate]

OutcomeZeroStamp(row, now) ==
    [OutcomeUnstamped(row, now) EXCEPT
        !.completedAt = IF Terminal(OutcomeUnstamped(row, now).status) /\ @ = Null THEN 0 ELSE @]

\* parallelRunWorkerOutcome, on the row whose status, aggregate and completedAt
\* it is given and whose workers are already recalculated.
Outcome(row, now) ==
    IF DOMAIN row.workers = {} \/ Count(row.workers, "running") > 0
    THEN row
    ELSE [row EXCEPT !.status = Verdict(row.workers).status,
                     !.aggregate = Verdict(row.workers).aggregate,
                     !.completedAt = IF @ = Null THEN now ELSE @]

-----------------------------------------------------------------------------
(***************************************************************************)
(* The row, as createParallelRuns inserts it, and its transactions.        *)
(***************************************************************************)
RowOver(ids) ==
    [status : RunStatuses, aggregate : (1..4) \cup {Null}, workers : [ids -> Worker],
     counters : [active : Nat, total : Nat, completed : Nat, failed : Nat, cancelled : Nat],
     startedAt : Times, completedAt : Times, cancelledAt : Times]

IsRow(row) == \E ids \in SUBSET WorkerIds : row \in RowOver(ids)

NoWorkers == [w \in {} |-> Null]

QueuedRow ==
    [status |-> "queued", aggregate |-> Null, workers |-> NoWorkers,
     counters |-> Counters(NoWorkers),
     startedAt |-> Null, completedAt |-> Null, cancelledAt |-> Null]

\* Variant: the counters are computed before the worker states change.
WithWorkersStaleCounters(row, ws) ==
    [row EXCEPT !.workers = ws, !.counters = Counters(row.workers)]

\* Store recalculated worker states with the counters computed from them.
WithWorkers(row, ws) == [row EXCEPT !.workers = ws, !.counters = Counters(ws)]

\* Variants: an off-by-one in the limit; a run being cancelled admits workers.
ClaimAllowedOneOver(row, w) ==
    /\ ~Terminal(row.status)
    /\ row.status # "cancelling"
    /\ w \in DOMAIN row.workers \/ row.counters.active <= RequestedConcurrency

ClaimAllowedCancelling(row, w) ==
    /\ ~Terminal(row.status)
    /\ w \in DOMAIN row.workers \/ row.counters.active < RequestedConcurrency

\* A first-time worker is admitted against the stored activeWorkers column; a
\* worker the row already knows is admitted whatever the column says.
ClaimAllowed(row, w) ==
    /\ ~Terminal(row.status)
    /\ row.status # "cancelling"
    /\ w \in DOMAIN row.workers \/ row.counters.active < RequestedConcurrency

\* Variants: a claim forgets an earlier result; a claim stores an unknown status.
ClaimedWorkersForgetful(ws, w, now, cred) ==
    [v \in DOMAIN ws \cup {w} |->
        IF v # w THEN ws[v]
        ELSE [status |-> "running", lease |-> now + ClaimLease, result |-> Null, cred |-> cred,
              credExpires |-> IF cred = Null THEN Null ELSE now + WorkerTokenTTL]]

ClaimedWorkersClaimed(ws, w, now, cred) ==
    [ClaimedWorkersForgetful(ws, w, now, cred) EXCEPT ![w].status = "claimed"]

\* The claim replaces the worker's record, keeping only its result.  Without a
\* fresh worker token (cred = Null) the previous token is dropped.
ClaimedWorkers(ws, w, now, cred) ==
    [v \in DOMAIN ws \cup {w} |->
        IF v # w THEN ws[v]
        ELSE [status |-> "running", lease |-> now + ClaimLease,
              result |-> IF w \in DOMAIN ws THEN ws[w].result ELSE Null,
              cred |-> cred,
              credExpires |-> IF cred = Null THEN Null ELSE now + WorkerTokenTTL]]

\* ClaimParallelRun, the transaction that follows the run token.
ClaimRow(row, w, now, cred) ==
    [WithWorkers(row, Recalculate(ClaimedWorkers(row.workers, w, now, cred), now))
        EXCEPT !.status = "running",
               !.startedAt = IF @ = Null THEN now ELSE @]

\* Variant: workers of a finished run may still be written.
WorkerWritableWhenOver(row, w) == w \in DOMAIN row.workers

WorkerWritable(row, w) == ~Terminal(row.status) /\ w \in DOMAIN row.workers

\* Variants: a worker that ended is renewed too; leases are extended from their
\* end instead of from the time of the request.
RenewedWorkersAnyway(ws, w, now, lease) ==
    [ws EXCEPT ![w].status = "running", ![w].lease = now + lease]

RenewedWorkersExtended(ws, w, now, lease) ==
    IF ws[w].status = "running" THEN [ws EXCEPT ![w].lease = @ + lease] ELSE ws

\* HeartbeatParallelRunWorker: expire first, renew only what is still running.
RenewedWorkers(ws, w, now, lease) ==
    IF ws[w].status = "running" THEN [ws EXCEPT ![w].lease = now + lease] ELSE ws

\* Variant: renew first, so that a heartbeat revives an expired worker.
HeartbeatRowReviving(row, w, now, lease) ==
    LET ws == RenewedWorkers(row.workers, w, now, lease)
    IN  Outcome(WithWorkers(row, Recalculate(ws, now)), now)

\* Variant: the heartbeat of a worker that ended returns before the outcome.
HeartbeatRowConflict(row, w, now, lease) ==
    LET ws == RenewedWorkers(Recalculate(row.workers, now), w, now, lease)
        stored == WithWorkers(row, Recalculate(ws, now))
    IN  IF stored.workers[w].status = "running" THEN Outcome(stored, now) ELSE stored

HeartbeatRow(row, w, now, lease) ==
    LET ws == RenewedWorkers(Recalculate(row.workers, now), w, now, lease)
    IN  Outcome(WithWorkers(row, Recalculate(ws, now)), now)

\* UpdateRunnerWorker stores what the worker reports; it neither renews the
\* lease nor derives the status of the run.
Reported(worker, status, result) ==
    [worker EXCEPT !.status = status, !.result = IF result = Null THEN @ ELSE result]

ReportedWorkers(ws, w, status, result) ==
    [ws EXCEPT ![w] = Reported(ws[w], status, result)]

\* Variant: a report does not look for silent workers.
UpdateRowUnchecked(row, w, now, status, result) ==
    WithWorkers(row, ReportedWorkers(row.workers, w, status, result))

UpdateRow(row, w, now, status, result) ==
    WithWorkers(row, Recalculate(ReportedWorkers(row.workers, w, status, result), now))

\* Variant: cancellation removes the running workers.
CancelledWorkersRemoved(ws) == [w \in DOMAIN ws \ WorkersWith(ws, "running") |-> ws[w]]

CancelledWorkers(ws) ==
    [w \in DOMAIN ws |->
        IF ws[w].status = "running" THEN [ws[w] EXCEPT !.status = "cancelled"] ELSE ws[w]]

\* CancelParallelRun
CancelRow(row, now) ==
    Outcome([WithWorkers(row, Recalculate(CancelledWorkers(row.workers), now))
                EXCEPT !.status = "cancelled", !.aggregate = 3,
                       !.completedAt = now, !.cancelledAt = now], now)
=============================================================================
