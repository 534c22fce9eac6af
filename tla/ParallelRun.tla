---------------------------- MODULE ParallelRun -----------------------------
(***************************************************************************)
(* The life of one parallel run under concurrent browser, API-key and      *)
(* runner requests.                                                        *)
(*                                                                         *)
(* Every handler reads the clock before the repository asks for the row    *)
(* lock, and holds nothing else while it waits.  A request waiting for the *)
(* lock is therefore represented by the time it captured: a transaction    *)
(* runs with any `now' that a handler may have read up to MaxDelay ago,    *)
(* also when transactions with a later `now' committed before it.          *)
(*                                                                         *)
(* A transaction that is refused, or fails and rolls back, leaves the row  *)
(* as it was and is a stuttering step.  The run token and the agent checks *)
(* of a claim, which can only refuse it, are modelled in RunnerClaims.     *)
(***************************************************************************)
EXTENDS ParallelRunRow

CONSTANTS
    MaxDelay,   \* longest time between reading the clock and the lock
    MaxClock    \* bound on the clock

ASSUME TimeAssumption == MaxDelay \in Nat /\ MaxClock \in Nat

VARIABLES
    clock,      \* the time the handlers read
    run         \* the row

vars == <<clock, run>>

Init ==
    /\ clock = 0
    /\ run = QueuedRow

\* The times a request that now gets the row lock may have captured.
CapturedTimes == {now \in 0..clock : clock <= now + MaxDelay}

Tick ==
    /\ clock < MaxClock
    /\ clock' = clock + 1
    /\ UNCHANGED run

Claim(w, now, cred) ==
    /\ ClaimAllowed(run, w)
    /\ run' = ClaimRow(run, w, now, cred)
    /\ UNCHANGED clock

Heartbeat(w, now, lease) ==
    /\ WorkerWritable(run, w)
    /\ run' = HeartbeatRow(run, w, now, lease)
    /\ UNCHANGED clock

UpdateWorker(w, now, status, result) ==
    /\ WorkerWritable(run, w)
    /\ run' = UpdateRow(run, w, now, status, result)
    /\ UNCHANGED clock

Cancel(now) ==
    /\ ~Terminal(run.status)
    /\ run' = CancelRow(run, now)
    /\ UNCHANGED clock

\* The Laravel application shares the table and may leave a run cancelling;
\* the Go service reads that status and never writes it.
LaravelCancelling ==
    /\ run.status \in {"queued", "running"}
    /\ run' = [run EXCEPT !.status = "cancelling"]
    /\ UNCHANGED clock

Request(now) ==
    \/ \E w \in WorkerIds :
        \/ \E cred \in Creds \cup {Null} : Claim(w, now, cred)
        \/ \E lease \in Leases : Heartbeat(w, now, lease)
        \/ \E status \in WorkerStatuses, result \in Results \cup {Null} :
                UpdateWorker(w, now, status, result)
    \/ Cancel(now)

Next ==
    \/ Tick
    \/ \E now \in CapturedTimes : Request(now)
    \/ LaravelCancelling

Spec == Init /\ [][Next]_vars

-----------------------------------------------------------------------------
\* Every stored field of the row keeps its type through all handlers.
TypeOK ==
    /\ clock \in 0..MaxClock
    /\ IsRow(run)

Running(row) == WorkersWith(row.workers, "running")

\* The counter columns that the list and claim paths read without looking at
\* workerStates (line 153 reads activeWorkers) agree with workerStates after
\* every handler.
CountersMatchWorkers == run.counters = Counters(run.workers)

\* The outcome of a run is stored whole, whichever of the four transactions
\* stores it: a terminal row has an aggregate, a completion time and nobody
\* running; any other row has no aggregate, completion or cancellation time.
\* A row whose workers have all ended may be either, see EndedRunIsOver.
OutcomeIsWhole ==
    IF Terminal(run.status)
    THEN Running(run) = {} /\ run.aggregate # Null /\ run.completedAt # Null
    ELSE run.aggregate = Null /\ run.completedAt = Null /\ run.cancelledAt = Null

\* Workers claimed the run, none of them runs any more, and it is not over.
LeftOpen(row) ==
    /\ DOMAIN row.workers # {}
    /\ Running(row) = {}
    /\ ~Terminal(row.status)

\* The recorded worker update expects the run to be over, with aggregate and
\* completion time, once its last worker has reported.
EndedRunIsOver == ~LeftOpen(run)

\* A heartbeat finishes what reports left open: whatever state the run got into,
\* the next heartbeat of any worker it knows, also of one that ended and is
\* answered with a conflict, leaves somebody running or the run over.
HeartbeatSettles ==
    \A w \in WorkerIds, now \in CapturedTimes, lease \in Leases :
        WorkerWritable(run, w) => ~LeftOpen(HeartbeatRow(run, w, now, lease))

\* The verdict on a terminal run is the documented precedence over what its
\* workers ended as: failure wins, then lost; completed and cancelled workers
\* together fail the run with the cancelled aggregate; all cancelled, or no
\* worker at all, is cancelled.
VerdictExplained ==
    LET ends == {run.workers[w].status : w \in DOMAIN run.workers}
        verdict == <<run.status, run.aggregate>>
    IN  Terminal(run.status) =>
            /\ verdict = <<"failed", 2>> <=> "failed" \in ends
            /\ verdict = <<"lost", 4>> <=> "lost" \in ends /\ "failed" \notin ends
            /\ verdict = <<"failed", 3>> <=> ends = {"completed", "cancelled"}
            /\ verdict = <<"cancelled", 3>> <=> ends \subseteq {"cancelled"}
            /\ verdict = <<"completed", 1>> <=> ends = {"completed"}

\* Handlers stamp rows with the time they captured, so stamps may be out of
\* order, but never by more than a request can be delayed.
StampsWithinDelay ==
    \A stamp \in {run.completedAt, run.cancelledAt} :
        stamp # Null /\ run.startedAt # Null => run.startedAt <= stamp + MaxDelay

\* No handler, however late it gets the lock, touches a run that is over: not
\* its verdict, nor a worker, nor a timestamp.
TerminalIsFinal == [][Terminal(run.status) => run' = run]_vars

\* A worker that is new to the run is admitted only into a free slot: right
\* after its claim no more workers run than the run asked for.
NewWorkerFitsConcurrency ==
    [][DOMAIN run'.workers # DOMAIN run.workers =>
            Cardinality(Running(run')) <= RequestedConcurrency]_vars

\* What a worker reported survives: no claim, heartbeat, cancellation or
\* expiry removes a worker or changes its result; only its own report does.
ResultsSurvive ==
    [][\A w \in DOMAIN run.workers :
            /\ w \in DOMAIN run'.workers
            /\ \/ run'.workers[w].result = run.workers[w].result
               \/ \E now \in CapturedTimes, status \in WorkerStatuses :
                    UpdateWorker(w, now, status, run'.workers[w].result)]_vars

\* A stale captured time errs on the worker's side: unless it says so itself,
\* no worker is declared lost before its lease really is over.
NoPrematureLoss ==
    [][\A w \in Running(run) :
            w \in WorkersWith(run'.workers, "lost") =>
                \/ run.workers[w].lease < clock
                \/ \E now \in CapturedTimes, result \in Results \cup {Null} :
                        UpdateWorker(w, now, "lost", result)]_vars

\* Any handler that rewrites the workers also finds the silent ones: none
\* still runs on a lease that was over MaxDelay ago.
SilentWorkersFound ==
    [][run'.workers # run.workers =>
            \A w \in Running(run') : clock <= run'.workers[w].lease + MaxDelay]_vars

\* A heartbeat cannot rescue a worker: a lease is renewed, other than by a new
\* claim, only while it is not over.
RenewalInTime ==
    [][\A w \in Running(run) \cap Running(run') :
            \/ run'.workers[w].lease = run.workers[w].lease
            \/ clock <= run.workers[w].lease + MaxDelay
            \/ \E now \in CapturedTimes, cred \in Creds \cup {Null} : Claim(w, now, cred)]_vars

\* A worker that ended, above all one that another request declared lost, runs
\* again only when it claims again or itself reports to be running: neither its
\* own late heartbeat nor anybody else's request revives it.
NoRevival ==
    [][\A w \in DOMAIN run.workers \ Running(run) :
            w \in Running(run') =>
                \/ \E now \in CapturedTimes, cred \in Creds \cup {Null} : Claim(w, now, cred)
                \/ \E now \in CapturedTimes, result \in Results \cup {Null} :
                        UpdateWorker(w, now, "running", result)]_vars

\* A heartbeat or claim that was delayed sets back a lease that a later one had
\* extended already, and so does one that asks for less.  It never takes more
\* than the longest delay beyond the difference of the lengths asked for.
LeaseSetBack ==
    [][\A w \in Running(run) \cap Running(run') :
            \E asked, granted \in Leases \cup {ClaimLease} :
                run.workers[w].lease + asked
                    <= run'.workers[w].lease + granted + MaxDelay]_vars

\* The row implements the run its readers are promised.
Lifecycle == INSTANCE RunLifecycle WITH status <- run.status, running <- Running(run)
ImplementsLifecycle == Lifecycle!Spec

\* The claim path documents that competing requests cannot occupy the same
\* slot, and that a worker that claims again does not raise the worker count.
ConcurrencyLimit == Cardinality(Running(run)) <= RequestedConcurrency
=============================================================================
