------------------------- MODULE IntegrationDelivery ------------------------
(***************************************************************************)
(* Webhook deliveries of one integration endpoint: the requests that       *)
(* create and replay them, and the worker processes that post them.        *)
(*                                                                         *)
(* A worker polls for the delivery that is due first, reads it, posts it   *)
(* and saves the outcome, in four separate steps without a transaction     *)
(* around them.  It may crash, be stopped or lose the database between any *)
(* two.  An advisory lock held by a database connection admits one worker; *)
(* nobody looks at that connection again once the lock is granted.         *)
(*                                                                         *)
(* Payloads, signatures, response codes, error texts and sentAt are left   *)
(* out.  Times at or after MaxClock are all MaxClock.                      *)
(***************************************************************************)
EXTENDS Naturals, Sequences, FiniteSets

CONSTANTS
    Deliveries,     \* ids of the rows of integration_deliveries
    EndpointEvents, \* events the endpoint subscribes to, fixed when it is created
    Unreadable,     \* rows LoadForDispatch cannot return
    Workers,        \* worker processes
    MaxAttempts,    \* attempts before a failing delivery is a dead letter (3)
    Backoff,        \* the delays after failed attempts (1, 5, 15 minutes)
    LeaseMayDrop,   \* may the connection that holds the lock be lost?
    Null,
    MaxReplays,     \* bound on the replays
    MaxFaults,      \* bound on crashes, stops and failed statements
    MaxClock        \* bound on the clock

ASSUME DeliveryAssumption ==
    /\ Deliveries \subseteq Nat
    /\ Unreadable \subseteq Deliveries
    /\ IsFiniteSet(Workers)
    /\ MaxAttempts \in Nat \ {0}
    /\ Backoff \in Seq(Nat) /\ Backoff # << >>
    /\ LeaseMayDrop \in BOOLEAN
    /\ Null \notin Nat /\ Null \notin Workers
    /\ MaxReplays \in Nat /\ MaxFaults \in Nat /\ MaxClock \in Nat

VARIABLES
    clock,
    rows,       \* integration_deliveries, Null for a row not inserted yet
    endpoint,   \* status of the integration endpoint
    owner,      \* the worker whose connection holds the advisory lock
    proc,       \* the worker processes
    posts,      \* history: how often each delivery was posted
    replays,    \* history: how many replays there were
    faults,     \* history: how many crashes, stops and failed statements there were
    dropped     \* history: was the lock lost under a running worker?

vars == <<clock, rows, endpoint, owner, proc, posts, replays, faults, dropped>>

Statuses == {"pending", "failed", "sent", "dead_letter"}

Row == [status : Statuses, attempts : Nat, nextAttemptAt : Nat \cup {Null}, createdAt : Nat]

Outcome == [status : Statuses \ {"pending"}, attempts : Nat \ {0},
            nextAttemptAt : Nat \cup {Null}]

Process == [pc : {"down", "poll", "load", "send", "save"}, id : Deliveries \cup {Null},
            attempts : Nat, outcome : Outcome \cup {Null}]

ASSUME NullAssumption == Null \notin Row /\ Null \notin Outcome

Down == [pc |-> "down", id |-> Null, attempts |-> 0, outcome |-> Null]

Polling == [Down EXCEPT !.pc = "poll"]

Init ==
    /\ clock = 0
    /\ rows = [d \in Deliveries |-> Null]
    /\ endpoint = "active"
    /\ owner = Null
    /\ proc = [p \in Workers |-> Down]
    /\ posts = [d \in Deliveries |-> 0]
    /\ replays = 0
    /\ faults = 0
    /\ dropped = FALSE

Tick ==
    /\ clock < MaxClock
    /\ clock' = clock + 1
    /\ UNCHANGED <<rows, endpoint, owner, proc, posts, replays, faults, dropped>>

-----------------------------------------------------------------------------
(***************************************************************************)
(* Browser requests.                                                       *)
(***************************************************************************)

\* The test event itself, or all events.
Subscribed == EndpointEvents \cap {"*", "integration.test"} # {}

\* CreateIntegrationTestDelivery; a repeated request in the same second finds
\* the row by its idempotency key and changes nothing.
CreateDelivery(d) ==
    /\ endpoint = "active"
    /\ Subscribed
    /\ rows[d] = Null
    /\ rows' = [rows EXCEPT ![d] = [status |-> "pending", attempts |-> 0,
                                    nextAttemptAt |-> Null, createdAt |-> clock]]
    /\ UNCHANGED <<clock, endpoint, owner, proc, posts, replays, faults, dropped>>

\* Variant: a replay is queued instead of pending.
ReplayQueued(d) ==
    /\ rows[d] # Null
    /\ replays < MaxReplays
    /\ rows' = [rows EXCEPT ![d].status = "queued", ![d].nextAttemptAt = Null]
    /\ replays' = replays + 1
    /\ UNCHANGED <<clock, endpoint, owner, proc, posts, faults, dropped>>

\* ReplayIntegrationDelivery: any status; the attempts are kept.
Replay(d) ==
    /\ rows[d] # Null
    /\ replays < MaxReplays
    /\ rows' = [rows EXCEPT ![d].status = "pending", ![d].nextAttemptAt = Null]
    /\ replays' = replays + 1
    /\ UNCHANGED <<clock, endpoint, owner, proc, posts, faults, dropped>>

UpdateEndpointStatus(status) ==
    /\ endpoint' = status
    /\ UNCHANGED <<clock, rows, owner, proc, posts, replays, faults, dropped>>

-----------------------------------------------------------------------------
(***************************************************************************)
(* Worker processes and the advisory lock.                                 *)
(***************************************************************************)

\* Variant: the worker does not look whether it got the lock.
StartUnlocked(p) ==
    /\ proc[p].pc = "down"
    /\ owner' = IF owner = Null THEN p ELSE owner
    /\ proc' = [proc EXCEPT ![p] = Polling]
    /\ UNCHANGED <<clock, rows, endpoint, posts, replays, faults, dropped>>

\* AcquireIntegrationWorkerLease: GET_LOCK with timeout 0; a process that does
\* not get the lock exits.
Start(p) ==
    /\ proc[p].pc = "down"
    /\ owner = Null
    /\ owner' = p
    /\ proc' = [proc EXCEPT ![p] = Polling]
    /\ UNCHANGED <<clock, rows, endpoint, posts, replays, faults, dropped>>

\* The process is stopped: its context is cancelled, so that the outcome of a
\* delivery on its way cannot be saved any more, and the lock is released.
Stop(p) ==
    /\ proc[p].pc # "down"
    /\ faults < MaxFaults
    /\ faults' = faults + 1
    /\ owner' = IF owner = p THEN Null ELSE owner
    /\ proc' = [proc EXCEPT ![p] = Down]
    /\ UNCHANGED <<clock, rows, endpoint, posts, replays, dropped>>

\* The process dies; the database releases the lock when it notices.
Crash(p) ==
    /\ proc[p].pc # "down"
    /\ faults < MaxFaults
    /\ faults' = faults + 1
    /\ proc' = [proc EXCEPT ![p] = Down]
    /\ UNCHANGED <<clock, rows, endpoint, owner, posts, replays, dropped>>

ReleaseDeadLock ==
    /\ owner # Null
    /\ proc[owner].pc = "down"
    /\ owner' = Null
    /\ UNCHANGED <<clock, rows, endpoint, proc, posts, replays, faults, dropped>>

\* The connection holding the lock is lost while its worker goes on.
DropLease ==
    /\ LeaseMayDrop
    /\ owner # Null
    /\ proc[owner].pc # "down"
    /\ owner' = Null
    /\ dropped' = TRUE
    /\ UNCHANGED <<clock, rows, endpoint, proc, posts, replays, faults>>

-----------------------------------------------------------------------------
(***************************************************************************)
(* One dispatch.                                                           *)
(***************************************************************************)
\* Variant: failed deliveries are not looked for.
DuePending(row) == row # Null /\ row.status = "pending"

Due(row) ==
    /\ row # Null
    /\ \/ row.status = "pending"
       \/ row.status = "failed" /\ (row.nextAttemptAt = Null \/ row.nextAttemptAt <= clock)

SortKey(row) == IF row.nextAttemptAt = Null THEN row.createdAt ELSE row.nextAttemptAt

\* NextDispatchID: ORDER BY COALESCE(nextAttemptAt, created_at), id LIMIT 1.
IsNextDispatch(d) ==
    /\ Due(rows[d])
    /\ \A e \in Deliveries : Due(rows[e]) =>
            \/ SortKey(rows[d]) < SortKey(rows[e])
            \/ SortKey(rows[d]) = SortKey(rows[e]) /\ d <= e

Poll(p) ==
    /\ proc[p].pc = "poll"
    /\ \E d \in Deliveries :
        /\ IsNextDispatch(d)
        /\ proc' = [proc EXCEPT ![p].pc = "load", ![p].id = d]
    /\ UNCHANGED <<clock, rows, endpoint, owner, posts, replays, faults, dropped>>

\* When an attempt may be repeated, from the time of its failure.
RetryTime(attempts) ==
    LET index == IF attempts <= Len(Backoff) THEN attempts ELSE Len(Backoff)
        next == clock + Backoff[index]
    IN  IF next <= MaxClock THEN next ELSE MaxClock

\* Variant: one attempt too many.
FailureOneMore(attempts) ==
    IF attempts + 1 > MaxAttempts
    THEN [status |-> "dead_letter", attempts |-> attempts + 1, nextAttemptAt |-> Null]
    ELSE [status |-> "failed", attempts |-> attempts + 1,
          nextAttemptAt |-> RetryTime(attempts + 1)]

\* Dispatcher.fail, for a delivery read with that many attempts.
Failure(attempts) ==
    IF attempts + 1 >= MaxAttempts
    THEN [status |-> "dead_letter", attempts |-> attempts + 1, nextAttemptAt |-> Null]
    ELSE [status |-> "failed", attempts |-> attempts + 1,
          nextAttemptAt |-> RetryTime(attempts + 1)]

Success(attempts) == [status |-> "sent", attempts |-> attempts + 1, nextAttemptAt |-> Null]

\* LoadForDispatch and the checks before the request is made: of the endpoint's
\* status, and of its URL, its secret and the payload, which are left out and
\* may be found unusable at any time.  A row that is not found with an endpoint
\* of its own tenant and project, or whose payload is not a JSON object, ends
\* the dispatch before an attempt is counted, like one that was sent meanwhile;
\* the worker logs the former two differently and polls again after each.
Load(p) ==
    LET d == proc[p].id
        loaded == [proc[p] EXCEPT !.attempts = rows[d].attempts]
        refused == [loaded EXCEPT !.pc = "save", !.outcome = Failure(rows[d].attempts)]
        accepted == [loaded EXCEPT !.pc = "send"]
    IN  /\ proc[p].pc = "load"
        /\ \E next \in IF d \in Unreadable \/ rows[d].status = "sent" THEN {Polling}
                      ELSE IF endpoint = "active" THEN {refused, accepted}
                      ELSE {refused} :
                proc' = [proc EXCEPT ![p] = next]
        /\ UNCHANGED <<clock, rows, endpoint, owner, posts, replays, faults, dropped>>

\* The request and its response, error or timeout.
Send(p) ==
    /\ proc[p].pc = "send"
    /\ posts' = [posts EXCEPT ![proc[p].id] = @ + 1]
    /\ \E outcome \in {Success(proc[p].attempts), Failure(proc[p].attempts)} :
            proc' = [proc EXCEPT ![p].pc = "save", ![p].outcome = outcome]
    /\ UNCHANGED <<clock, rows, endpoint, owner, replays, faults, dropped>>

\* Variant: without the attempt guard.
CurrentAnyAttempt(row, attempts) == row.status # "sent"

\* The WHERE clause of SaveDispatchOutcome.
Current(row, attempts) == row.attempts = attempts /\ row.status # "sent"

Saved(row, outcome) ==
    [row EXCEPT !.status = outcome.status, !.attempts = outcome.attempts,
                !.nextAttemptAt = outcome.nextAttemptAt]

\* SaveDispatchOutcome; an outcome that is not current is dropped.
Save(p) ==
    LET d == proc[p].id
    IN  /\ proc[p].pc = "save"
        /\ rows' = IF Current(rows[d], proc[p].attempts)
                   THEN [rows EXCEPT ![d] = Saved(@, proc[p].outcome)]
                   ELSE rows
        /\ proc' = [proc EXCEPT ![p] = Polling]
        /\ UNCHANGED <<clock, endpoint, owner, posts, replays, faults, dropped>>

\* Reading the delivery or saving its outcome fails; the worker polls again.
DatabaseFails(p) ==
    /\ proc[p].pc \in {"load", "save"}
    /\ faults < MaxFaults
    /\ faults' = faults + 1
    /\ proc' = [proc EXCEPT ![p] = Polling]
    /\ UNCHANGED <<clock, rows, endpoint, owner, posts, replays, dropped>>

-----------------------------------------------------------------------------
Dispatch(p) == Poll(p) \/ Load(p) \/ Send(p) \/ Save(p)

Next ==
    \/ Tick
    \/ \E d \in Deliveries : CreateDelivery(d) \/ Replay(d)
    \/ \E status \in {"active", "disabled"} : UpdateEndpointStatus(status)
    \/ \E p \in Workers : Start(p) \/ Stop(p) \/ Crash(p) \/ Dispatch(p) \/ DatabaseFails(p)
    \/ ReleaseDeadLock
    \/ DropLease

\* The worker's loop never waits except for a delivery to be due, the database
\* notices dead connections, and a stopped worker is started again.
Fairness ==
    /\ WF_vars(Tick)
    /\ WF_vars(ReleaseDeadLock)
    /\ \A p \in Workers : WF_vars(Dispatch(p)) /\ WF_vars(Start(p))

Spec == Init /\ [][Next]_vars

FairSpec == Spec /\ Fairness

-----------------------------------------------------------------------------
\* Rows, processes and outcomes keep their types.
TypeOK ==
    /\ clock \in 0..MaxClock
    /\ rows \in [Deliveries -> Row \cup {Null}]
    /\ endpoint \in {"active", "disabled"}
    /\ owner \in Workers \cup {Null}
    /\ proc \in [Workers -> Process]
    /\ posts \in [Deliveries -> Nat]
    /\ replays \in Nat /\ faults \in Nat /\ dropped \in BOOLEAN

\* A row's status, attempts and retry time say the same thing however
\* dispatches, replays and late outcomes interleave: a delivery waits for a
\* retry only while it has attempts left, and is a dead letter only without.
RetriesBounded ==
    \A d \in Deliveries : rows[d] # Null =>
        /\ rows[d].status = "failed" <=> rows[d].nextAttemptAt # Null
        /\ rows[d].status = "failed" => rows[d].attempts \in 1..(MaxAttempts - 1)
        /\ rows[d].status = "dead_letter" => rows[d].attempts >= MaxAttempts

\* Two consumers cannot both finalize the same attempt: whatever workers and
\* replays do, an outcome is saved under the next attempt number or not at all.
AttemptFinalizedOnce ==
    [][\A d \in Deliveries : rows[d] # Null /\ rows'[d] # rows[d] =>
            \/ rows'[d].attempts = rows[d].attempts + 1 /\ rows'[d].status # "pending"
            \/ rows'[d].attempts = rows[d].attempts /\ rows'[d].status = "pending"]_vars

\* A receiver is posted the same delivery again only for a reason: while the
\* lock is not lost, every post is a recorded attempt, is on its way to be
\* recorded, or was lost to a crash, a stop or a failed save.
PostsExplained ==
    ~dropped =>
        \A d \in Deliveries : rows[d] # Null =>
            posts[d] <= rows[d].attempts + faults
                        + Cardinality({p \in Workers : proc[p].pc = "save" /\ proc[p].id = d})

Unsettled(d) == rows[d] # Null /\ rows[d].status \in {"pending", "failed"}

\* Retries are bounded: every delivery ends as sent or as a dead letter.
EveryDeliverySettles == \A d \in Deliveries : Unsettled(d) ~> ~Unsettled(d)

\* The advisory lock admits one worker to the queue.
SingleConsumer == Cardinality({p \in Workers : proc[p].pc # "down"}) <= 1
=============================================================================
