---------------------------- MODULE RunLifecycle ----------------------------
(***************************************************************************)
(* What a parallel run promises to those who read it, without leases,      *)
(* counters or timestamps: where its status may go, and that a run that is *)
(* over has nobody working on it, for good.  The converse is not promised: *)
(* when the last worker reports, the run stays open with nobody working on *)
(* it until a heartbeat or a cancellation settles it, or a worker claims.  *)
(***************************************************************************)
CONSTANT WorkerIds

VARIABLES
    status,     \* the status of the run
    running     \* the workers occupying a slot

vars == <<status, running>>

Final == {"cancelled", "completed", "failed", "lost"}

TypeOK ==
    /\ status \in {"queued", "running", "cancelling"} \cup Final
    /\ running \in SUBSET WorkerIds

Init ==
    /\ status = "queued"
    /\ running = {}

\* A worker takes, or takes again, a slot; workers that went silent lose theirs.
Admit(w) ==
    /\ status \in {"queued", "running"}
    /\ status' = "running"
    /\ \E silent \in SUBSET running : running' = (running \ silent) \cup {w}

\* A worker reports, or renews its lease while others still work; silent
\* workers lose their slots.  A report never ends the run, also not when it
\* leaves nobody running.
Report(w) ==
    /\ status \in {"running", "cancelling"}
    /\ \E gone \in SUBSET (running \cup {w}) : running' = (running \cup {w}) \ gone
    /\ UNCHANGED status

\* The run is over: no slot is occupied, and none will be.
Settle(final) ==
    /\ status \notin Final
    /\ status = "queued" => final = "cancelled"
    /\ status' = final
    /\ running' = {}

Withdraw ==
    /\ status \in {"queued", "running"}
    /\ status' = "cancelling"
    /\ UNCHANGED running

Next ==
    \/ \E w \in WorkerIds : Admit(w) \/ Report(w)
    \/ \E final \in Final : Settle(final)
    \/ Withdraw

Spec == Init /\ [][Next]_vars
=============================================================================
