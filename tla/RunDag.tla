------------------------------- MODULE RunDag -------------------------------
(***************************************************************************)
(* Runs, steps, attempts and what they hold (budget reservations, provider *)
(* calls, tool effects) in noerelay-store's ExecutionRepository, and       *)
(* request_cancellation, which stops a run together with its descendants.  *)
(*                                                                         *)
(* Every other operation is one transaction on one row: one action.        *)
(* request_cancellation is a transaction of several statements at READ     *)
(* COMMITTED: each statement sees the rows other transactions committed    *)
(* since the previous one, so each is an action here and pc says which is  *)
(* next.  A row a statement wrote stays locked until the commit, so nobody *)
(* can use it before; showing the write at once only reorders those who    *)
(* would have waited.  The lock on the root does matter: it makes inserts  *)
(* below it wait (foreign keys take KEY SHARE), and it is modelled.        *)
(* Requests that roll back change nothing and are not modelled.            *)
(*                                                                         *)
(* The statement on work_items and leases is WorkQueue!CancelItems.        *)
(***************************************************************************)
EXTENDS Naturals, FiniteSets

CONSTANTS
    Runs, Steps, Attempts, Reservations, Calls, Effects,  \* rows that may be inserted
    Requests,     \* calls of request_cancellation
    Numbers,      \* attempt_number values
    NoParent      \* NULL in runs.parent_run_id

ASSUME NoParentAssumption == NoParent \notin Runs

VARIABLES
    run, step, attempt, reservation, call, effect,
    request,  \* each cancellation in flight, then its cancellation_log row
    freed     \* how often callers were told a reservation's budget is free

vars == <<run, step, attempt, reservation, call, effect, request, freed>>

-----------------------------------------------------------------------------
(* Status columns and their state machines (noerelay-core).                *)

RunTerminal == {"completed", "failed", "cancelled", "timed_out"}
RunStatus == {"pending", "running", "awaiting_approval", "awaiting_verification"} \cup RunTerminal

RunNext ==
    [s \in RunStatus |->
        CASE s = "pending" -> {"running", "cancelled"}
          [] s = "running" -> {"awaiting_approval", "awaiting_verification"} \cup RunTerminal
          [] s = "awaiting_approval" -> {"running", "failed", "cancelled", "timed_out"}
          [] s = "awaiting_verification" -> {"running"} \cup RunTerminal
          [] OTHER -> {}]

StepTerminal == {"completed", "failed", "skipped", "cancelled"}
StepStatus == {"pending", "ready", "running"} \cup StepTerminal

StepNext ==
    [s \in StepStatus |->
        CASE s = "pending" -> {"ready", "cancelled", "skipped"}
          [] s = "ready" -> {"running", "cancelled", "skipped"}
          [] s = "running" -> {"completed", "failed", "cancelled"}
          [] s = "failed" -> {"pending", "ready"}
          [] OTHER -> {}]

AttemptTerminal == {"succeeded", "failed", "cancelled", "timed_out"}
AttemptStatus == {"pending", "running"} \cup AttemptTerminal

AttemptNext ==
    [s \in AttemptStatus |->
        CASE s = "pending" -> {"running", "cancelled"}
          [] s = "running" -> AttemptTerminal
          [] OTHER -> {}]

\* Provider calls and tool effects carry free text; "open" is any other text.
CallSettled == {"completed", "failed", "cancelled"}
EffectSettled == {"applied", "reconciled", "compensated", "cancelled"}

-----------------------------------------------------------------------------
(* Rows; "ended" is completed_at IS NOT NULL.                              *)

Absent == [status |-> "absent"]

RunRow == [status : RunStatus, parent : Runs \cup {NoParent}, ended : BOOLEAN]
StepRow == [status : StepStatus, run : Runs, ended : BOOLEAN]
AttemptRow == [status : AttemptStatus, step : Steps, number : Numbers, ended : BOOLEAN]
ReservationRow == [status : {"active", "released", "expired"}, run : Runs, due : BOOLEAN]
CallRow == [status : {"open"} \cup CallSettled, attempt : Attempts]
EffectRow == [status : {"open"} \cup EffectSettled, attempt : Attempts, reconciled : BOOLEAN]

Statements == {"runs", "steps", "attempts", "reservations", "calls", "effects", "log"}

\* known are the rows that existed when the descendants were read.
RequestRow ==
    [pc : Statements \cup {"done"}, root : Runs, propagate : BOOLEAN, scope : SUBSET Runs,
     cancelled : BOOLEAN, stopped : SUBSET Runs,   \* the runs its UPDATE wrote
     known : [steps : SUBSET Steps, attempts : SUBSET Attempts, reservations : SUBSET Reservations,
              calls : SUBSET Calls, effects : SUBSET Effects],
     released : SUBSET Reservations, calls : SUBSET Calls, effects : SUBSET Effects]

Idle == [pc |-> "idle"]

TypeOK ==
    /\ run \in [Runs -> RunRow \cup {Absent}]
    /\ step \in [Steps -> StepRow \cup {Absent}]
    /\ attempt \in [Attempts -> AttemptRow \cup {Absent}]
    /\ reservation \in [Reservations -> ReservationRow \cup {Absent}]
    /\ call \in [Calls -> CallRow \cup {Absent}]
    /\ effect \in [Effects -> EffectRow \cup {Absent}]
    /\ request \in [Requests -> RequestRow \cup {Idle}]
    /\ freed \in [Reservations -> Nat]

Init ==
    /\ run = [r \in Runs |-> Absent]
    /\ step = [s \in Steps |-> Absent]
    /\ attempt = [a \in Attempts |-> Absent]
    /\ reservation = [b \in Reservations |-> Absent]
    /\ call = [p \in Calls |-> Absent]
    /\ effect = [e \in Effects |-> Absent]
    /\ request = [c \in Requests |-> Idle]
    /\ freed = [b \in Reservations |-> 0]

Exists(row) == row # Absent
RunEnded(r) == run[r].status \in RunTerminal

Open(c) == request[c].pc \in Statements

\* Mutant of Locked: the root row is read without FOR UPDATE.
LockedNever(r) == FALSE

\* A cancellation holds its root row FOR UPDATE until it commits.
Locked(r) == \E c \in Requests : Open(c) /\ request[c].root = r

\* The run and everything below it: the least set closed under parent_run_id.
Subtree(r) ==
    {x \in Runs : \A D \in SUBSET Runs :
        (r \in D /\ \A y \in Runs : Exists(run[y]) /\ run[y].parent \in D => y \in D) => x \in D}

AttemptsOf(R) ==
    {a \in Attempts : Exists(attempt[a]) /\ step[attempt[a].step].run \in R}

-----------------------------------------------------------------------------
(* One transaction, one row.                                               *)

\* A child's parent row must exist (the foreign key), in whatever status.
CreateRun(r, parent) ==
    /\ ~Exists(run[r])
    /\ parent \in Runs => Exists(run[parent]) /\ ~Locked(parent)
    /\ run' = [run EXCEPT ![r] = [status |-> "pending", parent |-> parent, ended |-> FALSE]]
    /\ UNCHANGED <<step, attempt, reservation, call, effect, request, freed>>

UpdateRunStatus(r, target) ==
    /\ Exists(run[r])
    /\ ~Locked(r)
    /\ target \in RunNext[run[r].status]
    /\ run' = [run EXCEPT ![r].status = target, ![r].ended = @ \/ target \in RunTerminal]
    /\ UNCHANGED <<step, attempt, reservation, call, effect, request, freed>>

CreateStep(s, r) ==
    /\ ~Exists(step[s])
    /\ Exists(run[r]) /\ ~Locked(r)
    /\ step' = [step EXCEPT ![s] = [status |-> "pending", run |-> r, ended |-> FALSE]]
    /\ UNCHANGED <<run, attempt, reservation, call, effect, request, freed>>

UpdateStepStatus(s, target) ==
    /\ Exists(step[s])
    /\ target \in StepNext[step[s].status]
    /\ step' = [step EXCEPT ![s].status = target, ![s].ended = @ \/ target \in StepTerminal]
    /\ UNCHANGED <<run, attempt, reservation, call, effect, request, freed>>

CreateAttempt(a, s, n) ==
    /\ ~Exists(attempt[a])
    /\ Exists(step[s])
    /\ \A b \in Attempts : Exists(attempt[b]) => <<attempt[b].step, attempt[b].number>> # <<s, n>>
    /\ attempt' = [attempt EXCEPT ![a] =
                      [status |-> "pending", step |-> s, number |-> n, ended |-> FALSE]]
    /\ UNCHANGED <<run, step, reservation, call, effect, request, freed>>

UpdateAttemptStatus(a, target) ==
    /\ Exists(attempt[a])
    /\ target \in AttemptNext[attempt[a].status]
    /\ attempt' = [attempt EXCEPT ![a].status = target, ![a].ended = @ \/ target \in AttemptTerminal]
    /\ UNCHANGED <<run, step, reservation, call, effect, request, freed>>

CreateReservation(b, r) ==
    /\ ~Exists(reservation[b])
    /\ Exists(run[r]) /\ ~Locked(r)
    /\ \E due \in BOOLEAN :
          reservation' = [reservation EXCEPT ![b] = [status |-> "active", run |-> r, due |-> due]]
    /\ UNCHANGED <<run, step, attempt, call, effect, request, freed>>

\* Mutant of ReleaseReservation: the guard on status = 'active' is missing.
ReleaseReservationAgain(b) ==
    /\ Exists(reservation[b])
    /\ freed[b] < 2
    /\ reservation' = [reservation EXCEPT ![b].status = "released"]
    /\ freed' = [freed EXCEPT ![b] = @ + 1]
    /\ UNCHANGED <<run, step, attempt, call, effect, request>>

ReleaseReservation(b) ==
    /\ reservation[b].status = "active"
    /\ reservation' = [reservation EXCEPT ![b].status = "released"]
    /\ freed' = [freed EXCEPT ![b] = @ + 1]
    /\ UNCHANGED <<run, step, attempt, call, effect, request>>

Overdue == {b \in Reservations : reservation[b].status = "active" /\ reservation[b].due}

ExpireReservations ==
    /\ Overdue # {}
    /\ reservation' = [b \in Reservations |->
           IF b \in Overdue THEN [reservation[b] EXCEPT !.status = "expired"] ELSE reservation[b]]
    /\ freed' = [b \in Reservations |-> freed[b] + (IF b \in Overdue THEN 1 ELSE 0)]
    /\ UNCHANGED <<run, step, attempt, call, effect, request>>

\* expires_at passes.
ReservationFallsDue(b) ==
    /\ reservation[b].status = "active" /\ ~reservation[b].due
    /\ reservation' = [reservation EXCEPT ![b].due = TRUE]
    /\ UNCHANGED <<run, step, attempt, call, effect, request, freed>>

RecordProviderCall(p, a, s) ==
    /\ ~Exists(call[p])
    /\ Exists(attempt[a])
    /\ call' = [call EXCEPT ![p] = [status |-> s, attempt |-> a]]
    /\ UNCHANGED <<run, step, attempt, reservation, effect, request, freed>>

RecordToolEffect(e, a, s) ==
    /\ ~Exists(effect[e])
    /\ Exists(attempt[a])
    /\ effect' = [effect EXCEPT ![e] = [status |-> s, attempt |-> a, reconciled |-> FALSE]]
    /\ UNCHANGED <<run, step, attempt, reservation, call, request, freed>>

\* The timestamp only: the status column keeps its text.
ReconcileToolEffect(e) ==
    /\ Exists(effect[e])
    /\ effect' = [effect EXCEPT ![e].reconciled = TRUE]
    /\ UNCHANGED <<run, step, attempt, reservation, call, request, freed>>

-----------------------------------------------------------------------------
(* request_cancellation, statement by statement.                           *)

Rows == [steps |-> {s \in Steps : Exists(step[s])},
         attempts |-> {a \in Attempts : Exists(attempt[a])},
         reservations |-> {b \in Reservations : Exists(reservation[b])},
         calls |-> {p \in Calls : Exists(call[p])},
         effects |-> {e \in Effects : Exists(effect[e])}]

\* SELECT ... FOR UPDATE on the root, then the descendants.
CancelBegin(c, r, propagate) ==
    /\ request[c] = Idle
    /\ Exists(run[r]) /\ ~Locked(r)
    /\ \A d \in Requests : Open(d) => r \notin request[d].stopped
    /\ request' = [request EXCEPT ![c] =
           [pc |-> "runs", root |-> r, propagate |-> propagate,
            scope |-> IF propagate THEN Subtree(r) ELSE {r},
            cancelled |-> ~RunEnded(r), stopped |-> {}, known |-> Rows,
            released |-> {}, calls |-> {}, effects |-> {}]]
    /\ UNCHANGED <<run, step, attempt, reservation, call, effect, freed>>

CancelledRun(row) ==
    IF row.status \in RunTerminal THEN row
    ELSE [row EXCEPT !.status = "cancelled", !.ended = TRUE]

\* A run in scope that is the root of another open request is locked by it.
CancelRuns(c) ==
    /\ request[c].pc = "runs"
    /\ \A r \in request[c].scope : RunEnded(r) \/ \A d \in Requests \ {c} :
          ~(Open(d) /\ request[d].root = r)
    /\ run' = [r \in Runs |-> IF r \in request[c].scope THEN CancelledRun(run[r]) ELSE run[r]]
    /\ request' = [request EXCEPT
           ![c].pc = "steps", ![c].stopped = {r \in request[c].scope : ~RunEnded(r)}]
    /\ UNCHANGED <<step, attempt, reservation, call, effect, freed>>

CancelSteps(c) ==
    /\ request[c].pc = "steps"
    /\ step' = [s \in Steps |->
           IF Exists(step[s]) /\ step[s].run \in request[c].scope /\ step[s].status \notin StepTerminal
           THEN [step[s] EXCEPT !.status = "cancelled", !.ended = TRUE] ELSE step[s]]
    /\ request' = [request EXCEPT ![c].pc = "attempts"]
    /\ UNCHANGED <<run, attempt, reservation, call, effect, freed>>

CancelAttempts(c) ==
    /\ request[c].pc = "attempts"
    /\ attempt' = [a \in Attempts |->
           IF a \in AttemptsOf(request[c].scope) /\ attempt[a].status \notin AttemptTerminal
           THEN [attempt[a] EXCEPT !.status = "cancelled", !.ended = TRUE] ELSE attempt[a]]
    /\ request' = [request EXCEPT ![c].pc = "reservations"]
    /\ UNCHANGED <<run, step, reservation, call, effect, freed>>

Held(c) == {b \in Reservations : reservation[b].status = "active"
                                 /\ reservation[b].run \in request[c].scope}

ReleaseHeld(c) ==
    /\ request[c].pc = "reservations"
    /\ reservation' = [b \in Reservations |->
           IF b \in Held(c) THEN [reservation[b] EXCEPT !.status = "released"] ELSE reservation[b]]
    /\ freed' = [b \in Reservations |-> freed[b] + (IF b \in Held(c) THEN 1 ELSE 0)]
    /\ request' = [request EXCEPT ![c].pc = "calls", ![c].released = Held(c)]
    /\ UNCHANGED <<run, step, attempt, call, effect>>

CancelCalls(c) ==
    /\ request[c].pc = "calls"
    /\ LET open == {p \in Calls : /\ call[p].status = "open"
                                  /\ call[p].attempt \in AttemptsOf(request[c].scope)}
       IN /\ call' = [p \in Calls |->
                IF p \in open THEN [call[p] EXCEPT !.status = "cancelled"] ELSE call[p]]
          /\ request' = [request EXCEPT ![c].pc = "effects", ![c].calls = open]
    /\ UNCHANGED <<run, step, attempt, reservation, effect, freed>>

CancelEffects(c) ==
    /\ request[c].pc = "effects"
    /\ LET open == {e \in Effects : /\ effect[e].status = "open"
                                    /\ effect[e].attempt \in AttemptsOf(request[c].scope)}
       IN /\ effect' = [e \in Effects |->
                IF e \in open THEN [effect[e] EXCEPT !.status = "cancelled", !.reconciled = TRUE]
                ELSE effect[e]]
          /\ request' = [request EXCEPT ![c].pc = "log", ![c].effects = open]
    /\ UNCHANGED <<run, step, attempt, reservation, call, freed>>

\* The cancellation_log row is written and the transaction commits.
CancelCommit(c) ==
    /\ request[c].pc = "log"
    /\ request' = [request EXCEPT ![c].pc = "done"]
    /\ UNCHANGED <<run, step, attempt, reservation, call, effect, freed>>

Cancellation(c) ==
    \/ \E r \in Runs, propagate \in BOOLEAN : CancelBegin(c, r, propagate)
    \/ CancelRuns(c)
    \/ CancelSteps(c)
    \/ CancelAttempts(c)
    \/ ReleaseHeld(c)
    \/ CancelCalls(c)
    \/ CancelEffects(c)
    \/ CancelCommit(c)

Next ==
    \/ \E r \in Runs, parent \in Runs \cup {NoParent} : CreateRun(r, parent)
    \/ \E r \in Runs, target \in RunStatus : UpdateRunStatus(r, target)
    \/ \E s \in Steps, r \in Runs : CreateStep(s, r)
    \/ \E s \in Steps, target \in StepStatus : UpdateStepStatus(s, target)
    \/ \E a \in Attempts, s \in Steps, n \in Numbers : CreateAttempt(a, s, n)
    \/ \E a \in Attempts, target \in AttemptStatus : UpdateAttemptStatus(a, target)
    \/ \E b \in Reservations, r \in Runs : CreateReservation(b, r)
    \/ \E b \in Reservations : ReleaseReservation(b)
    \/ ExpireReservations
    \/ \E b \in Reservations : ReservationFallsDue(b)
    \/ \E p \in Calls, a \in Attempts, s \in {"open"} \cup CallSettled : RecordProviderCall(p, a, s)
    \/ \E e \in Effects, a \in Attempts, s \in {"open"} \cup EffectSettled : RecordToolEffect(e, a, s)
    \/ \E e \in Effects : ReconcileToolEffect(e)
    \/ \E c \in Requests : Cancellation(c)

Spec == Init /\ [][Next]_vars

-----------------------------------------------------------------------------
(* What cancellation guarantees.                                           *)

Past(c) == request[c].pc \in (Statements \cup {"done"}) \ {"runs"}
Commits(c) == request[c].pc = "log" /\ request'[c].pc = "done"

\* A caller is told "cancelled" exactly when its own request stopped the root:
\* request_cancellation reads the status before the statement that writes it.
ResultTruthful ==
    \A c \in Requests : Past(c) =>
        (request[c].cancelled <=> request[c].root \in request[c].stopped)

\* The budget of a reservation is reported free once, however release_reservation,
\* expire_reservations and overlapping cancellations race for it.
FreedOnce ==
    \A b \in Reservations :
        freed[b] = IF reservation[b].status \in {"released", "expired"} THEN 1 ELSE 0

\* What request_cancellation found below the runs it stopped never gets going
\* again: attempts and calls are over, budget is free, steps have ended once
\* (a failed one may be retried).
SettledByCancellation ==
    \A c \in Requests : request[c].pc = "done" =>
        LET scope == request[c].scope
            known == request[c].known
        IN /\ \A r \in scope : RunEnded(r)
           /\ \A s \in known.steps : step[s].run \in scope => step[s].ended
           /\ \A a \in AttemptsOf(scope) \cap known.attempts : attempt[a].status \in AttemptTerminal
           /\ \A b \in known.reservations :
                 reservation[b].run \in scope => reservation[b].status # "active"
           /\ \A p \in known.calls :
                 call[p].attempt \in AttemptsOf(scope) => call[p].status # "open"
           /\ \A e \in known.effects :
                 effect[e].attempt \in AttemptsOf(scope) => effect[e].status # "open"

\* When request_cancellation commits, nothing was inserted below its root in the
\* meantime that escaped it (SELECT ... FOR UPDATE against the foreign keys).
RootSealed ==
    [][\A c \in Requests : Commits(c) =>
          LET root == request[c].root
          IN /\ request[c].propagate =>
                   \A r \in Runs : Exists(run[r]) /\ run[r].parent = root => RunEnded(r)
             /\ \A s \in Steps : Exists(step[s]) /\ step[s].run = root => step[s].ended
             /\ \A b \in Reservations : Exists(reservation[b]) /\ reservation[b].run = root
                                            => reservation[b].status # "active"]_vars

\* A run that ended keeps its outcome: a late cancellation or status update
\* (request_cancellation, update_run_status) does not rewrite it.
OutcomeKept ==
    [][\A r \in Runs : RunEnded(r) => run'[r] = run[r]]_vars

\* "Atomically cancel a run DAG and release/cancel all active resources"
\* (request_cancellation).  The code does not keep it: a run inserted below a
\* descendant after the descendants were read is not cancelled.
DagCancelled ==
    [][\A c \in Requests : Commits(c) /\ request[c].propagate =>
          \A r \in Subtree(request[c].root) : RunEnded(r)]_vars

\* What request_cancellation reports and leaves behind is true: the status it
\* answers, budget freed once, and everything below a stopped run settled.
CancellationTruthful == TypeOK /\ ResultTruthful /\ FreedOnce /\ SettledByCancellation

\* A cancellation covers what was inserted meanwhile and rewrites no ended run.
CancellationSealed == RootSealed /\ OutcomeKept
=============================================================================
