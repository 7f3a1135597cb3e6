---------------------------- MODULE CircuitStore ---------------------------
(***************************************************************************)
(* The circuit breaker kept in circuit_breakers by noerelay-store, and the *)
(* callers around it: each asks check_circuit_allowed, performs its        *)
(* request, and reports with record_circuit_success or                     *)
(* record_circuit_failure, in any order and as late as it likes.  A report *)
(* is one transaction on the locked row, which it inserts if need be.      *)
(* One scope: rows of different scopes do not interact.                    *)
(***************************************************************************)
EXTENDS Naturals

CONSTANTS
    Callers,            \* requests under way at once
    FailureThreshold,
    SuccessThreshold,
    FailureLimit        \* bound: failure_count while open

\* The only values the code writes are 5 and 2.
ASSUME ThresholdsAssumption ==
    /\ FailureThreshold \in Nat \ {0}
    /\ SuccessThreshold \in Nat \ {0, 1}
    /\ FailureLimit \in Nat

VARIABLES
    circuitRow,        \* the circuit_breakers row
    calling,    \* callers that were let through and have not reported
    run         \* how many of the last reports in a row had the same outcome

circuitVars == <<circuitRow, calling, run>>

NoCircuit == [state |-> "absent"]
Fresh == [state |-> "closed", failures |-> 0, successes |-> 0, until |-> "none"]
CircuitRow == [state : {"closed", "half_open", "open"}, failures : Nat, successes : Nat,
        until : {"none", "ahead", "past"}]

CircuitTypeOK ==
    /\ circuitRow \in CircuitRow \cup {NoCircuit}
    /\ calling \subseteq Callers
    /\ run \in [ok : BOOLEAN, length : Nat]

CircuitInit ==
    /\ circuitRow = NoCircuit
    /\ calling = {}
    /\ run = [ok |-> TRUE, length |-> 0]

\* get_circuit_breaker: a scope without a row reads as a closed default.
Current == IF circuitRow = NoCircuit THEN Fresh ELSE circuitRow

Admits(r) == r.state # "open" \/ r.until = "past"

\* check_circuit_allowed: a read, nothing is written.
CheckAllowed(c) ==
    /\ c \notin calling
    /\ Admits(Current)
    /\ calling' = calling \cup {c}
    /\ UNCHANGED <<circuitRow, run>>

\* Mutant of AfterSuccess: a success while closed keeps the failures counted.
AfterSuccessKeepsFailures(r) ==
    CASE r.state = "closed" -> [r EXCEPT !.successes = 0]
      [] r.state = "half_open" ->
            IF r.successes + 1 >= SuccessThreshold
            THEN [r EXCEPT !.state = "closed", !.failures = 0, !.successes = 0]
            ELSE [r EXCEPT !.successes = @ + 1]
      [] r.state = "open" ->
            IF r.until = "past"
            THEN [r EXCEPT !.state = "half_open", !.successes = 1, !.failures = 0]
            ELSE r

AfterSuccess(r) ==
    CASE r.state = "closed" -> [r EXCEPT !.failures = 0, !.successes = 0]
      [] r.state = "half_open" ->
            IF r.successes + 1 >= SuccessThreshold
            THEN [r EXCEPT !.state = "closed", !.failures = 0, !.successes = 0]
            ELSE [r EXCEPT !.successes = @ + 1]
      [] r.state = "open" ->
            IF r.until = "past"
            THEN [r EXCEPT !.state = "half_open", !.successes = 1, !.failures = 0]
            ELSE r

\* Mutant of AfterFailure: a half-open breaker waits for the failure threshold.
AfterFailureHalfOpenCounts(r) ==
    CASE r.state \in {"closed", "half_open"} ->
            IF r.failures + 1 >= FailureThreshold
            THEN [r EXCEPT !.state = "open", !.failures = @ + 1, !.successes = 0, !.until = "ahead"]
            ELSE [r EXCEPT !.failures = @ + 1]
      [] r.state = "open" -> [r EXCEPT !.failures = @ + 1, !.until = "ahead"]

AfterFailure(r) ==
    CASE r.state = "closed" ->
            IF r.failures + 1 >= FailureThreshold
            THEN [r EXCEPT !.state = "open", !.failures = @ + 1, !.successes = 0, !.until = "ahead"]
            ELSE [r EXCEPT !.failures = @ + 1]
      [] r.state = "half_open" ->
            [r EXCEPT !.state = "open", !.failures = 1, !.successes = 0, !.until = "ahead"]
      [] r.state = "open" -> [r EXCEPT !.failures = @ + 1, !.until = "ahead"]

Reported(c, ok) ==
    /\ c \in calling
    /\ calling' = calling \ {c}
    /\ run' = IF run.ok = ok THEN [run EXCEPT !.length = IF @ < FailureLimit THEN @ + 1 ELSE @]
              ELSE [ok |-> ok, length |-> 1]

RecordSuccess(c) ==
    /\ Reported(c, TRUE)
    /\ circuitRow' = AfterSuccess(Current)

RecordFailure(c) ==
    /\ Reported(c, FALSE)
    /\ Current.failures < FailureLimit
    /\ circuitRow' = AfterFailure(Current)

\* The caller dies, or drops its request: nothing is reported.
Forget(c) ==
    /\ c \in calling
    /\ calling' = calling \ {c}
    /\ UNCHANGED <<circuitRow, run>>

CooldownPasses ==
    /\ Current.until = "ahead"
    /\ circuitRow' = [circuitRow EXCEPT !.until = "past"]
    /\ UNCHANGED <<calling, run>>

CircuitNext ==
    \/ \E c \in Callers : CheckAllowed(c) \/ RecordSuccess(c) \/ RecordFailure(c) \/ Forget(c)
    \/ CooldownPasses

CircuitSpec == CircuitInit /\ [][CircuitNext]_circuitVars

\* Time passes; no caller needs to act.
CircuitFairSpec == CircuitSpec /\ WF_circuitVars(CooldownPasses)

-----------------------------------------------------------------------------
\* The database breaker behaves as the in-memory one: every report has the effect
\* record_success or record_failure has, a missing row counting as a new breaker.
Core == INSTANCE CircuitBreaker WITH
    state <- Current.state, failures <- Current.failures,
    successes <- Current.successes, until <- Current.until

\* The row in the database changes as the in-memory CircuitBreaker would.
ImplementsCore == Core!Spec

\* The breaker is closed only after a run of successes or before a run of failures
\* reached its threshold, counting every report since (late ones included).
ClosedMeansHealthy ==
    Current.state = "closed" /\ ~run.ok =>
        Current.failures = run.length /\ run.length < FailureThreshold

\* An open breaker lets requests through again, even if every request admitted
\* before it opened still comes back failing and extends the cooldown.
AlwaysReadmits == Current.state = "open" ~> Admits(Current)

(* What the counters say is what happened, and a caller is let through      *)
(* exactly when the in-memory breaker would let it (check_circuit_allowed,  *)
(* CircuitBreaker::allow_request).                                          *)
CircuitSound == CircuitTypeOK /\ ClosedMeansHealthy /\ (Admits(Current) <=> Core!AllowRequest)
=============================================================================
