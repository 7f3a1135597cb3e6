--------------------------- MODULE CircuitBreaker --------------------------
(***************************************************************************)
(* The circuit breaker of noerelay-core (CircuitBreaker in execution.rs),  *)
(* one value changed by record_success and record_failure.  It is the      *)
(* specification that CircuitStore, the breaker kept in the database,      *)
(* implements.                                                             *)
(***************************************************************************)
EXTENDS Naturals

CONSTANTS
    FailureThreshold,   \* failure_threshold, 5 where the code sets it
    SuccessThreshold    \* success_threshold, 2 where the code sets it

VARIABLES
    state,      \* CircuitState
    failures,   \* failure_count
    successes,  \* success_count
    until       \* open_until against the clock

breaker == <<state, failures, successes, until>>

Init ==
    /\ state = "closed"
    /\ failures = 0
    /\ successes = 0
    /\ until = "none"

Opened == state' = "open" /\ until' = "ahead"

RecordSuccess ==
    \/ /\ state = "closed"
       /\ failures' = 0
       /\ UNCHANGED <<state, successes, until>>
    \/ /\ state = "half_open" /\ successes + 1 < SuccessThreshold
       /\ successes' = successes + 1
       /\ UNCHANGED <<state, failures, until>>
    \/ /\ state = "half_open" /\ successes + 1 >= SuccessThreshold
       /\ state' = "closed" /\ failures' = 0 /\ successes' = 0
       /\ UNCHANGED until
    \/ /\ state = "open" /\ until = "past"
       /\ state' = "half_open" /\ successes' = 1 /\ failures' = 0
       /\ UNCHANGED until
    \/ /\ state = "open" /\ until # "past"
       /\ UNCHANGED breaker

RecordFailure ==
    \/ /\ state = "closed" /\ failures + 1 < FailureThreshold
       /\ failures' = failures + 1
       /\ UNCHANGED <<state, successes, until>>
    \/ /\ state = "closed" /\ failures + 1 >= FailureThreshold
       /\ Opened
       /\ failures' = failures + 1 /\ successes' = 0
    \/ /\ state = "half_open"
       /\ Opened
       /\ failures' = 1 /\ successes' = 0
    \/ /\ state = "open"
       /\ Opened
       /\ failures' = failures + 1
       /\ UNCHANGED successes

\* The cooldown runs out.
CooldownPasses ==
    /\ until = "ahead"
    /\ until' = "past"
    /\ UNCHANGED <<state, failures, successes>>

AllowRequest == state # "open" \/ until = "past"

Next == RecordSuccess \/ RecordFailure \/ CooldownPasses

Spec == Init /\ [][Next]_breaker
=============================================================================
