------------------------- MODULE GovernanceRuntime -------------------------
(***************************************************************************)
(* The authority state of noerelay-core (GovernanceRuntime in runtime.rs   *)
(* with BudgetAccount and Ledger): one value, changed by                   *)
(* prepare_with_decision, complete and abort, each of which changes all of *)
(* it or nothing.  It is the specification that Authority, the gateway     *)
(* replicas over the database, implements.                                 *)
(*                                                                         *)
(* A run id is the caller's: it may be used again once its run is over.    *)
(* The events one transition appends are one ledger entry here; hashes are *)
(* left out, and so is the time they cover: two entries equal here are the *)
(* same event only if they fell in the same millisecond, and both is       *)
(* allowed.  Whether a completion is accepted is the verification's        *)
(* answer, any answer here.                                                *)
(***************************************************************************)
EXTENDS Integers, Sequences, FiniteSetsExt

CONSTANTS
    Runs,      \* run ids, CanonicalRequest::request_id
    Costs,     \* expected_total_cost_microusd of the routes
    Limit      \* limit_microusd

VARIABLE authority

PreparedRun == [run : Runs, cost : Costs]

Finished == {"released", "rejected", "aborted"}
Event == [kind : {"prepared"} \cup Finished, run : Runs, cost : Nat]

AuthorityState ==
    [spent : Nat, reserved : SUBSET PreparedRun, active : SUBSET PreparedRun, ledger : Seq(Event)]

New == [spent |-> 0, reserved |-> {}, active |-> {}, ledger |-> <<>>]

Entry(kind, r, cost) == [kind |-> kind, run |-> r, cost |-> cost]

-----------------------------------------------------------------------------
Reserved(a) == MapThenSumSet(LAMBDA p : p.cost, a.reserved)

\* Mutant of Available: reservations are not counted.
AvailableUnreserved(a) == Limit - a.spent

Available(a) == Limit - a.spent - Reserved(a)

Has(S, r) == \E p \in S : p.run = r
Without(S, r) == {p \in S : p.run # r}

\* prepare_with_decision
CanPrepare(a, p) ==
    /\ ~Has(a.active, p.run)
    /\ ~Has(a.reserved, p.run)
    /\ p.cost <= Available(a)

AfterPrepare(a, p) ==
    [a EXCEPT !.reserved = @ \cup {p}, !.active = @ \cup {p},
              !.ledger = Append(@, Entry("prepared", p.run, p.cost))]

\* complete
CanComplete(a, r, cost) ==
    /\ Has(a.active, r)
    /\ \E p \in a.reserved : p.run = r /\ cost <= p.cost

AfterComplete(a, r, cost, accepted) ==
    [a EXCEPT !.spent = @ + cost, !.reserved = Without(@, r), !.active = Without(@, r),
              !.ledger = Append(@, Entry(IF accepted THEN "released" ELSE "rejected", r, cost))]

\* abort
CanAbort(a, r) == Has(a.active, r) /\ Has(a.reserved, r)

AfterAbort(a, r) ==
    [a EXCEPT !.reserved = Without(@, r), !.active = Without(@, r),
              !.ledger = Append(@, Entry("aborted", r, 0))]

-----------------------------------------------------------------------------
Init == authority = New

Prepare == \E p \in PreparedRun : CanPrepare(authority, p) /\ authority' = AfterPrepare(authority, p)

Complete ==
    \E p \in authority.reserved : \E cost \in 0 .. p.cost, accepted \in BOOLEAN :
        /\ CanComplete(authority, p.run, cost)
        /\ authority' = AfterComplete(authority, p.run, cost, accepted)

Abort == \E r \in Runs : CanAbort(authority, r) /\ authority' = AfterAbort(authority, r)

Next == Prepare \/ Complete \/ Abort

Spec == Init /\ [][Next]_authority

-----------------------------------------------------------------------------
(* What an authority state a keeps.                                        *)

\* What is spent and what is reserved never exceed the limit together.
WithinBudget(a) == a.spent + Reserved(a) <= Limit

\* The account agrees with the ledger: spent is what finished runs were charged,
\* reserved is what the prepared and unfinished ones hold.
LastOf(ledger, r) ==
    CHOOSE i \in DOMAIN ledger :
        ledger[i].run = r /\ \A j \in DOMAIN ledger : ledger[j].run = r => j <= i

Unfinished(ledger) ==
    {e \in {ledger[i] : i \in DOMAIN ledger} :
        e.kind = "prepared" /\ ledger[LastOf(ledger, e.run)] = e}

Audited(a) ==
    /\ a.spent = MapThenSumSet(
                    LAMBDA i : IF a.ledger[i].kind \in Finished THEN a.ledger[i].cost ELSE 0,
                    DOMAIN a.ledger)
    /\ a.reserved = {[run |-> e.run, cost |-> e.cost] : e \in Unfinished(a.ledger)}
    /\ a.active = a.reserved
=============================================================================
