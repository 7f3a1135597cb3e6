----------------------------- MODULE WorkQueue -----------------------------
(***************************************************************************)
(* The durable work queue of noerelay-store (ExecutionRepository in        *)
(* crates/noerelay-store/src/execution.rs): the tables work_items, leases  *)
(* and workers, and every operation that writes them.                      *)
(*                                                                         *)
(* One action is one committed transaction.  Three operations read a row,  *)
(* decide, and write later without having locked what they read; those are *)
(* two actions joined by an open transaction (txn):                        *)
(*   - claim_work_item_with_retry locks the work item but only reads the   *)
(*     workers row,                                                        *)
(*   - fail_work_item reads attempts without a lock,                       *)
(*   - update_work_item_cas reads the whole row without a lock.            *)
(* PostgreSQL runs them at READ COMMITTED.                                 *)
(*                                                                         *)
(* The clock is abstracted to what the statements compare with now():  a   *)
(* deadline is ahead or past, a heartbeat is recent or older than 60       *)
(* seconds, and time passing is the step that turns one into the other.    *)
(***************************************************************************)
EXTENDS Naturals, FiniteSets

CONSTANTS
    Items,             \* work_items rows that may be enqueued
    Workers,           \* worker replicas
    LeaseIds,          \* identifiers of leases rows (fresh UUIDs)
    NoLease,           \* NULL in work_items.lease_id
    CallerLease,       \* a lease id supplied by the caller, with no leases row
    MaxAttempts,       \* work_items.max_attempts
    GrantLimit,        \* bound: grants of one item
    VersionLimit       \* bound: versioned writes of one item

ASSUME ConstantsAssumption ==
    /\ {MaxAttempts, GrantLimit, VersionLimit} \subseteq Nat
    /\ {NoLease, CallerLease} \cap LeaseIds = {}
    /\ NoLease # CallerLease

VARIABLES
    item,      \* work_items
    lease,     \* leases
    worker,    \* workers
    txn,       \* per worker process, the transaction it has open
    tickets,   \* every claim result a process was ever handed
    accepted   \* the tickets whose complete_work_item returned Ok

vars == <<item, lease, worker, txn, tickets, accepted>>

-----------------------------------------------------------------------------
(* Rows. "absent", "none" and "unregistered" stand for rows not inserted.  *)

InUseStatus == {"claimed", "running"}
TerminalStatus == {"completed", "cancelled", "dead_letter"}
WorkItemStatus == {"pending", "failed"} \cup InUseStatus \cup TerminalStatus
WorkerStatus == {"active", "draining", "drained", "failed", "decommissioned"}
LeaseStatus == {"active", "released", "expired"}

\* A timestamp column against now(); "none" is NULL, which is never past.
Deadline == {"none", "ahead", "past"}

\* fencing_token NULL is 0: every reader of it writes COALESCE(token, 0) + 1.
WorkItemRow ==
    [status : WorkItemStatus \cup {"absent"}, lease : LeaseIds \cup {NoLease, CallerLease},
     expires : Deadline, fence : Nat, attempts : Nat, version : Nat, available : Deadline]

\* What a successful claim returns: the WorkItem and, if any, its LeaseInfo.
Ticket ==
    [worker : Workers, item : Items, fence : Nat, attempt : Nat,
     lease : LeaseIds \cup {CallerLease}]

LeaseRow ==
    [item : Items, worker : Workers, fence : Nat, expires : Deadline,
     renewed : BOOLEAN,   \* heartbeat_at IS NOT NULL
     status : LeaseStatus]

NoRow == [status |-> "none"]
NoTxn == [kind |-> "none"]

Txn ==
    {NoTxn}
    \cup [kind : {"claim"}, item : Items]
    \cup [kind : {"fail"}, ticket : Ticket, verdict : {"failed", "dead_letter"}]
    \cup [kind : {"cas"}, item : Items, row : WorkItemRow]

TypeOK ==
    /\ item \in [Items -> WorkItemRow]
    /\ lease \in [LeaseIds -> LeaseRow \cup {NoRow}]
    /\ worker \in [Workers -> [status : WorkerStatus \cup {"unregistered"}, silent : BOOLEAN]]
    /\ txn \in [Workers -> Txn]
    /\ tickets \subseteq Ticket
    /\ accepted \subseteq tickets

AbsentItem ==
    [status |-> "absent", lease |-> NoLease, expires |-> "none", fence |-> 0,
     attempts |-> 0, version |-> 0, available |-> "none"]

Init ==
    /\ item = [i \in Items |-> AbsentItem]
    /\ lease = [l \in LeaseIds |-> NoRow]
    /\ worker = [w \in Workers |-> [status |-> "unregistered", silent |-> FALSE]]
    /\ txn = [w \in Workers |-> NoTxn]
    /\ tickets = {}
    /\ accepted = {}

-----------------------------------------------------------------------------
(* Reading the tables.                                                     *)

InUse(i) == item[i].status \in InUseStatus
Terminal(i) == item[i].status \in TerminalStatus
ClaimExpired(i) == item[i].expires = "past"
LiveLease(l) == lease[l].status = "active"
Active(w) == worker[w].status = "active"

\* The row lock of a claim that has not committed (FOR UPDATE).
Locked(i) == \E w \in Workers : txn[w].kind = "claim" /\ txn[w].item = i

Claimable(i) ==
    item[i].status = "pending" /\ item[i].available = "past" /\ ~Locked(i)

\* claim_orphaned_work: the claim ran out, or its owner fell silent.
OwnerSilent(i) ==
    \E l \in LeaseIds :
        /\ item[i].lease = l
        /\ LiveLease(l)
        /\ Active(lease[l].worker)
        /\ worker[lease[l].worker].silent

Orphans == {i \in Items : InUse(i) /\ (ClaimExpired(i) \/ OwnerSilent(i))}

GrantBounds(i) == item[i].attempts < GrantLimit

-----------------------------------------------------------------------------
(* Writing the tables.                                                     *)

\* Mutant of Granted: the incremented token is returned but not stored.
GrantedSameToken(i, l) ==
    [item[i] EXCEPT !.status = "claimed", !.lease = l, !.expires = "ahead",
                    !.attempts = @ + 1]

Granted(i, l) ==
    [item[i] EXCEPT !.status = "claimed", !.lease = l, !.expires = "ahead",
                    !.fence = @ + 1, !.attempts = @ + 1]

TicketFor(w, i, l) ==
    [worker |-> w, item |-> i, fence |-> item[i].fence + 1,
     attempt |-> item[i].attempts + 1, lease |-> l]

NewLease(w, i) ==
    [item |-> i, worker |-> w, fence |-> item[i].fence + 1,
     expires |-> "ahead", renewed |-> FALSE, status |-> "active"]

Freed(i, s) == [item[i] EXCEPT !.status = s, !.lease = NoLease, !.expires = "none"]

\* The deadline and heartbeat of a closed lease are never read again.
Closed(l, s) == [lease[l] EXCEPT !.status = s, !.expires = "none", !.renewed = FALSE]

\* The claims common to acquire_lease and claim_work_item_with_retry.
GrantWithLease(w, i, l) ==
    /\ lease[l] = NoRow
    /\ GrantBounds(i)
    /\ item' = [item EXCEPT ![i] = Granted(i, l)]
    /\ lease' = [lease EXCEPT ![l] = NewLease(w, i)]
    /\ tickets' = tickets \cup {TicketFor(w, i, l)}

\* Mutant of Holds: the guard on the fencing token is missing.
HoldsAnyToken(t) == InUse(t.item)

\* A worker proves its claim with the fencing token it was handed.
Holds(t) == item[t.item].fence = t.fence /\ InUse(t.item)

-----------------------------------------------------------------------------
(* work_items                                                              *)

EnqueueWorkItem(i) ==
    /\ item[i].status = "absent"
    /\ \E when \in {"ahead", "past"} :
          item' = [item EXCEPT ![i] = [@ EXCEPT !.status = "pending", !.available = when]]
    /\ UNCHANGED <<lease, worker, txn, tickets, accepted>>

\* claim_work_item: no leases row, no worker and no attempt limit is consulted.
ClaimWorkItem(w, i) ==
    /\ Claimable(i)
    /\ GrantBounds(i)
    /\ item' = [item EXCEPT ![i] = Granted(i, CallerLease)]
    /\ tickets' = tickets \cup {TicketFor(w, i, CallerLease)}
    /\ UNCHANGED <<lease, worker, txn, accepted>>

\* Mutant of AcquireLease: the status of the locked row is not checked.
AcquireLeaseAnyStatus(w, i, l) ==
    /\ item[i].status # "absent"
    /\ ~Locked(i)
    /\ GrantWithLease(w, i, l)
    /\ UNCHANGED <<worker, txn, accepted>>

AcquireLease(w, i, l) ==
    /\ item[i].status \in {"pending", "failed"}
    /\ ~Locked(i)
    /\ GrantWithLease(w, i, l)
    /\ UNCHANGED <<worker, txn, accepted>>

\* claim_work_item_with_retry: the first statement locks the item and sees
\* the worker active; the worker may change before the claim commits.
ClaimWithRetryBegin(w, i) ==
    /\ txn[w] = NoTxn
    /\ Claimable(i)
    /\ Active(w)
    /\ txn' = [txn EXCEPT ![w] = [kind |-> "claim", item |-> i]]
    /\ UNCHANGED <<item, lease, worker, tickets, accepted>>

ClaimWithRetryGrant(w, i, l) ==
    /\ txn[w] = [kind |-> "claim", item |-> i]
    /\ item[i].attempts < MaxAttempts
    /\ GrantWithLease(w, i, l)
    /\ txn' = [txn EXCEPT ![w] = NoTxn]
    /\ UNCHANGED <<worker, accepted>>

ClaimWithRetryExhausted(w, i) ==
    /\ txn[w] = [kind |-> "claim", item |-> i]
    /\ item[i].attempts >= MaxAttempts
    /\ item' = [item EXCEPT ![i].status = "dead_letter"]
    /\ txn' = [txn EXCEPT ![w] = NoTxn]
    /\ UNCHANGED <<lease, worker, tickets, accepted>>

CompleteWorkItem(t) ==
    /\ Holds(t)
    /\ item' = [item EXCEPT ![t.item] = Freed(t.item, "completed")]
    /\ accepted' = accepted \cup {t}
    /\ UNCHANGED <<lease, worker, txn, tickets>>

\* fail_work_item decides on attempts it read before its guarded UPDATE.
FailWorkItemRead(t) ==
    /\ txn[t.worker] = NoTxn
    /\ txn' = [txn EXCEPT ![t.worker] =
                  [kind |-> "fail", ticket |-> t,
                   verdict |-> IF item[t.item].attempts >= MaxAttempts
                               THEN "dead_letter" ELSE "failed"]]
    /\ UNCHANGED <<item, lease, worker, tickets, accepted>>

FailWorkItemWrite(w) ==
    /\ txn[w].kind = "fail"
    /\ LET t == txn[w].ticket IN
          item' = IF Holds(t)
                  THEN [item EXCEPT ![t.item] = Freed(t.item, txn[w].verdict)]
                  ELSE item
    /\ txn' = [txn EXCEPT ![w] = NoTxn]
    /\ UNCHANGED <<lease, worker, tickets, accepted>>

DeadLetterWorkItem(i) ==
    /\ item[i].status # "absent"
    /\ ~Locked(i)
    /\ item' = [item EXCEPT ![i] = Freed(i, "dead_letter")]
    /\ UNCHANGED <<lease, worker, txn, tickets, accepted>>

\* Mutant of RequeueExpiredLeases: items already running are overlooked.
RequeueExpiredClaimed ==
    LET expired == {i \in Items : item[i].status = "claimed" /\ ClaimExpired(i)} IN
    /\ expired # {}
    /\ item' = [i \in Items |-> IF i \in expired
                                THEN [Freed(i, "pending") EXCEPT !.fence = 0]
                                ELSE item[i]]
    /\ UNCHANGED <<lease, worker, txn, tickets, accepted>>

RequeueExpiredLeases ==
    LET expired == {i \in Items : InUse(i) /\ ClaimExpired(i)} IN
    /\ expired # {}
    /\ item' = [i \in Items |-> IF i \in expired
                                THEN [Freed(i, "pending") EXCEPT !.fence = 0]
                                ELSE item[i]]
    /\ UNCHANGED <<lease, worker, txn, tickets, accepted>>

\* The work-queue half of request_cancellation, for the items of the
\* affected runs; it waits for row locks on those it would write.
CancelItems(S) ==
    /\ \A i \in S : ~Locked(i)
    /\ item' = [i \in Items |->
                  IF i \in S /\ item[i].status \notin TerminalStatus \cup {"absent"}
                  THEN Freed(i, "cancelled") ELSE item[i]]
    /\ lease' = [l \in LeaseIds |->
                   IF LiveLease(l) /\ lease[l].item \in S
                   THEN Closed(l, "released") ELSE lease[l]]
    /\ UNCHANGED <<worker, txn, tickets, accepted>>

-----------------------------------------------------------------------------
(* leases                                                                  *)

\* Only the leases row is extended: work_items.lease_expires_at stays.
RenewLease(t) ==
    /\ t.lease \in LeaseIds
    /\ LiveLease(t.lease)
    /\ lease[t.lease].fence = t.fence
    /\ lease' = [lease EXCEPT ![t.lease].expires = "ahead", ![t.lease].renewed = TRUE]
    /\ UNCHANGED <<item, worker, txn, tickets, accepted>>

\* The work_items row is left as it was.
ReleaseLease(t) ==
    /\ t.lease \in LeaseIds
    /\ LiveLease(t.lease)
    /\ lease[t.lease].fence = t.fence
    /\ lease' = [lease EXCEPT ![t.lease] = Closed(t.lease, "released")]
    /\ UNCHANGED <<item, worker, txn, tickets, accepted>>

ExpireLeases ==
    LET expired == {l \in LeaseIds : LiveLease(l) /\ lease[l].expires = "past"} IN
    /\ expired # {}
    /\ lease' = [l \in LeaseIds |-> IF l \in expired
                                    THEN Closed(l, "expired")
                                    ELSE lease[l]]
    /\ UNCHANGED <<item, worker, txn, tickets, accepted>>

-----------------------------------------------------------------------------
(* workers                                                                 *)

\* Only the heartbeat of an active worker is ever compared with the clock.
SetWorker(w, s) ==
    /\ worker' = [worker EXCEPT ![w] = [status |-> s, silent |-> FALSE]]
    /\ UNCHANGED <<item, lease, txn, tickets, accepted>>

\* Registering again refreshes the heartbeat and keeps the status.
RegisterWorker(w) ==
    /\ worker' = [worker EXCEPT ![w] =
                     [status |-> IF @.status = "unregistered" THEN "active" ELSE @.status,
                      silent |-> FALSE]]
    /\ UNCHANGED <<item, lease, txn, tickets, accepted>>

Heartbeat(w) ==
    /\ worker[w].status \in {"active", "draining"}
    /\ worker' = [worker EXCEPT ![w].silent = FALSE]
    /\ UNCHANGED <<item, lease, txn, tickets, accepted>>

DrainWorker(w) == Active(w) /\ SetWorker(w, "draining")

CompleteDrain(w) ==
    /\ worker[w].status = "draining"
    /\ ~\E l \in LeaseIds : LiveLease(l) /\ lease[l].worker = w
    /\ SetWorker(w, "drained")

FailWorker(w) ==
    worker[w].status \in {"active", "draining"} /\ SetWorker(w, "failed")

DecommissionWorker(w) ==
    worker[w].status \in {"drained", "failed"} /\ SetWorker(w, "decommissioned")

-----------------------------------------------------------------------------
(* Recovery                                                                *)

\* Takes over all orphans at once, a fresh lease for each, and expires
\* whatever lease of theirs was still active.
ClaimOrphanedWork(w) ==
    /\ Active(w)
    /\ Orphans # {}
    /\ \A i \in Orphans : GrantBounds(i) /\ item[i].version < VersionLimit
    /\ \E fresh \in [Orphans -> {l \in LeaseIds : lease[l] = NoRow}] :
          /\ \A i, j \in Orphans : fresh[i] = fresh[j] => i = j
          /\ item' = [i \in Items |->
                        IF i \in Orphans
                        THEN [Granted(i, fresh[i]) EXCEPT !.version = @ + 1]
                        ELSE item[i]]
          /\ lease' = [l \in LeaseIds |->
                         IF \E i \in Orphans : fresh[i] = l
                         THEN NewLease(w, CHOOSE i \in Orphans : fresh[i] = l)
                         ELSE IF LiveLease(l) /\ lease[l].item \in Orphans
                              THEN Closed(l, "expired")
                              ELSE lease[l]]
          /\ tickets' = tickets \cup {TicketFor(w, i, fresh[i]) : i \in Orphans}
    /\ UNCHANGED <<worker, txn, accepted>>

\* Mutant of HandleFailover: the token is cleared instead of advanced.
HandleFailoverClearsToken ==
    LET interrupted == {i \in Items : InUse(i)} IN
    /\ interrupted # {}
    /\ \A i \in interrupted : item[i].version < VersionLimit
    /\ item' = [i \in Items |->
                  IF i \in interrupted
                  THEN [Freed(i, "pending") EXCEPT !.fence = 0, !.version = @ + 1]
                  ELSE item[i]]
    /\ lease' = [l \in LeaseIds |-> IF LiveLease(l) THEN Closed(l, "expired") ELSE lease[l]]
    /\ UNCHANGED <<worker, txn, tickets, accepted>>

HandleFailover ==
    LET interrupted == {i \in Items : InUse(i)} IN
    /\ interrupted # {}
    /\ \A i \in interrupted : item[i].version < VersionLimit
    /\ item' = [i \in Items |->
                  IF i \in interrupted
                  THEN [Freed(i, "pending") EXCEPT !.fence = @ + 1, !.version = @ + 1]
                  ELSE item[i]]
    /\ lease' = [l \in LeaseIds |-> IF LiveLease(l)
                                    THEN Closed(l, "expired")
                                    ELSE lease[l]]
    /\ UNCHANGED <<worker, txn, tickets, accepted>>

\* A process dies or loses its connection inside a transaction.
Rollback(w) ==
    /\ txn[w] # NoTxn
    /\ txn' = [txn EXCEPT ![w] = NoTxn]
    /\ UNCHANGED <<item, lease, worker, tickets, accepted>>

-----------------------------------------------------------------------------
(* update_work_item_cas: the closure it is given either marks a claimed    *)
(* item running or touches only columns left out here (priority, payload). *)
(* The whole row it read is written back if version still matches.         *)

CasRead(w, i) ==
    /\ txn[w] = NoTxn
    /\ item[i].status # "absent"
    /\ \E s \in {item[i].status} \cup (IF item[i].status = "claimed" THEN {"running"} ELSE {}) :
          txn' = [txn EXCEPT ![w] = [kind |-> "cas", item |-> i,
                                     row |-> [item[i] EXCEPT !.status = s]]]
    /\ UNCHANGED <<item, lease, worker, tickets, accepted>>

CasWrite(w) ==
    /\ txn[w].kind = "cas"
    /\ LET i == txn[w].item
           row == txn[w].row IN
          /\ ~Locked(i)
          /\ row.version < VersionLimit
          /\ item' = IF item[i].version = row.version
                     THEN [item EXCEPT ![i] = [row EXCEPT !.version = @ + 1]]
                     ELSE item
    /\ txn' = [txn EXCEPT ![w] = NoTxn]
    /\ UNCHANGED <<lease, worker, tickets, accepted>>

-----------------------------------------------------------------------------
(* Time passes.  A claim and its lease have the same deadline until the    *)
(* lease is renewed, and the lease never runs out before the claim.  A row *)
(* an optimistic write has read of the same claim has its deadline too.    *)

BecomesAvailable(i) ==
    /\ item[i].available = "ahead"
    /\ item' = [item EXCEPT ![i].available = "past"]
    /\ UNCHANGED <<lease, worker, txn, tickets, accepted>>

ReadOfClaim(w, i) ==
    /\ txn[w].kind = "cas"
    /\ txn[w].item = i
    /\ txn[w].row.fence = item[i].fence
    /\ txn[w].row.expires = "ahead"

ClaimRunsOut(i) ==
    /\ item[i].expires = "ahead"
    /\ item' = [item EXCEPT ![i].expires = "past"]
    /\ lease' = [l \in LeaseIds |-> IF item[i].lease = l /\ LiveLease(l) /\ ~lease[l].renewed
                                    THEN [lease[l] EXCEPT !.expires = "past"]
                                    ELSE lease[l]]
    /\ txn' = [w \in Workers |-> IF ReadOfClaim(w, i)
                                  THEN [txn[w] EXCEPT !.row.expires = "past"]
                                  ELSE txn[w]]
    /\ UNCHANGED <<worker, tickets, accepted>>

LeaseRunsOut(l) ==
    /\ LiveLease(l)
    /\ lease[l].expires = "ahead"
    /\ item[lease[l].item].lease = l => ClaimExpired(lease[l].item)
    /\ lease' = [lease EXCEPT ![l].expires = "past"]
    /\ UNCHANGED <<item, worker, txn, tickets, accepted>>

FallsSilent(w) ==
    /\ Active(w)
    /\ ~worker[w].silent
    /\ worker' = [worker EXCEPT ![w].silent = TRUE]
    /\ UNCHANGED <<item, lease, txn, tickets, accepted>>

-----------------------------------------------------------------------------
(* The two operations that may take a fencing token back are kept apart:   *)
(* FencedNext is a deployment that recovers work with claim_orphaned_work  *)
(* and handle_failover and never edits rows through update_work_item_cas.  *)

ItemNext ==
    \/ \E i \in Items : EnqueueWorkItem(i) \/ DeadLetterWorkItem(i)
    \/ \E w \in Workers, i \in Items :
          ClaimWorkItem(w, i) \/ ClaimWithRetryBegin(w, i) \/ ClaimWithRetryExhausted(w, i)
    \/ \E w \in Workers, i \in Items, l \in LeaseIds :
          AcquireLease(w, i, l) \/ ClaimWithRetryGrant(w, i, l)
    \/ \E t \in tickets : CompleteWorkItem(t) \/ FailWorkItemRead(t)
    \/ \E w \in Workers : FailWorkItemWrite(w) \/ Rollback(w)
    \/ \E S \in SUBSET Items : S # {} /\ CancelItems(S)

LeaseNext == (\E t \in tickets : RenewLease(t) \/ ReleaseLease(t)) \/ ExpireLeases

WorkerNext ==
    \E w \in Workers :
        \/ RegisterWorker(w) \/ Heartbeat(w) \/ DrainWorker(w) \/ CompleteDrain(w)
        \/ FailWorker(w) \/ DecommissionWorker(w)

RecoveryNext == HandleFailover \/ \E w \in Workers : ClaimOrphanedWork(w)

CasNext == \E w \in Workers : CasWrite(w) \/ \E i \in Items : CasRead(w, i)

TimeNext ==
    \/ \E i \in Items : BecomesAvailable(i) \/ ClaimRunsOut(i)
    \/ \E l \in LeaseIds : LeaseRunsOut(l)
    \/ \E w \in Workers : FallsSilent(w)

FencedNext == TimeNext \/ ItemNext \/ LeaseNext \/ WorkerNext \/ RecoveryNext
Next == FencedNext \/ RequeueExpiredLeases \/ CasNext

FencedSpec == Init /\ [][FencedNext]_vars
Spec == Init /\ [][Next]_vars

\* The deployment sweeps expired claims and time passes; no worker is fair.
LiveSpec ==
    /\ Spec
    /\ \A i \in Items : WF_vars(ClaimRunsOut(i))
    /\ WF_vars(RequeueExpiredLeases)

-----------------------------------------------------------------------------
(* Properties                                                              *)

\* An item has a lease id exactly while it is in use, and then a finite
\* expiry: a claim without one could be found by no recovery operation.
NoStrandedClaim ==
    \A i \in Items :
        /\ InUse(i) <=> item[i].lease # NoLease
        /\ InUse(i) <=> item[i].expires # "none"

\* The lease id of an item in use names a leases row of that item with the
\* item's own token, so the holder's heartbeat and claim cannot disagree.
LeaseRowMatches ==
    \A i \in Items : item[i].lease \in LeaseIds =>
        /\ lease[item[i].lease] # NoRow
        /\ lease[item[i].lease].item = i
        /\ lease[item[i].lease].fence = item[i].fence

\* No fencing token of an item is handed out twice.
TokensIssuedOnce ==
    \A t, u \in tickets : t.item = u.item /\ t.fence = u.fence => t = u

\* complete_work_item answers Ok at most once per item, and only to the
\* latest claim: whoever was superseded by a takeover is refused.
AcceptedIsLatest ==
    \A t \in accepted, u \in tickets : u.item = t.item => u.fence <= t.fence

\* An item is left in "failed", the status that may be claimed again, only
\* if it has attempts left; out of attempts it is dead-lettered.
FailedHasAttemptsLeft ==
    \A i \in Items : item[i].status = "failed" => item[i].attempts < MaxAttempts

\* A fencing token never goes back (LeaseInfo: "monotonically increasing").
FenceMonotone == [][\A i \in Items : item'[i].fence >= item[i].fence]_vars

\* Completed, cancelled and dead-lettered work never returns to the queue.
TerminalNeverRevived == [][\A i \in Items : Terminal(i) => Terminal(i)']_vars

\* No token holds an item for ever: the claim ends or a takeover supersedes it,
\* whatever renewals, crashes and optimistic writes happen meanwhile.  The item
\* itself may go from takeover to takeover (claim_orphaned_work).
HeldBy(i, f) == InUse(i) /\ item[i].fence = f
HoldsEnd == \A i \in Items, f \in 1 .. GrantLimit + VersionLimit : HeldBy(i, f) ~> ~HeldBy(i, f)

\* Under races of claims, takeovers and failures the rows stay consistent: no token
\* is issued twice, a failed item has attempts left, and the lease an item names is
\* its own (acquire_lease, fail_work_item, claim_orphaned_work).
ClaimsConsistent == TypeOK /\ TokensIssuedOnce /\ FailedHasAttemptsLeft /\ LeaseRowMatches

\* Under every operation, the optimistic writes and the requeue included, a claim
\* keeps what recovery finds it by, and no worker keeps it for ever by its token
\* (update_work_item_cas, requeue_expired_leases, claim_orphaned_work).
ClaimsRecovered == []TypeOK /\ []NoStrandedClaim /\ HoldsEnd
=============================================================================
