--------------------------- MODULE WorkQueueProofs ---------------------------
(***************************************************************************)
(* Theorems about WorkQueue, for every set of items, workers and leases    *)
(* and every value of the limits.                                          *)
(***************************************************************************)
EXTENDS WorkQueue, TLAPS

(* Row constructors return rows. *)

LEMMA ItemType ==
    ASSUME TypeOK, NEW i \in Items
    PROVE  item[i] \in WorkItemRow
BY DEF TypeOK

LEMMA GrantedType ==
    ASSUME TypeOK, NEW i \in Items, NEW l \in LeaseIds \cup {CallerLease}
    PROVE  Granted(i, l) \in WorkItemRow
<1>1. item[i] \in WorkItemRow
  BY ItemType
<1>2. "claimed" \in WorkItemStatus \cup {"absent"} /\ "ahead" \in Deadline
  BY DEF WorkItemStatus, InUseStatus, Deadline
<1>3. item[i].fence + 1 \in Nat /\ item[i].attempts + 1 \in Nat
  BY <1>1 DEF WorkItemRow
<1> QED
  BY <1>1, <1>2, <1>3 DEF Granted, WorkItemRow

LEMMA FreedType ==
    ASSUME TypeOK, NEW i \in Items, NEW s \in WorkItemStatus
    PROVE  Freed(i, s) \in WorkItemRow
<1>1. item[i] \in WorkItemRow
  BY ItemType
<1>2. "none" \in Deadline
  BY DEF Deadline
<1> QED
  BY <1>1, <1>2 DEF Freed, WorkItemRow

LEMMA RowAdvanced ==
    ASSUME NEW row \in WorkItemRow
    PROVE  [row EXCEPT !.fence = @ + 1, !.version = @ + 1] \in WorkItemRow
<1>1. row.fence + 1 \in Nat /\ row.version + 1 \in Nat
  BY DEF WorkItemRow
<1> QED
  BY <1>1 DEF WorkItemRow

LEMMA TicketForType ==
    ASSUME TypeOK, NEW w \in Workers, NEW i \in Items, NEW l \in LeaseIds \cup {CallerLease}
    PROVE  TicketFor(w, i, l) \in Ticket
BY DEF TypeOK, TicketFor, Ticket, WorkItemRow

LEMMA NewLeaseType ==
    ASSUME TypeOK, NEW w \in Workers, NEW i \in Items
    PROVE  NewLease(w, i) \in LeaseRow
BY DEF TypeOK, NewLease, LeaseRow, WorkItemRow, LeaseStatus, Deadline

LEMMA LiveLeaseType ==
    ASSUME TypeOK, NEW l \in LeaseIds, LiveLease(l)
    PROVE  lease[l] \in LeaseRow
BY DEF TypeOK, LiveLease, NoRow

LEMMA ClosedType ==
    ASSUME TypeOK, NEW l \in LeaseIds, LiveLease(l), NEW s \in LeaseStatus
    PROVE  Closed(l, s) \in LeaseRow
<1>1. lease[l] \in LeaseRow
  BY LiveLeaseType
<1> QED
  BY <1>1 DEF Closed, LeaseRow, Deadline

LEMMA StatusNames ==
    {"pending", "claimed", "running", "failed", "completed", "cancelled", "dead_letter"}
        \subseteq WorkItemStatus
BY DEF WorkItemStatus, InUseStatus, TerminalStatus

LEMMA TypeInit == Init => TypeOK
BY DEF Init, TypeOK, AbsentItem, WorkItemRow, Deadline, Txn

LEMMA GrantWithLeaseType ==
    ASSUME TypeOK, NEW w \in Workers, NEW i \in Items, NEW l \in LeaseIds, GrantWithLease(w, i, l)
    PROVE  /\ item' \in [Items -> WorkItemRow]
           /\ lease' \in [LeaseIds -> LeaseRow \cup {NoRow}]
           /\ tickets' \subseteq Ticket
           /\ tickets \subseteq tickets'
BY GrantedType, NewLeaseType, TicketForType DEF TypeOK, GrantWithLease

\* The operations on work items keep every table well typed.
LEMMA TypeItem ==
    ASSUME TypeOK, ItemNext
    PROVE  TypeOK'
<1> USE StatusNames
<1>1. ASSUME NEW i \in Items, EnqueueWorkItem(i) PROVE TypeOK'
  <2>1. \A d \in Deadline :
           [item[i] EXCEPT !.status = "pending", !.available = d] \in WorkItemRow
    BY ItemType DEF WorkItemRow
  <2>2. item' \in [Items -> WorkItemRow]
    BY <1>1, <2>1 DEF TypeOK, EnqueueWorkItem, Deadline
  <2> QED
    BY <1>1, <2>2 DEF TypeOK, EnqueueWorkItem
<1>2. ASSUME NEW i \in Items, DeadLetterWorkItem(i) PROVE TypeOK'
  BY <1>2, FreedType DEF TypeOK, DeadLetterWorkItem
<1>3. ASSUME NEW w \in Workers, NEW i \in Items, ClaimWorkItem(w, i) PROVE TypeOK'
  BY <1>3, GrantedType, TicketForType DEF TypeOK, ClaimWorkItem
<1>4. ASSUME NEW w \in Workers, NEW i \in Items, ClaimWithRetryBegin(w, i) PROVE TypeOK'
  BY <1>4 DEF TypeOK, ClaimWithRetryBegin, Txn
<1>5. ASSUME NEW w \in Workers, NEW i \in Items, ClaimWithRetryExhausted(w, i) PROVE TypeOK'
  <2>1. [item[i] EXCEPT !.status = "dead_letter"] \in WorkItemRow
    BY DEF TypeOK, WorkItemRow
  <2> QED
    BY <1>5, <2>1 DEF TypeOK, ClaimWithRetryExhausted, Txn
<1>6. ASSUME NEW w \in Workers, NEW i \in Items, NEW l \in LeaseIds, AcquireLease(w, i, l)
      PROVE  TypeOK'
  BY <1>6, GrantWithLeaseType DEF TypeOK, AcquireLease
<1>7. ASSUME NEW w \in Workers, NEW i \in Items, NEW l \in LeaseIds, ClaimWithRetryGrant(w, i, l)
      PROVE  TypeOK'
  BY <1>7, GrantWithLeaseType DEF TypeOK, ClaimWithRetryGrant, Txn
<1>8. ASSUME NEW t \in tickets, CompleteWorkItem(t) PROVE TypeOK'
  <2>1. t.item \in Items
    BY DEF TypeOK, Ticket
  <2> QED
    BY <1>8, <2>1, FreedType DEF TypeOK, CompleteWorkItem
<1>9. ASSUME NEW t \in tickets, FailWorkItemRead(t) PROVE TypeOK'
  BY <1>9 DEF TypeOK, FailWorkItemRead, Txn
<1>10. ASSUME NEW w \in Workers, FailWorkItemWrite(w) PROVE TypeOK'
  <2>1. txn[w].ticket.item \in Items /\ txn[w].verdict \in WorkItemStatus
    BY <1>10 DEF TypeOK, FailWorkItemWrite, Txn, NoTxn, Ticket
  <2>2. Freed(txn[w].ticket.item, txn[w].verdict) \in WorkItemRow
    BY <2>1, FreedType
  <2> QED
    BY <1>10, <2>1, <2>2 DEF TypeOK, FailWorkItemWrite, Txn
<1>11. ASSUME NEW w \in Workers, Rollback(w) PROVE TypeOK'
  BY <1>11 DEF TypeOK, Rollback, Txn
<1>12. ASSUME NEW S \in SUBSET Items, CancelItems(S) PROVE TypeOK'
  BY <1>12, FreedType, ClosedType DEF TypeOK, CancelItems, LeaseStatus
<1> QED
  BY <1>1, <1>2, <1>3, <1>4, <1>5, <1>6, <1>7, <1>8, <1>9, <1>10, <1>11, <1>12 DEF ItemNext

LEMMA TypeLease ==
    ASSUME TypeOK, LeaseNext
    PROVE  TypeOK'
<1>1. ASSUME NEW t \in tickets, RenewLease(t) PROVE TypeOK'
  <2>1. lease[t.lease] \in LeaseRow
    BY <1>1, LiveLeaseType DEF RenewLease
  <2>2. [lease[t.lease] EXCEPT !.expires = "ahead", !.renewed = TRUE] \in LeaseRow
    BY <2>1 DEF LeaseRow, Deadline
  <2> QED
    BY <1>1, <2>2 DEF TypeOK, RenewLease
<1>2. ASSUME NEW t \in tickets, ReleaseLease(t) PROVE TypeOK'
  BY <1>2, ClosedType DEF TypeOK, ReleaseLease, LeaseStatus
<1>3. ASSUME ExpireLeases PROVE TypeOK'
  BY <1>3, ClosedType DEF TypeOK, ExpireLeases, LeaseStatus
<1> QED
  BY <1>1, <1>2, <1>3 DEF LeaseNext

LEMMA TypeWorker ==
    ASSUME TypeOK, WorkerNext
    PROVE  TypeOK'
<1> DEFINE Row == [status : WorkerStatus \cup {"unregistered"}, silent : BOOLEAN]
<1>1. PICK w \in Workers :
        \/ RegisterWorker(w) \/ Heartbeat(w) \/ DrainWorker(w) \/ CompleteDrain(w)
        \/ FailWorker(w) \/ DecommissionWorker(w)
  BY DEF WorkerNext
<1>2. \A s \in WorkerStatus : [status |-> s, silent |-> FALSE] \in Row
  OBVIOUS
<1>3. worker[w] \in Row
  BY DEF TypeOK
<1>4. ASSUME NEW s \in WorkerStatus, SetWorker(w, s) PROVE TypeOK'
  BY <1>2, <1>4 DEF TypeOK, SetWorker
<1>5. ASSUME RegisterWorker(w) PROVE TypeOK'
  <2>1. [status |-> IF worker[w].status = "unregistered" THEN "active" ELSE worker[w].status,
         silent |-> FALSE] \in Row
    BY <1>3 DEF WorkerStatus
  <2> QED
    BY <1>5, <2>1 DEF TypeOK, RegisterWorker
<1>6. ASSUME Heartbeat(w) PROVE TypeOK'
  <2>1. [worker[w] EXCEPT !.silent = FALSE] \in Row
    BY <1>3
  <2> QED
    BY <1>6, <2>1 DEF TypeOK, Heartbeat
<1> QED
  BY <1>1, <1>4, <1>5, <1>6
     DEF DrainWorker, CompleteDrain, FailWorker, DecommissionWorker, WorkerStatus

LEMMA TypeRecovery ==
    ASSUME TypeOK, RecoveryNext
    PROVE  TypeOK'
<1> USE StatusNames
<1>1. ASSUME HandleFailover PROVE TypeOK'
  <2>1. ASSUME NEW i \in Items
        PROVE  [Freed(i, "pending") EXCEPT !.fence = @ + 1, !.version = @ + 1] \in WorkItemRow
    BY FreedType, RowAdvanced
  <2> QED
    BY <1>1, <2>1, ClosedType DEF TypeOK, HandleFailover, LeaseStatus
<1>2. ASSUME NEW w \in Workers, ClaimOrphanedWork(w) PROVE TypeOK'
  <2>1. PICK fresh \in [Orphans -> {l \in LeaseIds : lease[l] = NoRow}] :
          /\ item' = [i \in Items |->
                        IF i \in Orphans
                        THEN [Granted(i, fresh[i]) EXCEPT !.version = @ + 1]
                        ELSE item[i]]
          /\ lease' = [l \in LeaseIds |->
                         IF \E i \in Orphans : fresh[i] = l
                         THEN NewLease(w, CHOOSE i \in Orphans : fresh[i] = l)
                         ELSE IF LiveLease(l) /\ lease[l].item \in Orphans
                              THEN Closed(l, "expired")
                              ELSE lease[l]]
          /\ tickets' = tickets \cup {TicketFor(w, i, fresh[i]) : i \in Orphans}
    BY <1>2 DEF ClaimOrphanedWork
  <2>2. \A i \in Orphans : i \in Items /\ fresh[i] \in LeaseIds
    BY DEF Orphans
  <2>3. item' \in [Items -> WorkItemRow]
    <3>1. \A i \in Orphans : [Granted(i, fresh[i]) EXCEPT !.version = @ + 1] \in WorkItemRow
      BY <2>2, GrantedType DEF WorkItemRow
    <3> QED
      BY <2>1, <3>1 DEF TypeOK
  <2>4. lease' \in [LeaseIds -> LeaseRow \cup {NoRow}]
    <3> SUFFICES ASSUME NEW l \in LeaseIds PROVE lease'[l] \in LeaseRow \cup {NoRow}
      BY <2>1
    <3>1. CASE \E i \in Orphans : fresh[i] = l
      <4>1. (CHOOSE i \in Orphans : fresh[i] = l) \in Items
        BY <3>1, <2>2
      <4> QED
        BY <3>1, <4>1, <2>1, NewLeaseType
    <3>2. CASE ~\E i \in Orphans : fresh[i] = l
      BY <3>2, <2>1, ClosedType DEF TypeOK, LeaseStatus
    <3> QED
      BY <3>1, <3>2
  <2>5. tickets' \subseteq Ticket
    BY <2>1, <2>2, TicketForType DEF TypeOK
  <2> QED
    BY <1>2, <2>1, <2>3, <2>4, <2>5 DEF TypeOK, ClaimOrphanedWork
<1> QED
  BY <1>1, <1>2 DEF RecoveryNext

\* The row an optimistic write read, once its deadline has passed.
LEMMA RunOutRead ==
    ASSUME TypeOK, NEW w \in Workers, NEW i \in Items, ReadOfClaim(w, i)
    PROVE  /\ [txn[w] EXCEPT !.row.expires = "past"] \in Txn
           /\ txn[w].row \in WorkItemRow
           /\ [txn[w] EXCEPT !.row.expires = "past"].kind = "cas"
           /\ [txn[w] EXCEPT !.row.expires = "past"].row = [txn[w].row EXCEPT !.expires = "past"]
<1>1. txn[w] \in [kind : {"cas"}, item : Items, row : WorkItemRow]
  BY DEF TypeOK, Txn, NoTxn, ReadOfClaim
<1>2. [txn[w].row EXCEPT !.expires = "past"] \in WorkItemRow
  BY <1>1 DEF WorkItemRow, Deadline
<1> QED
  BY <1>1, <1>2 DEF Txn

LEMMA TypeTime ==
    ASSUME TypeOK, TimeNext
    PROVE  TypeOK'
<1>1. ASSUME NEW i \in Items, BecomesAvailable(i) PROVE TypeOK'
  <2>1. [item[i] EXCEPT !.available = "past"] \in WorkItemRow
    BY ItemType DEF WorkItemRow, Deadline
  <2> QED
    BY <1>1, <2>1 DEF TypeOK, BecomesAvailable
<1>2. ASSUME NEW i \in Items, ClaimRunsOut(i) PROVE TypeOK'
  <2>1. [item[i] EXCEPT !.expires = "past"] \in WorkItemRow
    BY DEF TypeOK, WorkItemRow, Deadline
  <2>2. \A l \in LeaseIds : LiveLease(l) => [lease[l] EXCEPT !.expires = "past"] \in LeaseRow
    BY LiveLeaseType DEF LeaseRow, Deadline
  <2>3. /\ item' \in [Items -> WorkItemRow] /\ lease' \in [LeaseIds -> LeaseRow \cup {NoRow}]
        /\ UNCHANGED <<worker, tickets, accepted>>
    BY <1>2, <2>1, <2>2 DEF TypeOK, ClaimRunsOut
  <2>4. txn' \in [Workers -> Txn]
    BY <1>2, RunOutRead DEF ClaimRunsOut, TypeOK
  <2> QED
    BY <2>3, <2>4 DEF TypeOK
<1>3. ASSUME NEW l \in LeaseIds, LeaseRunsOut(l) PROVE TypeOK'
  <2>1. [lease[l] EXCEPT !.expires = "past"] \in LeaseRow
    BY <1>3, LiveLeaseType DEF LeaseRow, Deadline, LeaseRunsOut
  <2> QED
    BY <1>3, <2>1 DEF TypeOK, LeaseRunsOut
<1>4. ASSUME NEW w \in Workers, FallsSilent(w) PROVE TypeOK'
  BY <1>4 DEF TypeOK, FallsSilent
<1> QED
  BY <1>1, <1>2, <1>3, <1>4 DEF TimeNext

LEMMA TypeFencedNext == TypeOK /\ [FencedNext]_vars => TypeOK'
<1>1. TypeOK /\ UNCHANGED vars => TypeOK'
  BY DEF TypeOK, vars
<1> QED
  BY <1>1, TypeItem, TypeLease, TypeWorker, TypeRecovery, TypeTime DEF FencedNext

LEMMA TypeNext == TypeOK /\ [Next]_vars => TypeOK'
<1> USE StatusNames
<1>1. ASSUME TypeOK, RequeueExpiredLeases PROVE TypeOK'
  <2>1. \A i \in Items : [Freed(i, "pending") EXCEPT !.fence = 0] \in WorkItemRow
    BY <1>1, FreedType DEF WorkItemRow
  <2> QED
    BY <1>1, <2>1 DEF TypeOK, RequeueExpiredLeases
<1>2. ASSUME TypeOK, NEW w \in Workers, CasWrite(w) PROVE TypeOK'
  <2>1. txn[w].item \in Items /\ txn[w].row \in WorkItemRow
    BY <1>2 DEF TypeOK, CasWrite, Txn, NoTxn
  <2>2. [txn[w].row EXCEPT !.version = @ + 1] \in WorkItemRow
    BY <2>1 DEF WorkItemRow
  <2> QED
    BY <1>2, <2>1, <2>2 DEF TypeOK, CasWrite, Txn
<1>3. ASSUME TypeOK, NEW w \in Workers, NEW i \in Items, CasRead(w, i) PROVE TypeOK'
  <2>0. item[i] \in WorkItemRow
    BY <1>3 DEF TypeOK
  <2>1. \A s \in WorkItemStatus : [item[i] EXCEPT !.status = s] \in WorkItemRow
    BY <2>0 DEF WorkItemRow
  <2>2. item[i].status \in WorkItemStatus
    BY <1>3, <2>0 DEF WorkItemRow, CasRead
  <2>3. PICK s \in WorkItemStatus :
           txn' = [txn EXCEPT ![w] = [kind |-> "cas", item |-> i,
                                      row |-> [item[i] EXCEPT !.status = s]]]
    BY <1>3, <2>2 DEF CasRead
  <2>4. txn' \in [Workers -> Txn]
    BY <1>3, <2>1, <2>3 DEF TypeOK, Txn
  <2> QED
    BY <1>3, <2>4 DEF TypeOK, CasRead
<1> QED
  BY <1>1, <1>2, <1>3, TypeFencedNext DEF Next, CasNext

\* Every table stays within its columns' types and CHECK constraints, whatever
\* operations run: all of them, the optimistic writes included.
THEOREM TypeCorrect == Spec => []TypeOK
<1>1. Init => TypeOK
  BY TypeInit
<1>2. TypeOK /\ [Next]_vars => TypeOK'
  BY TypeNext
<1> QED
  BY <1>1, <1>2, PTL DEF Spec

-----------------------------------------------------------------------------
(* Row locks.  A claim that has not committed keeps its item pending, and  *)
(* two claims never hold the same item (FOR UPDATE SKIP LOCKED).           *)

Claiming(w) == txn[w].kind = "claim"

LocksHold ==
    /\ \A w \in Workers : Claiming(w) => item[txn[w].item].status = "pending"
    /\ \A v, w \in Workers : Claiming(v) /\ Claiming(w) /\ txn[v].item = txn[w].item => v = w

LEMMA ClaimTxnType ==
    ASSUME TypeOK, NEW w \in Workers, Claiming(w)
    PROVE  txn[w].item \in Items
BY DEF TypeOK, Claiming, Txn, NoTxn

\* What a step may do to locked rows: it leaves them alone, unless it is the
\* commit or the rollback of the claim that holds the lock.
\* Only rows that optimistic writes have read change: their deadline passes.
ReadsAged == \A w \in Workers : txn'[w] = txn[w] \/ (txn[w].kind = "cas" /\ txn'[w].kind = "cas")

LockStep ==
    \/ /\ txn' = txn \/ ReadsAged
       /\ \A i \in Items : Locked(i) => item'[i].status = item[i].status
    \/ \E v \in Workers :
          /\ \A w \in Workers : w # v => txn'[w] = txn[w]
          /\ txn'[v].kind # "claim"
          /\ \A i \in Items : Locked(i) /\ item'[i].status # item[i].status
                                => Claiming(v) /\ txn[v].item = i
    \/ \E v \in Workers, i \in Items :
          /\ item' = item
          /\ item[i].status = "pending" /\ ~Locked(i)
          /\ txn' = [txn EXCEPT ![v] = [kind |-> "claim", item |-> i]]

LEMMA LockStepHolds ==
    ASSUME TypeOK, LocksHold, LockStep
    PROVE  LocksHold'
<1>1. \A w \in Workers : Claiming(w) => txn[w].item \in Items /\ Locked(txn[w].item)
  BY ClaimTxnType DEF Locked, Claiming
<1>2. ASSUME txn' = txn \/ ReadsAged,
             \A i \in Items : Locked(i) => item'[i].status = item[i].status
      PROVE  LocksHold'
  <2>1. \A w \in Workers : Claiming(w)' => Claiming(w) /\ txn'[w] = txn[w]
    BY <1>2 DEF Claiming, ReadsAged
  <2> QED
    BY <1>1, <1>2, <2>1 DEF LocksHold, Claiming
<1>3. ASSUME NEW v \in Workers,
             \A w \in Workers : w # v => txn'[w] = txn[w],
             txn'[v].kind # "claim",
             \A i \in Items : Locked(i) /\ item'[i].status # item[i].status
                                => Claiming(v) /\ txn[v].item = i
      PROVE  LocksHold'
  BY <1>1, <1>3 DEF LocksHold, Claiming
<1>4. ASSUME NEW v \in Workers, NEW i \in Items,
             item' = item, item[i].status = "pending", ~Locked(i),
             txn' = [txn EXCEPT ![v] = [kind |-> "claim", item |-> i]]
      PROVE  LocksHold'
  <2>1. txn \in [Workers -> Txn]
    BY DEF TypeOK
  <2>2. \A w \in Workers : w # v => txn'[w] = txn[w]
    BY <1>4, <2>1
  <2>3. txn'[v].kind = "claim" /\ txn'[v].item = i
    BY <1>4, <2>1
  <2>4. \A w \in Workers : Claiming(w) => txn[w].item # i
    BY <1>4 DEF Locked, Claiming
  <2> QED
    BY <1>4, <2>2, <2>3, <2>4 DEF LocksHold, Claiming
<1> QED
  BY <1>2, <1>3, <1>4 DEF LockStep

-----------------------------------------------------------------------------
(* What every step of FencedNext does to tokens, tickets and verdicts.     *)

\* A row keeps its token and attempts and enters use only by a new token;
\* a finished row keeps its token and stays finished.
RowStep ==
    \A i \in Items :
        /\ \/ /\ item'[i].fence = item[i].fence
              /\ item'[i].attempts = item[i].attempts
              /\ InUse(i)' => InUse(i)
           \/ item'[i].fence = item[i].fence + 1 /\ ~Terminal(i)
        /\ Terminal(i) => Terminal(i)'

TicketStep ==
    /\ tickets \subseteq tickets'
    /\ \A t \in tickets' \ tickets :
          t.fence = item[t.item].fence + 1 /\ item'[t.item].fence = t.fence
    /\ \A t, u \in tickets' \ tickets : t.item = u.item => t = u

AcceptStep ==
    \A t \in accepted' \ accepted :
        /\ t \in tickets
        /\ item'[t.item].fence = t.fence
        /\ Terminal(t.item)'

FailTxn(w) == txn[w].kind = "fail"

\* An item is marked failed only by the write half of fail_work_item.
FailStep ==
    \A i \in Items : item'[i].status = "failed" =>
        /\ item'[i].attempts = item[i].attempts
        /\ \/ item[i].status = "failed"
           \/ \E w \in Workers :
                 /\ FailTxn(w) /\ txn[w].verdict = "failed"
                 /\ txn[w].ticket.item = i /\ Holds(txn[w].ticket)

VerdictStep ==
    \A w \in Workers : FailTxn(w)' =>
        \/ FailTxn(w) /\ txn'[w] = txn[w]
        \/ /\ item' = item
           /\ txn'[w].ticket \in tickets
           /\ txn'[w].verdict = "failed" => item[txn'[w].ticket.item].attempts < MaxAttempts

QueueStep == RowStep /\ TicketStep /\ AcceptStep /\ FailStep /\ VerdictStep /\ LockStep

LEMMA GrantedRow ==
    ASSUME TypeOK, NEW i \in Items, NEW l
    PROVE  /\ Granted(i, l).fence = item[i].fence + 1
           /\ Granted(i, l).attempts = item[i].attempts + 1
           /\ Granted(i, l).status = "claimed"
           /\ Granted(i, l).version = item[i].version
BY ItemType DEF Granted, WorkItemRow

LEMMA FreedRow ==
    ASSUME TypeOK, NEW i \in Items, NEW s
    PROVE  /\ Freed(i, s).fence = item[i].fence
           /\ Freed(i, s).attempts = item[i].attempts
           /\ Freed(i, s).status = s
           /\ Freed(i, s).version = item[i].version
BY ItemType DEF Freed, WorkItemRow

\* Steps that write no work item and hand out nothing.
LEMMA QuietStep ==
    ASSUME TypeOK, UNCHANGED <<item, tickets, accepted, txn>>
    PROVE  QueueStep
BY DEF QueueStep, RowStep, TicketStep, AcceptStep, FailStep, VerdictStep, LockStep, InUse,
       Terminal, FailTxn

\* A grant of one unlocked item, or of the item the granting worker locked.
LEMMA GrantStep ==
    ASSUME TypeOK, NEW w \in Workers, NEW i \in Items, NEW l \in LeaseIds \cup {CallerLease},
           item[i].status \in {"pending", "failed"},
           item'[i] = Granted(i, l),
           \A j \in Items \ {i} : item'[j] = item[j],
           tickets' = tickets \cup {TicketFor(w, i, l)},
           accepted' = accepted
    PROVE  RowStep /\ TicketStep /\ AcceptStep /\ FailStep
<1>1. \A j \in Items : j # i => item'[j] = item[j]
  OBVIOUS
<1>2. /\ item'[i].fence = item[i].fence + 1 /\ item'[i].status = "claimed"
      /\ ~Terminal(i)
  BY GrantedRow DEF Terminal, TerminalStatus
<1>3. RowStep
  BY <1>1, <1>2 DEF RowStep, InUse, Terminal
<1>4. TicketFor(w, i, l).item = i /\ TicketFor(w, i, l).fence = item[i].fence + 1
  BY DEF TicketFor
<1>5. TicketStep
  BY <1>2, <1>4 DEF TicketStep
<1>6. AcceptStep
  BY DEF AcceptStep
<1>7. FailStep
  BY <1>1, <1>2 DEF FailStep
<1> QED
  BY <1>3, <1>5, <1>6, <1>7

LEMMA SameTxnVerdict ==
    ASSUME txn' = txn
    PROVE  VerdictStep
BY DEF VerdictStep, FailTxn

LEMMA ClosedTxnVerdict ==
    ASSUME TypeOK, NEW v \in Workers, txn' = [txn EXCEPT ![v] = NoTxn]
    PROVE  /\ VerdictStep
           /\ \A w \in Workers : w # v => txn'[w] = txn[w]
           /\ txn'[v].kind # "claim"
BY DEF VerdictStep, FailTxn, TypeOK, NoTxn

\* A row that is freed without a new token.
LEMMA FreeStep ==
    ASSUME TypeOK, NEW S \in SUBSET Items, NEW s \in {"completed", "cancelled", "dead_letter"},
           \A i \in S : item'[i] = Freed(i, s),
           \A i \in Items \ S : item'[i] = item[i]
    PROVE  RowStep /\ FailStep
<1>1. \A i \in S : /\ item'[i].fence = item[i].fence
                   /\ item'[i].attempts = item[i].attempts
                   /\ item'[i].status = s
  BY FreedRow
<1>2. s \in TerminalStatus /\ s \notin InUseStatus /\ s # "failed"
  BY DEF TerminalStatus, InUseStatus
<1>3. RowStep
  BY <1>1, <1>2 DEF RowStep, InUse, Terminal
<1>4. FailStep
  BY <1>1, <1>2 DEF FailStep
<1> QED
  BY <1>3, <1>4

LEMMA ItemStep ==
    ASSUME TypeOK, LocksHold, ItemNext
    PROVE  QueueStep
<1>0. item \in [Items -> WorkItemRow]
  BY DEF TypeOK
<1>1. ASSUME NEW i \in Items, EnqueueWorkItem(i) PROVE QueueStep
  <2>1. \A j \in Items : j # i => item'[j] = item[j]
    BY <1>0, <1>1 DEF EnqueueWorkItem
  <2>2. PICK d \in {"ahead", "past"} :
           item'[i] = [item[i] EXCEPT !.status = "pending", !.available = d]
    BY <1>0, <1>1 DEF EnqueueWorkItem
  <2>3. /\ item'[i].fence = item[i].fence /\ item'[i].attempts = item[i].attempts
        /\ item'[i].status = "pending" /\ item[i].status = "absent"
    BY <2>2, <1>1, ItemType DEF WorkItemRow, EnqueueWorkItem
  <2>4. RowStep /\ FailStep
    BY <2>1, <2>3 DEF RowStep, FailStep, InUse, InUseStatus, Terminal, TerminalStatus
  <2>5. ~Locked(i)
    BY <2>3 DEF LocksHold, Locked, Claiming
  <2>6. LockStep
    BY <1>1, <2>1, <2>5 DEF LockStep, EnqueueWorkItem
  <2> QED
    BY <1>1, <2>4, <2>6, SameTxnVerdict
       DEF QueueStep, TicketStep, AcceptStep, EnqueueWorkItem
<1>2. ASSUME NEW i \in Items, DeadLetterWorkItem(i) PROVE QueueStep
  <2>1. /\ \A j \in {i} : item'[j] = Freed(j, "dead_letter")
        /\ \A j \in Items \ {i} : item'[j] = item[j]
    BY <1>0, <1>2 DEF DeadLetterWorkItem
  <2>2. RowStep /\ FailStep
    <3>1. {i} \in SUBSET Items /\ "dead_letter" \in {"completed", "cancelled", "dead_letter"}
      OBVIOUS
    <3> QED
      BY <2>1, <3>1, FreeStep
  <2>3. LockStep
    BY <1>2, <2>1 DEF LockStep, DeadLetterWorkItem
  <2> QED
    BY <1>2, <2>2, <2>3, SameTxnVerdict
       DEF QueueStep, TicketStep, AcceptStep, DeadLetterWorkItem
<1>3. ASSUME NEW w \in Workers, NEW i \in Items, ClaimWorkItem(w, i) PROVE QueueStep
  <2>1. RowStep /\ TicketStep /\ AcceptStep /\ FailStep
    <3>1. /\ item[i].status \in {"pending", "failed"}
          /\ item'[i] = Granted(i, CallerLease)
          /\ \A j \in Items \ {i} : item'[j] = item[j]
          /\ tickets' = tickets \cup {TicketFor(w, i, CallerLease)}
          /\ accepted' = accepted
      BY <1>0, <1>3 DEF ClaimWorkItem, Claimable
    <3>2. CallerLease \in LeaseIds \cup {CallerLease}
      OBVIOUS
    <3> QED
      BY <3>1, <3>2, GrantStep
  <2>2. \A j \in Items \ {i} : item'[j] = item[j]
    BY <1>0, <1>3 DEF ClaimWorkItem
  <2>3. LockStep
    BY <1>3, <2>2 DEF LockStep, ClaimWorkItem, Claimable
  <2> QED
    BY <1>3, <2>1, <2>3, SameTxnVerdict DEF QueueStep, ClaimWorkItem
<1>4. ASSUME NEW w \in Workers, NEW i \in Items, ClaimWithRetryBegin(w, i) PROVE QueueStep
  <2>1. LockStep
    BY <1>4 DEF LockStep, ClaimWithRetryBegin, Claimable
  <2>2. VerdictStep
    BY <1>4 DEF VerdictStep, FailTxn, TypeOK, ClaimWithRetryBegin
  <2> QED
    BY <1>4, <2>1, <2>2
       DEF QueueStep, RowStep, TicketStep, AcceptStep, FailStep, InUse, Terminal, ClaimWithRetryBegin
<1>5. ASSUME NEW w \in Workers, NEW i \in Items, ClaimWithRetryExhausted(w, i) PROVE QueueStep
  <2>1. \A j \in Items \ {i} : item'[j] = item[j]
    BY <1>0, <1>5 DEF ClaimWithRetryExhausted
  <2>2. item'[i] = [item[i] EXCEPT !.status = "dead_letter"]
    BY <1>0, <1>5 DEF ClaimWithRetryExhausted
  <2>3. /\ item'[i].fence = item[i].fence /\ item'[i].attempts = item[i].attempts
        /\ item'[i].status = "dead_letter"
    BY <2>2, ItemType DEF WorkItemRow
  <2>4. RowStep /\ FailStep
    BY <2>1, <2>3 DEF RowStep, FailStep, InUse, InUseStatus, Terminal, TerminalStatus
  <2>5. /\ VerdictStep
        /\ \A v \in Workers : v # w => txn'[v] = txn[v]
        /\ txn'[w].kind # "claim"
    BY <1>5, ClosedTxnVerdict DEF ClaimWithRetryExhausted
  <2>6. Claiming(w) /\ txn[w].item = i
    BY <1>5 DEF ClaimWithRetryExhausted, Claiming
  <2>7. LockStep
    BY <2>1, <2>5, <2>6 DEF LockStep
  <2> QED
    BY <1>5, <2>4, <2>5, <2>7
       DEF QueueStep, TicketStep, AcceptStep, ClaimWithRetryExhausted
<1>6. ASSUME NEW w \in Workers, NEW i \in Items, NEW l \in LeaseIds, AcquireLease(w, i, l)
      PROVE  QueueStep
  <2>1. RowStep /\ TicketStep /\ AcceptStep /\ FailStep
    <3>1. /\ item[i].status \in {"pending", "failed"}
          /\ item'[i] = Granted(i, l)
          /\ \A j \in Items \ {i} : item'[j] = item[j]
          /\ tickets' = tickets \cup {TicketFor(w, i, l)}
          /\ accepted' = accepted
      BY <1>0, <1>6 DEF AcquireLease, GrantWithLease
    <3> QED
      BY <3>1, GrantStep
  <2>2. \A j \in Items \ {i} : item'[j] = item[j]
    BY <1>0, <1>6 DEF AcquireLease, GrantWithLease
  <2>3. LockStep
    BY <1>6, <2>2 DEF LockStep, AcquireLease
  <2> QED
    BY <1>6, <2>1, <2>3, SameTxnVerdict DEF QueueStep, AcquireLease
<1>7. ASSUME NEW w \in Workers, NEW i \in Items, NEW l \in LeaseIds, ClaimWithRetryGrant(w, i, l)
      PROVE  QueueStep
  <2>1. Claiming(w) /\ txn[w].item = i /\ item[i].status = "pending"
    BY <1>7 DEF ClaimWithRetryGrant, LocksHold, Claiming
  <2>2. RowStep /\ TicketStep /\ AcceptStep /\ FailStep
    <3>1. /\ item[i].status \in {"pending", "failed"}
          /\ item'[i] = Granted(i, l)
          /\ \A j \in Items \ {i} : item'[j] = item[j]
          /\ tickets' = tickets \cup {TicketFor(w, i, l)}
          /\ accepted' = accepted
      BY <1>0, <1>7, <2>1 DEF ClaimWithRetryGrant, GrantWithLease
    <3> QED
      BY <3>1, GrantStep
  <2>3. \A j \in Items \ {i} : item'[j] = item[j]
    BY <1>0, <1>7 DEF ClaimWithRetryGrant, GrantWithLease
  <2>4. /\ VerdictStep
        /\ \A v \in Workers : v # w => txn'[v] = txn[v]
        /\ txn'[w].kind # "claim"
    BY <1>7, ClosedTxnVerdict DEF ClaimWithRetryGrant
  <2>5. LockStep
    BY <2>1, <2>3, <2>4 DEF LockStep
  <2> QED
    BY <2>2, <2>4, <2>5 DEF QueueStep
<1>8. ASSUME NEW t \in tickets, CompleteWorkItem(t) PROVE QueueStep
  <2>1. t.item \in Items
    BY DEF TypeOK, Ticket
  <2>2. /\ \A j \in {t.item} : item'[j] = Freed(j, "completed")
        /\ \A j \in Items \ {t.item} : item'[j] = item[j]
    BY <1>0, <1>8, <2>1 DEF CompleteWorkItem
  <2>3. RowStep /\ FailStep
    <3>1. {t.item} \in SUBSET Items /\ "completed" \in {"completed", "cancelled", "dead_letter"}
      BY <2>1
    <3> QED
      BY <2>2, <3>1, FreeStep
  <2>4. item'[t.item].fence = t.fence /\ item'[t.item].status = "completed"
    BY <1>8, <2>1, <2>2, FreedRow DEF CompleteWorkItem, Holds
  <2>5. AcceptStep
    BY <1>8, <2>4 DEF AcceptStep, CompleteWorkItem, Terminal, TerminalStatus
  <2>6. ~Locked(t.item)
    BY <1>8 DEF CompleteWorkItem, Holds, InUse, InUseStatus, LocksHold, Locked, Claiming
  <2>7. LockStep
    BY <1>8, <2>2, <2>6 DEF LockStep, CompleteWorkItem
  <2> QED
    BY <1>8, <2>3, <2>5, <2>7, SameTxnVerdict DEF QueueStep, TicketStep, CompleteWorkItem
<1>9. ASSUME NEW t \in tickets, FailWorkItemRead(t) PROVE QueueStep
  <2>1. t.worker \in Workers /\ txn \in [Workers -> Txn]
    BY DEF TypeOK, Ticket
  <2>2. \A v \in Workers : v # t.worker => txn'[v] = txn[v]
    BY <1>9, <2>1 DEF FailWorkItemRead
  <2>3. /\ txn'[t.worker].kind = "fail" /\ txn'[t.worker].ticket = t
        /\ txn'[t.worker].verdict = IF item[t.item].attempts >= MaxAttempts
                                    THEN "dead_letter" ELSE "failed"
    BY <1>9, <2>1 DEF FailWorkItemRead
  <2>4. item[t.item].attempts \in Nat /\ MaxAttempts \in Nat
    BY ConstantsAssumption, ItemType DEF TypeOK, Ticket, WorkItemRow
  <2>5. VerdictStep
    BY <1>9, <2>2, <2>3, <2>4 DEF VerdictStep, FailTxn, FailWorkItemRead
  <2>6. LockStep
    BY <1>9, <2>1, <2>2, <2>3 DEF LockStep, FailWorkItemRead
  <2> QED
    BY <1>9, <2>5, <2>6
       DEF QueueStep, RowStep, TicketStep, AcceptStep, FailStep, InUse, Terminal, FailWorkItemRead
<1>10. ASSUME NEW w \in Workers, FailWorkItemWrite(w) PROVE QueueStep
  <2> DEFINE t == txn[w].ticket
  <2>1. t \in Ticket /\ t.item \in Items /\ txn[w].verdict \in {"failed", "dead_letter"}
    BY <1>10 DEF TypeOK, FailWorkItemWrite, Txn, NoTxn, Ticket
  <2>2. /\ VerdictStep
        /\ \A v \in Workers : v # w => txn'[v] = txn[v]
        /\ txn'[w].kind # "claim"
    BY <1>10, ClosedTxnVerdict DEF FailWorkItemWrite
  <2>3. CASE Holds(t)
    <3>1. /\ item'[t.item] = Freed(t.item, txn[w].verdict)
          /\ \A j \in Items \ {t.item} : item'[j] = item[j]
      BY <1>0, <1>10, <2>1, <2>3 DEF FailWorkItemWrite
    <3>2. /\ item'[t.item].fence = item[t.item].fence
          /\ item'[t.item].attempts = item[t.item].attempts
          /\ item'[t.item].status = txn[w].verdict
          /\ item[t.item].status \in InUseStatus
      BY <2>1, <2>3, <3>1, FreedRow DEF Holds, InUse
    <3>3. RowStep
      BY <2>1, <3>1, <3>2 DEF RowStep, InUse, InUseStatus, Terminal, TerminalStatus
    <3>4. FailStep
      BY <1>10, <2>1, <2>3, <3>1, <3>2 DEF FailStep, FailTxn, FailWorkItemWrite
    <3>5. ~Locked(t.item)
      BY <3>2 DEF InUseStatus, LocksHold, Locked, Claiming
    <3>6. LockStep
      BY <2>2, <3>1, <3>5 DEF LockStep
    <3> QED
      BY <1>10, <2>2, <3>3, <3>4, <3>6
         DEF QueueStep, TicketStep, AcceptStep, FailWorkItemWrite
  <2>4. CASE ~Holds(t)
    <3>1. item' = item
      BY <1>10, <2>4 DEF FailWorkItemWrite
    <3>2. LockStep
      BY <2>2, <3>1 DEF LockStep
    <3> QED
      BY <1>10, <2>2, <3>1, <3>2
         DEF QueueStep, RowStep, TicketStep, AcceptStep, FailStep, InUse, Terminal, FailWorkItemWrite
  <2> QED
    BY <2>3, <2>4
<1>11. ASSUME NEW w \in Workers, Rollback(w) PROVE QueueStep
  <2>1. /\ VerdictStep
        /\ \A v \in Workers : v # w => txn'[v] = txn[v]
        /\ txn'[w].kind # "claim"
    BY <1>11, ClosedTxnVerdict DEF Rollback
  <2>2. LockStep
    BY <1>11, <2>1 DEF LockStep, Rollback
  <2> QED
    BY <1>11, <2>1, <2>2
       DEF QueueStep, RowStep, TicketStep, AcceptStep, FailStep, InUse, Terminal, Rollback
<1>12. ASSUME NEW S \in SUBSET Items, CancelItems(S) PROVE QueueStep
  <2> DEFINE C == {i \in S : item[i].status \notin TerminalStatus \cup {"absent"}}
  <2>1. /\ \A i \in C : item'[i] = Freed(i, "cancelled")
        /\ \A i \in Items \ C : item'[i] = item[i]
    BY <1>12 DEF CancelItems
  <2>2. RowStep /\ FailStep
    BY <2>1, FreeStep
  <2>3. LockStep
    BY <1>12, <2>1 DEF LockStep, CancelItems
  <2> QED
    BY <1>12, <2>2, <2>3, SameTxnVerdict DEF QueueStep, TicketStep, AcceptStep, CancelItems
<1> QED
  BY <1>1, <1>2, <1>3, <1>4, <1>5, <1>6, <1>7, <1>8, <1>9, <1>10, <1>11, <1>12 DEF ItemNext

LEMMA RecoveryStep ==
    ASSUME TypeOK, LocksHold, RecoveryNext
    PROVE  QueueStep
<1>1. \A i \in Items : InUse(i) => ~Locked(i) /\ ~Terminal(i)
  BY DEF InUse, InUseStatus, Terminal, TerminalStatus, LocksHold, Locked, Claiming
<1>2. ASSUME HandleFailover PROVE QueueStep
  <2>1. \A i \in Items : ~InUse(i) => item'[i] = item[i]
    BY <1>2 DEF HandleFailover
  <2>2. \A i \in Items : InUse(i) => /\ item'[i].fence = item[i].fence + 1
                                     /\ item'[i].status = "pending"
    <3> SUFFICES ASSUME NEW i \in Items, InUse(i)
                 PROVE  item'[i].fence = item[i].fence + 1 /\ item'[i].status = "pending"
      OBVIOUS
    <3>1. item'[i] = [Freed(i, "pending") EXCEPT !.fence = @ + 1, !.version = @ + 1]
      BY <1>2 DEF HandleFailover
    <3>2. Freed(i, "pending") \in WorkItemRow
      BY FreedType, StatusNames
    <3> QED
      BY <3>1, <3>2, FreedRow DEF WorkItemRow
  <2>3. RowStep /\ FailStep
    BY <1>1, <2>1, <2>2 DEF RowStep, FailStep, InUse, InUseStatus, Terminal
  <2>4. LockStep
    BY <1>1, <1>2, <2>1 DEF LockStep, HandleFailover
  <2> QED
    BY <1>2, <2>3, <2>4, SameTxnVerdict DEF QueueStep, TicketStep, AcceptStep, HandleFailover
<1>3. ASSUME NEW w \in Workers, ClaimOrphanedWork(w) PROVE QueueStep
  <2>1. PICK fresh \in [Orphans -> {l \in LeaseIds : lease[l] = NoRow}] :
          /\ item' = [i \in Items |->
                        IF i \in Orphans
                        THEN [Granted(i, fresh[i]) EXCEPT !.version = @ + 1]
                        ELSE item[i]]
          /\ tickets' = tickets \cup {TicketFor(w, i, fresh[i]) : i \in Orphans}
    BY <1>3 DEF ClaimOrphanedWork
  <2>2. \A i \in Orphans : i \in Items /\ InUse(i) /\ fresh[i] \in LeaseIds
    BY DEF Orphans
  <2>3. \A i \in Items \ Orphans : item'[i] = item[i]
    BY <2>1
  <2>4. \A i \in Orphans : item'[i].fence = item[i].fence + 1 /\ item'[i].status = "claimed"
    <3> SUFFICES ASSUME NEW i \in Orphans
                 PROVE  item'[i].fence = item[i].fence + 1 /\ item'[i].status = "claimed"
      OBVIOUS
    <3>1. item'[i] = [Granted(i, fresh[i]) EXCEPT !.version = @ + 1]
      BY <2>1, <2>2
    <3>2. Granted(i, fresh[i]) \in WorkItemRow
      BY <2>2, GrantedType
    <3>3. Granted(i, fresh[i]).fence = item[i].fence + 1 /\ Granted(i, fresh[i]).status = "claimed"
      BY <2>2, GrantedRow
    <3> QED
      BY <3>1, <3>2, <3>3 DEF WorkItemRow
  <2>5. RowStep /\ FailStep
    BY <1>1, <2>2, <2>3, <2>4 DEF RowStep, FailStep, InUse, InUseStatus, Terminal
  <2>6. \A i \in Orphans : \A l : /\ TicketFor(w, i, l).item = i
                                  /\ TicketFor(w, i, l).fence = item[i].fence + 1
    BY DEF TicketFor
  <2>7. TicketStep
    <3>1. tickets' = tickets \cup {TicketFor(w, i, fresh[i]) : i \in Orphans}
      BY <2>1
    <3>2. \A t \in tickets' \ tickets : t.item \in Orphans /\ t = TicketFor(w, t.item, fresh[t.item])
      BY <2>6, <3>1
    <3>3. \A t \in tickets' \ tickets :
             t.fence = item[t.item].fence + 1 /\ item'[t.item].fence = t.fence
      BY <2>4, <2>6, <3>2
    <3>4. \A t, u \in tickets' \ tickets : t.item = u.item => t = u
      BY <3>2
    <3> QED
      BY <3>1, <3>3, <3>4 DEF TicketStep
  <2>8. LockStep
    BY <1>1, <1>3, <2>2, <2>3 DEF LockStep, ClaimOrphanedWork
  <2> QED
    BY <1>3, <2>5, <2>7, <2>8, SameTxnVerdict DEF QueueStep, AcceptStep, ClaimOrphanedWork
<1> QED
  BY <1>2, <1>3 DEF RecoveryNext

LEMMA TimeStep ==
    ASSUME TypeOK, TimeNext
    PROVE  QueueStep
<1>1. ASSUME NEW i \in Items, NEW row \in WorkItemRow,
             row.status = item[i].status, row.fence = item[i].fence,
             row.attempts = item[i].attempts,
             item' = [item EXCEPT ![i] = row], UNCHANGED <<tickets, accepted>>,
             txn' = txn \/ ReadsAged
      PROVE  QueueStep
  <2>1. \A j \in Items : /\ item'[j].status = item[j].status
                         /\ item'[j].fence = item[j].fence
                         /\ item'[j].attempts = item[j].attempts
    BY <1>1 DEF TypeOK
  <2>2. RowStep /\ FailStep /\ LockStep
    BY <1>1, <2>1 DEF RowStep, FailStep, LockStep, InUse, Terminal
  <2>3. VerdictStep
    BY <1>1, SameTxnVerdict DEF VerdictStep, FailTxn, ReadsAged
  <2> QED
    BY <1>1, <2>2, <2>3 DEF QueueStep, TicketStep, AcceptStep
<1>2. ASSUME NEW i \in Items, BecomesAvailable(i) PROVE QueueStep
  <2>1. [item[i] EXCEPT !.available = "past"] \in WorkItemRow
    BY ItemType DEF WorkItemRow, Deadline
  <2>2. item' = [item EXCEPT ![i] = [item[i] EXCEPT !.available = "past"]]
    BY <1>2 DEF BecomesAvailable, TypeOK
  <2> QED
    BY <1>1, <1>2, <2>1, <2>2, ItemType DEF WorkItemRow, BecomesAvailable
<1>3. ASSUME NEW i \in Items, ClaimRunsOut(i) PROVE QueueStep
  <2>1. [item[i] EXCEPT !.expires = "past"] \in WorkItemRow
    BY ItemType DEF WorkItemRow, Deadline
  <2>2. item' = [item EXCEPT ![i] = [item[i] EXCEPT !.expires = "past"]]
    BY <1>3 DEF ClaimRunsOut, TypeOK
  <2>3. ReadsAged
    BY <1>3, RunOutRead DEF ClaimRunsOut, ReadOfClaim, ReadsAged
  <2>4. UNCHANGED <<tickets, accepted>>
    BY <1>3 DEF ClaimRunsOut
  <2> QED
    BY <1>1, <2>1, <2>2, <2>3, <2>4, ItemType DEF WorkItemRow
<1>4. ASSUME NEW l \in LeaseIds, LeaseRunsOut(l) PROVE QueueStep
  BY <1>4, QuietStep DEF LeaseRunsOut
<1>5. ASSUME NEW w \in Workers, FallsSilent(w) PROVE QueueStep
  BY <1>5, QuietStep DEF FallsSilent
<1> QED
  BY <1>2, <1>3, <1>4, <1>5 DEF TimeNext

LEMMA FencedNextStep ==
    ASSUME TypeOK, LocksHold, [FencedNext]_vars
    PROVE  QueueStep
<1>1. LeaseNext => UNCHANGED <<item, tickets, accepted, txn>>
  BY DEF LeaseNext, RenewLease, ReleaseLease, ExpireLeases
<1>2. WorkerNext => UNCHANGED <<item, tickets, accepted, txn>>
  BY DEF WorkerNext, RegisterWorker, Heartbeat, DrainWorker, CompleteDrain, FailWorker,
         DecommissionWorker, SetWorker
<1>3. UNCHANGED vars => UNCHANGED <<item, tickets, accepted, txn>>
  BY DEF vars
<1> QED
  BY <1>1, <1>2, <1>3, QuietStep, ItemStep, RecoveryStep, TimeStep DEF FencedNext

-----------------------------------------------------------------------------
(* The inductive invariant of the fenced deployment.                       *)

\* No ticket is newer than its item's token, and an accepted ticket is the
\* token a finished item keeps.
FenceInv ==
    /\ TokensIssuedOnce
    /\ \A t \in tickets : t.fence <= item[t.item].fence
    /\ \A t \in accepted : Terminal(t.item) /\ t.fence = item[t.item].fence

\* A verdict of "failed" that may still be written is still right.
VerdictInv ==
    /\ FailedHasAttemptsLeft
    /\ \A w \in Workers : FailTxn(w) =>
          /\ txn[w].ticket \in tickets
          /\ txn[w].verdict = "failed" /\ Holds(txn[w].ticket)
                => item[txn[w].ticket.item].attempts < MaxAttempts

FencedInv == TypeOK /\ LocksHold /\ FenceInv /\ VerdictInv

LEMMA FencedInit == Init => FencedInv
<1> SUFFICES ASSUME Init PROVE FencedInv
  OBVIOUS
<1>1. \A i \in Items : item[i].status = "absent"
  BY DEF Init, AbsentItem
<1>2. \A w \in Workers : txn[w].kind = "none"
  BY DEF Init, NoTxn
<1> QED
  BY <1>1, <1>2, TypeInit
     DEF Init, FencedInv, LocksHold, Claiming, FenceInv, TokensIssuedOnce, VerdictInv,
         FailedHasAttemptsLeft, FailTxn

LEMMA FenceInvStep ==
    ASSUME TypeOK, TypeOK', FenceInv, RowStep, TicketStep, AcceptStep
    PROVE  FenceInv'
<1>1. \A t \in tickets : t.item \in Items /\ t.fence \in Nat
  BY DEF TypeOK, Ticket
<1>2. \A t \in tickets' : t.item \in Items /\ t.fence \in Nat
  BY DEF TypeOK, Ticket
<1>3. \A i \in Items : item[i].fence \in Nat /\ item'[i].fence \in Nat
  BY DEF TypeOK, WorkItemRow
<1>4. \A t \in tickets' : t.fence <= item'[t.item].fence
  BY <1>1, <1>2, <1>3 DEF FenceInv, RowStep, TicketStep
<1>5. TokensIssuedOnce'
  <2> SUFFICES ASSUME NEW t \in tickets', NEW u \in tickets', t.item = u.item, t.fence = u.fence
               PROVE  t = u
    BY DEF TokensIssuedOnce
  <2>1. CASE t \in tickets /\ u \in tickets
    BY <2>1 DEF FenceInv, TokensIssuedOnce
  <2>2. CASE t \notin tickets /\ u \notin tickets
    BY <2>2 DEF TicketStep
  <2>3. CASE t \in tickets /\ u \notin tickets
    BY <1>1, <1>3, <2>3 DEF TicketStep, FenceInv
  <2>4. CASE t \notin tickets /\ u \in tickets
    BY <1>1, <1>3, <2>4 DEF TicketStep, FenceInv
  <2> QED
    BY <2>1, <2>2, <2>3, <2>4
<1>6. \A t \in accepted' : Terminal(t.item)' /\ t.fence = item'[t.item].fence
  <2> SUFFICES ASSUME NEW t \in accepted'
               PROVE  Terminal(t.item)' /\ t.fence = item'[t.item].fence
    OBVIOUS
  <2>1. CASE t \in accepted
    <3>1. t.item \in Items /\ Terminal(t.item) /\ t.fence = item[t.item].fence
      BY <1>1, <2>1 DEF FenceInv, TypeOK
    <3> QED
      BY <3>1 DEF RowStep
  <2>2. CASE t \notin accepted
    BY <2>2 DEF AcceptStep
  <2> QED
    BY <2>1, <2>2
<1> QED
  BY <1>4, <1>5, <1>6 DEF FenceInv

LEMMA VerdictInvStep ==
    ASSUME TypeOK, TypeOK', FenceInv, VerdictInv, RowStep, TicketStep, FailStep, VerdictStep
    PROVE  VerdictInv'
<1>1. \A t \in tickets : t.item \in Items /\ t.fence \in Nat /\ t.fence <= item[t.item].fence
  BY DEF TypeOK, Ticket, FenceInv
<1>2. \A i \in Items : item[i].fence \in Nat /\ item'[i].fence \in Nat
  BY DEF TypeOK, WorkItemRow
<1>3. FailedHasAttemptsLeft'
  <2> SUFFICES ASSUME NEW i \in Items, item'[i].status = "failed"
               PROVE  item'[i].attempts < MaxAttempts
    BY DEF FailedHasAttemptsLeft
  <2>1. item'[i].attempts = item[i].attempts
    BY DEF FailStep
  <2>2. item[i].attempts < MaxAttempts
    BY DEF FailStep, VerdictInv, FailedHasAttemptsLeft
  <2> QED
    BY <2>1, <2>2
<1>4. ASSUME NEW w \in Workers, FailTxn(w)', NEW t, t = txn'[w].ticket
      PROVE  /\ t \in tickets'
             /\ /\ txn'[w].verdict = "failed"
                /\ item'[t.item].fence = t.fence
                /\ item'[t.item].status \in InUseStatus
                => item'[t.item].attempts < MaxAttempts
  <2>1. CASE FailTxn(w) /\ txn'[w] = txn[w]
    <3>1. /\ t \in tickets /\ t.item \in Items
          /\ t.fence <= item[t.item].fence /\ t.fence \in Nat
      BY <1>1, <1>4, <2>1 DEF VerdictInv
    <3>2. ASSUME txn'[w].verdict = "failed", item'[t.item].fence = t.fence,
                 item'[t.item].status \in InUseStatus
          PROVE  item'[t.item].attempts < MaxAttempts
      <4>1. item'[t.item].fence # item[t.item].fence + 1
        BY <1>2, <3>1, <3>2
      <4>2. /\ item'[t.item].fence = item[t.item].fence
            /\ item'[t.item].attempts = item[t.item].attempts
            /\ InUse(t.item)
        BY <3>1, <3>2, <4>1 DEF RowStep, InUse
      <4>3. item[t.item].attempts < MaxAttempts
        BY <1>4, <2>1, <3>2, <4>2 DEF VerdictInv, Holds
      <4> QED
        BY <4>2, <4>3
    <3> QED
      BY <3>1, <3>2 DEF TicketStep
  <2>2. CASE /\ item' = item
             /\ txn'[w].ticket \in tickets
             /\ txn'[w].verdict = "failed"
                   => item[txn'[w].ticket.item].attempts < MaxAttempts
    BY <1>4, <2>2 DEF TicketStep
  <2> QED
    BY <1>4, <2>1, <2>2 DEF VerdictStep
<1> QED
  BY <1>3, <1>4 DEF VerdictInv, FailTxn, Holds, InUse

LEMMA FencedInvStep == FencedInv /\ [FencedNext]_vars => FencedInv'
<1> SUFFICES ASSUME FencedInv, [FencedNext]_vars PROVE FencedInv'
  OBVIOUS
<1>1. TypeOK'
  BY TypeFencedNext DEF FencedInv
<1>2. QueueStep
  BY FencedNextStep DEF FencedInv
<1> QED
  BY <1>1, <1>2, LockStepHolds, FenceInvStep, VerdictInvStep DEF FencedInv, QueueStep

LEMMA FencedInvariance == FencedSpec => []FencedInv
BY FencedInit, FencedInvStep, PTL DEF FencedSpec

\* No fencing token of an item is handed out twice: neither by two claims that
\* race for the row nor after any number of takeovers and failovers.
THEOREM FencedTokensIssuedOnce == FencedSpec => []TokensIssuedOnce
<1>1. FencedInv => TokensIssuedOnce
  BY DEF FencedInv, FenceInv
<1> QED
  BY <1>1, FencedInvariance, PTL

\* complete_work_item answers Ok only to the latest claim of an item.
THEOREM FencedCompletion == FencedSpec => []AcceptedIsLatest
<1>1. FencedInv => AcceptedIsLatest
  BY DEF FencedInv, FenceInv, AcceptedIsLatest
<1> QED
  BY <1>1, FencedInvariance, PTL

\* fail_work_item never leaves an item claimable that has used its attempts,
\* although it decides on attempts it read before its update.
THEOREM FencedFailures == FencedSpec => []FailedHasAttemptsLeft
<1>1. FencedInv => FailedHasAttemptsLeft
  BY DEF FencedInv, VerdictInv
<1> QED
  BY <1>1, FencedInvariance, PTL

\* Without the requeue and the optimistic writes a token never goes back.
THEOREM FencedMonotone == FencedSpec => FenceMonotone
<1>1. FencedInv /\ [FencedNext]_vars => [\A i \in Items : item'[i].fence >= item[i].fence]_vars
  <2> SUFFICES ASSUME FencedInv, FencedNext, NEW i \in Items
               PROVE  item'[i].fence >= item[i].fence
    OBVIOUS
  <2>1. QueueStep
    BY FencedNextStep DEF FencedInv
  <2>2. item[i].fence \in Nat
    BY DEF FencedInv, TypeOK, WorkItemRow
  <2> QED
    BY <2>1, <2>2 DEF QueueStep, RowStep
<1> QED
  BY <1>1, FencedInvariance, PTL DEF FencedSpec, FenceMonotone

\* Completed, cancelled and dead-lettered items never return to the queue.
THEOREM FencedTerminal == FencedSpec => TerminalNeverRevived
<1>1. FencedInv /\ [FencedNext]_vars => [\A i \in Items : Terminal(i) => Terminal(i)']_vars
  <2> SUFFICES ASSUME FencedInv, FencedNext, NEW i \in Items, Terminal(i)
               PROVE  Terminal(i)'
    OBVIOUS
  <2>1. QueueStep
    BY FencedNextStep DEF FencedInv
  <2> QED
    BY <2>1 DEF QueueStep, RowStep
<1> QED
  BY <1>1, FencedInvariance, PTL DEF FencedSpec, TerminalNeverRevived
-----------------------------------------------------------------------------
(* The leases rows.  A row is never deleted and keeps its item and token;  *)
(* an item takes a lease id only together with the row it inserts.         *)

RowsKept ==
    \A l \in LeaseIds : lease[l] # NoRow =>
        lease'[l] # NoRow /\ lease'[l].item = lease[l].item /\ lease'[l].fence = lease[l].fence

LeaseNamed ==
    \A i \in Items : item'[i].lease \in LeaseIds =>
        \/ item'[i].lease = item[i].lease /\ item'[i].fence = item[i].fence
        \/ /\ lease'[item'[i].lease] # NoRow
           /\ lease'[item'[i].lease].item = i
           /\ lease'[item'[i].lease].fence = item'[i].fence

LEMMA LeaseMatchStep ==
    ASSUME TypeOK, LeaseRowMatches, RowsKept, LeaseNamed
    PROVE  LeaseRowMatches'
BY DEF TypeOK, LeaseRowMatches, RowsKept, LeaseNamed

\* Steps that write no leases row, and work items without naming another lease.
LEMMA LeaseApart ==
    ASSUME UNCHANGED lease,
           \A i \in Items : item'[i].lease \in LeaseIds =>
               item'[i].lease = item[i].lease /\ item'[i].fence = item[i].fence
    PROVE  RowsKept /\ LeaseNamed
BY DEF RowsKept, LeaseNamed

LEMMA ClosedRow ==
    ASSUME TypeOK, NEW l \in LeaseIds, LiveLease(l), NEW s
    PROVE  /\ Closed(l, s) # NoRow
           /\ Closed(l, s).item = lease[l].item /\ Closed(l, s).fence = lease[l].fence
<1>1. lease[l] \in LeaseRow
  BY LiveLeaseType
<1>2. /\ Closed(l, s).item = lease[l].item /\ Closed(l, s).fence = lease[l].fence
      /\ DOMAIN Closed(l, s) = DOMAIN lease[l] /\ "item" \in DOMAIN lease[l]
  BY <1>1 DEF Closed, LeaseRow
<1>3. "item" \notin DOMAIN NoRow
  BY DEF NoRow
<1>. QED BY <1>2, <1>3

LEMMA FreedNames ==
    ASSUME TypeOK, NEW i \in Items, NEW s
    PROVE  Freed(i, s).lease \notin LeaseIds
BY ItemType, ConstantsAssumption DEF Freed, WorkItemRow

LEMMA NewLeaseRow ==
    ASSUME NEW w, NEW i
    PROVE  /\ NewLease(w, i) # NoRow
           /\ NewLease(w, i).item = i /\ NewLease(w, i).fence = item[i].fence + 1
BY DEF NewLease, NoRow

\* The row of a claim that got a lease, versioned or not.
LEMMA GrantedNames ==
    ASSUME TypeOK, NEW i \in Items, NEW l \in LeaseIds \cup {CallerLease}, NEW v \in Nat
    PROVE  /\ Granted(i, l).lease = l /\ Granted(i, l).fence = item[i].fence + 1
           /\ [Granted(i, l) EXCEPT !.version = v].lease = l
           /\ [Granted(i, l) EXCEPT !.version = v].fence = item[i].fence + 1
<1>1. Granted(i, l) \in WorkItemRow
  BY GrantedType
<1>2. Granted(i, l).lease = l /\ Granted(i, l).fence = item[i].fence + 1
  BY ItemType DEF Granted, WorkItemRow
<1>. QED BY <1>1, <1>2 DEF WorkItemRow

LEMMA GrantLease ==
    ASSUME TypeOK, NEW w \in Workers, NEW i \in Items, NEW l \in LeaseIds, GrantWithLease(w, i, l)
    PROVE  RowsKept /\ LeaseNamed
<1>1. /\ item'[i] = Granted(i, l) /\ \A j \in Items \ {i} : item'[j] = item[j]
      /\ lease[l] = NoRow /\ lease'[l] = NewLease(w, i)
      /\ \A k \in LeaseIds \ {l} : lease'[k] = lease[k]
  BY DEF GrantWithLease, TypeOK
<1>2. item'[i].lease = l /\ item'[i].fence = item[i].fence + 1
  BY <1>1, GrantedNames
<1>3. RowsKept
  BY <1>1 DEF RowsKept
<1>4. LeaseNamed
  BY <1>1, <1>2, NewLeaseRow DEF LeaseNamed
<1>. QED BY <1>3, <1>4

LEMMA ItemLease ==
    ASSUME TypeOK, ItemNext
    PROVE  RowsKept /\ LeaseNamed
<1>0. item \in [Items -> WorkItemRow]
  BY DEF TypeOK
<1>1. ASSUME NEW i \in Items, EnqueueWorkItem(i) PROVE RowsKept /\ LeaseNamed
  <2>1. PICK d \in {"ahead", "past"} :
           item' = [item EXCEPT ![i] = [item[i] EXCEPT !.status = "pending", !.available = d]]
    BY <1>0, <1>1 DEF EnqueueWorkItem
  <2>2. \A j \in Items : item'[j].lease = item[j].lease /\ item'[j].fence = item[j].fence
    BY <1>0, <2>1 DEF WorkItemRow
  <2>. QED BY <1>1, <2>2, LeaseApart DEF EnqueueWorkItem
<1>2. ASSUME NEW i \in Items, DeadLetterWorkItem(i) PROVE RowsKept /\ LeaseNamed
  <2>1. \A j \in Items \ {i} : item'[j] = item[j]
    BY <1>0, <1>2 DEF DeadLetterWorkItem
  <2>2. item'[i].lease \notin LeaseIds
    BY <1>0, <1>2, FreedNames DEF DeadLetterWorkItem
  <2>. QED BY <1>2, <2>1, <2>2, LeaseApart DEF DeadLetterWorkItem
<1>3. ASSUME NEW w \in Workers, NEW i \in Items, ClaimWorkItem(w, i) PROVE RowsKept /\ LeaseNamed
  <2>1. item'[i] = Granted(i, CallerLease) /\ \A j \in Items \ {i} : item'[j] = item[j]
    BY <1>0, <1>3 DEF ClaimWorkItem
  <2>2. item'[i].lease \notin LeaseIds
    BY <2>1, ConstantsAssumption, ItemType DEF Granted, WorkItemRow
  <2>. QED BY <1>3, <2>1, <2>2, LeaseApart DEF ClaimWorkItem
<1>4. ASSUME NEW w \in Workers, NEW i \in Items, ClaimWithRetryBegin(w, i) PROVE RowsKept /\ LeaseNamed
  BY <1>4, LeaseApart DEF ClaimWithRetryBegin
<1>5. ASSUME NEW w \in Workers, NEW i \in Items, ClaimWithRetryExhausted(w, i)
      PROVE  RowsKept /\ LeaseNamed
  <2>1. item' = [item EXCEPT ![i] = [item[i] EXCEPT !.status = "dead_letter"]]
    BY <1>0, <1>5 DEF ClaimWithRetryExhausted
  <2>2. \A j \in Items : item'[j].lease = item[j].lease /\ item'[j].fence = item[j].fence
    BY <1>0, <2>1 DEF WorkItemRow
  <2>. QED BY <1>5, <2>2, LeaseApart DEF ClaimWithRetryExhausted
<1>6. ASSUME NEW w \in Workers, NEW i \in Items, NEW l \in LeaseIds,
             AcquireLease(w, i, l) \/ ClaimWithRetryGrant(w, i, l)
      PROVE  RowsKept /\ LeaseNamed
  BY <1>6, GrantLease DEF AcquireLease, ClaimWithRetryGrant
<1>7. ASSUME NEW t \in tickets, CompleteWorkItem(t) PROVE RowsKept /\ LeaseNamed
  <2>1. t.item \in Items
    BY DEF TypeOK, Ticket
  <2>2. item'[t.item] = Freed(t.item, "completed") /\ \A j \in Items \ {t.item} : item'[j] = item[j]
    BY <1>0, <1>7, <2>1 DEF CompleteWorkItem
  <2>. QED BY <1>7, <2>1, <2>2, FreedNames, LeaseApart DEF CompleteWorkItem
<1>8. ASSUME NEW t \in tickets, FailWorkItemRead(t) PROVE RowsKept /\ LeaseNamed
  BY <1>8, LeaseApart DEF FailWorkItemRead
<1>9. ASSUME NEW w \in Workers, FailWorkItemWrite(w) PROVE RowsKept /\ LeaseNamed
  <2>. DEFINE t == txn[w].ticket
  <2>1. t.item \in Items
    BY <1>9 DEF TypeOK, Txn, NoTxn, Ticket, FailWorkItemWrite
  <2>2. item' = item \/ item' = [item EXCEPT ![t.item] = Freed(t.item, txn[w].verdict)]
    BY <1>9 DEF FailWorkItemWrite
  <2>3. \A j \in Items : item'[j].lease \in LeaseIds => item'[j] = item[j]
    BY <1>0, <2>1, <2>2, FreedNames
  <2>. QED BY <1>9, <2>3, LeaseApart DEF FailWorkItemWrite
<1>10. ASSUME NEW w \in Workers, Rollback(w) PROVE RowsKept /\ LeaseNamed
  BY <1>10, LeaseApart DEF Rollback
<1>11. ASSUME NEW S \in SUBSET Items, CancelItems(S) PROVE RowsKept /\ LeaseNamed
  <2>1. \A j \in Items : item'[j].lease \in LeaseIds => item'[j] = item[j]
    BY <1>11, FreedNames DEF CancelItems
  <2>2. \A l \in LeaseIds : lease'[l] = lease[l] \/ (LiveLease(l) /\ lease'[l] = Closed(l, "released"))
    BY <1>11 DEF CancelItems
  <2>. QED BY <2>1, <2>2, ClosedRow DEF RowsKept, LeaseNamed
<1>. QED
  BY <1>1, <1>2, <1>3, <1>4, <1>5, <1>6, <1>7, <1>8, <1>9, <1>10, <1>11 DEF ItemNext

\* A heartbeat and a deadline that passes change no more than renewed and expires.
LEMMA LeaseTouched ==
    ASSUME TypeOK, NEW l \in LeaseIds, LiveLease(l), NEW r,
           \/ r = [lease[l] EXCEPT !.expires = "ahead", !.renewed = TRUE]
           \/ r = [lease[l] EXCEPT !.expires = "past"]
    PROVE  r # NoRow /\ r.item = lease[l].item /\ r.fence = lease[l].fence
<1>1. lease[l] \in LeaseRow
  BY LiveLeaseType
<1>2. DOMAIN r = DOMAIN lease[l] /\ "item" \in DOMAIN lease[l]
  BY <1>1 DEF LeaseRow
<1>3. "item" \notin DOMAIN NoRow
  BY DEF NoRow
<1>4. r.item = lease[l].item /\ r.fence = lease[l].fence
  BY <1>1 DEF LeaseRow
<1>. QED BY <1>2, <1>3, <1>4

LEMMA LeaseLease ==
    ASSUME TypeOK, LeaseNext
    PROVE  RowsKept /\ LeaseNamed
<1>0. lease \in [LeaseIds -> LeaseRow \cup {NoRow}]
  BY DEF TypeOK
<1>1. UNCHANGED item => LeaseNamed
  BY DEF LeaseNamed
<1>2. ASSUME NEW t \in tickets, RenewLease(t) PROVE RowsKept
  <2>1. /\ lease'[t.lease] = [lease[t.lease] EXCEPT !.expires = "ahead", !.renewed = TRUE]
        /\ \A l \in LeaseIds \ {t.lease} : lease'[l] = lease[l]
    BY <1>0, <1>2 DEF RenewLease
  <2>2. t.lease \in LeaseIds /\ LiveLease(t.lease)
    BY <1>2 DEF RenewLease
  <2>3. /\ lease'[t.lease] # NoRow /\ lease'[t.lease].item = lease[t.lease].item
        /\ lease'[t.lease].fence = lease[t.lease].fence
    BY <2>1, <2>2, LeaseTouched
  <2>. QED BY <2>1, <2>3 DEF RowsKept
<1>3. ASSUME NEW t \in tickets, ReleaseLease(t) PROVE RowsKept
  <2>1. /\ lease'[t.lease] = Closed(t.lease, "released")
        /\ \A l \in LeaseIds \ {t.lease} : lease'[l] = lease[l]
    BY <1>0, <1>3 DEF ReleaseLease
  <2>. QED BY <1>3, <2>1, ClosedRow DEF ReleaseLease, RowsKept
<1>4. ASSUME ExpireLeases PROVE RowsKept
  <2>1. \A l \in LeaseIds : lease'[l] = lease[l] \/ (LiveLease(l) /\ lease'[l] = Closed(l, "expired"))
    BY <1>4 DEF ExpireLeases
  <2>. QED BY <2>1, ClosedRow DEF RowsKept
<1>. QED BY <1>1, <1>2, <1>3, <1>4 DEF LeaseNext, RenewLease, ReleaseLease, ExpireLeases

LEMMA RecoveryLease ==
    ASSUME TypeOK, RecoveryNext
    PROVE  RowsKept /\ LeaseNamed
<1>1. ASSUME HandleFailover PROVE RowsKept /\ LeaseNamed
  <2>1. ASSUME NEW i \in Items, InUse(i) PROVE item'[i].lease \notin LeaseIds
    <3>1. item'[i] = [Freed(i, "pending") EXCEPT !.fence = @ + 1, !.version = @ + 1]
      BY <1>1, <2>1 DEF HandleFailover
    <3>2. Freed(i, "pending") \in WorkItemRow
      BY FreedType, StatusNames
    <3>. QED BY <3>1, <3>2, FreedNames DEF WorkItemRow
  <2>2. \A i \in Items : ~InUse(i) => item'[i] = item[i]
    BY <1>1 DEF HandleFailover
  <2>3. \A l \in LeaseIds : lease'[l] = lease[l] \/ (LiveLease(l) /\ lease'[l] = Closed(l, "expired"))
    BY <1>1 DEF HandleFailover
  <2>. QED BY <2>1, <2>2, <2>3, ClosedRow DEF RowsKept, LeaseNamed
<1>2. ASSUME NEW w \in Workers, ClaimOrphanedWork(w) PROVE RowsKept /\ LeaseNamed
  <2>1. PICK fresh \in [Orphans -> {l \in LeaseIds : lease[l] = NoRow}] :
          /\ \A i, j \in Orphans : fresh[i] = fresh[j] => i = j
          /\ item' = [i \in Items |->
                        IF i \in Orphans
                        THEN [Granted(i, fresh[i]) EXCEPT !.version = @ + 1]
                        ELSE item[i]]
          /\ lease' = [l \in LeaseIds |->
                         IF \E i \in Orphans : fresh[i] = l
                         THEN NewLease(w, CHOOSE i \in Orphans : fresh[i] = l)
                         ELSE IF LiveLease(l) /\ lease[l].item \in Orphans
                              THEN Closed(l, "expired")
                              ELSE lease[l]]
    BY <1>2 DEF ClaimOrphanedWork
  <2>2. \A i \in Orphans : i \in Items /\ fresh[i] \in LeaseIds /\ lease[fresh[i]] = NoRow
    BY DEF Orphans
  <2>3. ASSUME NEW i \in Orphans
        PROVE  /\ item'[i].lease = fresh[i] /\ item'[i].fence = item[i].fence + 1
               /\ lease'[fresh[i]] = NewLease(w, i)
    <3>1. item'[i] = [Granted(i, fresh[i]) EXCEPT !.version = @ + 1]
      BY <2>1, <2>2
    <3>2. Granted(i, fresh[i]).version + 1 \in Nat
      BY <2>2, GrantedType DEF WorkItemRow
    <3>3. item'[i].lease = fresh[i] /\ item'[i].fence = item[i].fence + 1
      BY <2>2, <3>1, <3>2, GrantedNames
    <3>4. i = CHOOSE j \in Orphans : fresh[j] = fresh[i]
      BY <2>1
    <3>5. lease'[fresh[i]] = NewLease(w, CHOOSE j \in Orphans : fresh[j] = fresh[i])
      BY <2>1, <2>2
    <3>. QED BY <3>3, <3>4, <3>5
  <2>4. \A i \in Items \ Orphans : item'[i] = item[i]
    BY <2>1
  <2>5. LeaseNamed
    BY <2>2, <2>3, <2>4, NewLeaseRow DEF LeaseNamed
  <2>6. ASSUME NEW l \in LeaseIds, lease[l] # NoRow
        PROVE  lease'[l] = lease[l] \/ (LiveLease(l) /\ lease'[l] = Closed(l, "expired"))
    BY <2>1, <2>2, <2>6
  <2>7. RowsKept
    BY <2>6, ClosedRow DEF RowsKept
  <2>. QED BY <2>5, <2>7
<1>. QED BY <1>1, <1>2 DEF RecoveryNext

LEMMA TimeLease ==
    ASSUME TypeOK, TimeNext
    PROVE  RowsKept /\ LeaseNamed
<1>0. item \in [Items -> WorkItemRow] /\ lease \in [LeaseIds -> LeaseRow \cup {NoRow}]
  BY DEF TypeOK
<1>1. ASSUME NEW i \in Items, BecomesAvailable(i) PROVE RowsKept /\ LeaseNamed
  <2>1. item' = [item EXCEPT ![i] = [item[i] EXCEPT !.available = "past"]]
    BY <1>0, <1>1 DEF BecomesAvailable
  <2>2. \A j \in Items : item'[j].lease = item[j].lease /\ item'[j].fence = item[j].fence
    BY <1>0, <2>1 DEF WorkItemRow
  <2>. QED BY <1>1, <2>2, LeaseApart DEF BecomesAvailable
<1>2. ASSUME NEW i \in Items, ClaimRunsOut(i) PROVE RowsKept /\ LeaseNamed
  <2>1. item' = [item EXCEPT ![i] = [item[i] EXCEPT !.expires = "past"]]
    BY <1>0, <1>2 DEF ClaimRunsOut
  <2>2. \A j \in Items : item'[j].lease = item[j].lease /\ item'[j].fence = item[j].fence
    BY <1>0, <2>1 DEF WorkItemRow
  <2>3. \A l \in LeaseIds :
           lease'[l] = lease[l] \/ (LiveLease(l) /\ lease'[l] = [lease[l] EXCEPT !.expires = "past"])
    BY <1>2 DEF ClaimRunsOut
  <2>4. RowsKept
    BY <2>3, LeaseTouched DEF RowsKept
  <2>. QED BY <2>2, <2>4 DEF LeaseNamed
<1>3. ASSUME NEW l \in LeaseIds, LeaseRunsOut(l) PROVE RowsKept /\ LeaseNamed
  <2>1. /\ lease'[l] = [lease[l] EXCEPT !.expires = "past"] /\ LiveLease(l)
        /\ \A k \in LeaseIds \ {l} : lease'[k] = lease[k]
    BY <1>0, <1>3 DEF LeaseRunsOut
  <2>2. lease'[l] # NoRow /\ lease'[l].item = lease[l].item /\ lease'[l].fence = lease[l].fence
    BY <2>1, LeaseTouched
  <2>. QED BY <1>3, <2>1, <2>2 DEF RowsKept, LeaseNamed, LeaseRunsOut
<1>4. ASSUME NEW w \in Workers, FallsSilent(w) PROVE RowsKept /\ LeaseNamed
  BY <1>4, LeaseApart DEF FallsSilent
<1>. QED BY <1>1, <1>2, <1>3, <1>4 DEF TimeNext

LEMMA LeaseInvStep ==
    ASSUME TypeOK, LeaseRowMatches, [FencedNext]_vars
    PROVE  LeaseRowMatches'
<1>1. WorkerNext => UNCHANGED <<item, lease>>
  BY DEF WorkerNext, RegisterWorker, Heartbeat, DrainWorker, CompleteDrain, FailWorker,
         DecommissionWorker, SetWorker
<1>2. UNCHANGED vars => UNCHANGED <<item, lease>>
  BY DEF vars
<1>3. UNCHANGED <<item, lease>> => RowsKept /\ LeaseNamed
  BY DEF RowsKept, LeaseNamed
<1>. QED
  BY <1>1, <1>2, <1>3, ItemLease, LeaseLease, RecoveryLease, TimeLease, LeaseMatchStep DEF FencedNext

\* Under races of claims, takeovers and failures the rows stay consistent: no token
\* is issued twice, a failed item has attempts left, and the lease an item in use
\* names is a row of its own with its own token (acquire_lease, fail_work_item,
\* claim_orphaned_work, handle_failover).
THEOREM FencedConsistent == FencedSpec => []ClaimsConsistent
<1>1. Init => LeaseRowMatches
  BY ConstantsAssumption DEF Init, AbsentItem, LeaseRowMatches
<1>2. FencedInv /\ LeaseRowMatches /\ [FencedNext]_vars => LeaseRowMatches'
  BY LeaseInvStep DEF FencedInv
<1>3. FencedInv /\ LeaseRowMatches => ClaimsConsistent
  BY DEF FencedInv, FenceInv, VerdictInv, ClaimsConsistent
<1>4. FencedSpec => []LeaseRowMatches
  BY <1>1, <1>2, FencedInvariance, PTL DEF FencedSpec
<1>. QED BY <1>3, <1>4, FencedInvariance, PTL
-----------------------------------------------------------------------------
(* What recovery finds a claim by, under all operations: the requeue that  *)
(* takes tokens back and the optimistic writes of rows read long ago too.  *)

Findable(row) ==
    /\ row.status \in InUseStatus <=> row.lease # NoLease
    /\ row.status \in InUseStatus <=> row.expires # "none"

\* A row on its way back to the table says of itself what the table says.
WrittenBack == \A w \in Workers : txn[w].kind = "cas" => Findable(txn[w].row)

FoundInv == TypeOK /\ LocksHold /\ NoStrandedClaim /\ WrittenBack

\* What a step may do to rows and to rows read.
FindStep == \A i \in Items : Findable(item[i]) => Findable(item'[i])
ReadStep ==
    \A w \in Workers : txn'[w].kind = "cas" =>
        \/ txn'[w] = txn[w]
        \/ txn[w].kind = "cas" /\ (Findable(txn[w].row) => Findable(txn'[w].row))

LEMMA StrandedRows == NoStrandedClaim <=> \A i \in Items : Findable(item[i])
BY DEF NoStrandedClaim, Findable, InUse

LEMMA StrandedRowsNext == NoStrandedClaim' <=> \A i \in Items : Findable(item'[i])
BY DEF NoStrandedClaim, Findable, InUse

LEMMA GrantedFindable ==
    ASSUME TypeOK, NEW i \in Items, NEW l \in LeaseIds \cup {CallerLease}
    PROVE  Findable(Granted(i, l)) /\ Findable([Granted(i, l) EXCEPT !.version = @ + 1])
<1>1. item[i] \in WorkItemRow
  BY ItemType
<1>2. l # NoLease
  BY ConstantsAssumption
<1>3. /\ Granted(i, l).status = "claimed" /\ Granted(i, l).lease = l /\ Granted(i, l).expires = "ahead"
      /\ [Granted(i, l) EXCEPT !.version = @ + 1].status = "claimed"
      /\ [Granted(i, l) EXCEPT !.version = @ + 1].lease = l
      /\ [Granted(i, l) EXCEPT !.version = @ + 1].expires = "ahead"
  BY <1>1 DEF Granted, WorkItemRow
<1> QED
  BY <1>2, <1>3 DEF Findable, InUseStatus

LEMMA FreedFindable ==
    ASSUME TypeOK, NEW i \in Items, NEW s, s \notin InUseStatus
    PROVE  /\ Findable(Freed(i, s))
           /\ Findable([Freed(i, s) EXCEPT !.fence = @ + 1, !.version = @ + 1])
           /\ Findable([Freed(i, s) EXCEPT !.fence = 0])
<1>1. item[i] \in WorkItemRow
  BY ItemType
<1> DEFINE r == Freed(i, s)
           a == [r EXCEPT !.fence = @ + 1, !.version = @ + 1]
           z == [r EXCEPT !.fence = 0]
<1>2. /\ r.status = s /\ r.lease = NoLease /\ r.expires = "none"
      /\ a.status = s /\ a.lease = NoLease /\ a.expires = "none"
      /\ z.status = s /\ z.lease = NoLease /\ z.expires = "none"
  BY <1>1 DEF Freed, WorkItemRow
<1> QED
  BY <1>2 DEF Findable

LEMMA NotInUse ==
    {"absent", "pending", "failed", "completed", "cancelled", "dead_letter"} \cap InUseStatus = {}
BY DEF InUseStatus

\* The transaction that ends or begins was no optimistic write.
LEMMA ReadKept ==
    ASSUME TypeOK
    PROVE  /\ txn' = txn => ReadStep
           /\ \A v \in Workers : txn' = [txn EXCEPT ![v] = NoTxn] => ReadStep
           /\ \A v \in Workers, i \in Items :
                 txn' = [txn EXCEPT ![v] = [kind |-> "claim", item |-> i]] => ReadStep
           /\ \A v \in Workers : \A t, d :
                 txn' = [txn EXCEPT ![v] = [kind |-> "fail", ticket |-> t, verdict |-> d]] => ReadStep
BY DEF ReadStep, TypeOK, NoTxn

LEMMA ItemFinds ==
    ASSUME TypeOK, LocksHold, ItemNext
    PROVE  FindStep /\ ReadStep
<1>0. item \in [Items -> WorkItemRow] /\ tickets \subseteq Ticket
  BY DEF TypeOK
<1>1. ASSUME NEW i \in Items, EnqueueWorkItem(i) PROVE FindStep /\ ReadStep
  <2>1. PICK when \in {"ahead", "past"} :
           item' = [item EXCEPT ![i] = [@ EXCEPT !.status = "pending", !.available = when]]
    BY <1>1 DEF EnqueueWorkItem
  <2>2. /\ item'[i].status = "pending" /\ item'[i].lease = item[i].lease
        /\ item'[i].expires = item[i].expires
        /\ \A j \in Items \ {i} : item'[j] = item[j]
    BY <1>0, <2>1 DEF WorkItemRow
  <2> QED
    BY <1>1, <2>2, ReadKept, NotInUse DEF FindStep, Findable, EnqueueWorkItem
<1>2. ASSUME NEW i \in Items, DeadLetterWorkItem(i) PROVE FindStep /\ ReadStep
  BY <1>0, <1>2, FreedFindable, ReadKept, NotInUse DEF FindStep, DeadLetterWorkItem
<1>3. ASSUME NEW w \in Workers, NEW i \in Items, ClaimWorkItem(w, i) PROVE FindStep /\ ReadStep
  BY <1>0, <1>3, GrantedFindable, ReadKept DEF FindStep, ClaimWorkItem
<1>4. ASSUME NEW w \in Workers, NEW i \in Items, ClaimWithRetryBegin(w, i) PROVE FindStep /\ ReadStep
  BY <1>4, ReadKept DEF FindStep, ClaimWithRetryBegin
<1>5. ASSUME NEW w \in Workers, NEW i \in Items, ClaimWithRetryExhausted(w, i)
      PROVE  FindStep /\ ReadStep
  <2>1. item[i].status = "pending"
    BY <1>5 DEF ClaimWithRetryExhausted, LocksHold, Claiming
  <2>2. /\ item'[i].status = "dead_letter" /\ item'[i].lease = item[i].lease
        /\ item'[i].expires = item[i].expires
        /\ \A j \in Items \ {i} : item'[j] = item[j]
    BY <1>0, <1>5 DEF ClaimWithRetryExhausted, WorkItemRow
  <2> QED
    BY <1>5, <2>1, <2>2, ReadKept, NotInUse DEF FindStep, Findable, ClaimWithRetryExhausted
<1>6. ASSUME NEW w \in Workers, NEW i \in Items, NEW l \in LeaseIds, AcquireLease(w, i, l)
      PROVE  FindStep /\ ReadStep
  BY <1>0, <1>6, GrantedFindable, ReadKept DEF FindStep, AcquireLease, GrantWithLease
<1>7. ASSUME NEW w \in Workers, NEW i \in Items, NEW l \in LeaseIds, ClaimWithRetryGrant(w, i, l)
      PROVE  FindStep /\ ReadStep
  BY <1>0, <1>7, GrantedFindable, ReadKept DEF FindStep, ClaimWithRetryGrant, GrantWithLease
<1>8. ASSUME NEW t \in tickets, CompleteWorkItem(t) PROVE FindStep /\ ReadStep
  <2>1. t.item \in Items
    BY <1>0 DEF Ticket
  <2> QED
    BY <1>0, <1>8, <2>1, FreedFindable, ReadKept, NotInUse DEF FindStep, CompleteWorkItem
<1>9. ASSUME NEW t \in tickets, FailWorkItemRead(t) PROVE FindStep /\ ReadStep
  <2>1. t.worker \in Workers
    BY <1>0 DEF Ticket
  <2> QED
    BY <1>9, <2>1, ReadKept DEF FindStep, FailWorkItemRead
<1>10. ASSUME NEW w \in Workers, FailWorkItemWrite(w) PROVE FindStep /\ ReadStep
  <2>1. txn[w].ticket.item \in Items /\ txn[w].verdict \in {"failed", "dead_letter"}
    BY <1>10 DEF TypeOK, FailWorkItemWrite, Txn, NoTxn, Ticket
  <2>2. Findable(Freed(txn[w].ticket.item, txn[w].verdict))
    BY <2>1, FreedFindable, NotInUse
  <2> QED
    BY <1>0, <1>10, <2>1, <2>2, ReadKept DEF FindStep, FailWorkItemWrite
<1>11. ASSUME NEW w \in Workers, Rollback(w) PROVE FindStep /\ ReadStep
  BY <1>11, ReadKept DEF FindStep, Rollback
<1>12. ASSUME NEW S \in SUBSET Items, CancelItems(S) PROVE FindStep /\ ReadStep
  BY <1>12, FreedFindable, ReadKept, NotInUse DEF FindStep, CancelItems
<1> QED
  BY <1>1, <1>2, <1>3, <1>4, <1>5, <1>6, <1>7, <1>8, <1>9, <1>10, <1>11, <1>12 DEF ItemNext

LEMMA RecoveryFinds ==
    ASSUME TypeOK, RecoveryNext
    PROVE  FindStep /\ ReadStep
<1>1. ASSUME HandleFailover PROVE FindStep /\ ReadStep
  BY <1>1, FreedFindable, ReadKept, NotInUse DEF FindStep, HandleFailover
<1>2. ASSUME NEW w \in Workers, ClaimOrphanedWork(w) PROVE FindStep /\ ReadStep
  <2>1. PICK fresh \in [Orphans -> {l \in LeaseIds : lease[l] = NoRow}] :
          item' = [i \in Items |->
                     IF i \in Orphans
                     THEN [Granted(i, fresh[i]) EXCEPT !.version = @ + 1]
                     ELSE item[i]]
    BY <1>2 DEF ClaimOrphanedWork
  <2>2. \A i \in Orphans : fresh[i] \in LeaseIds
    OBVIOUS
  <2> QED
    BY <1>2, <2>1, <2>2, GrantedFindable, ReadKept DEF FindStep, ClaimOrphanedWork
<1> QED
  BY <1>1, <1>2 DEF RecoveryNext

\* Time turns a deadline ahead into one past: no claim loses its deadline.
LEMMA TimeFinds ==
    ASSUME TypeOK, TimeNext
    PROVE  FindStep /\ ReadStep
<1>0. item \in [Items -> WorkItemRow]
  BY DEF TypeOK
<1>1. ASSUME NEW i \in Items, BecomesAvailable(i) PROVE FindStep /\ ReadStep
  <2>1. /\ item'[i].status = item[i].status /\ item'[i].lease = item[i].lease
        /\ item'[i].expires = item[i].expires
        /\ \A j \in Items \ {i} : item'[j] = item[j]
    BY <1>0, <1>1 DEF BecomesAvailable, WorkItemRow
  <2> QED
    BY <1>1, <2>1, ReadKept DEF FindStep, Findable, BecomesAvailable
<1>2. ASSUME NEW i \in Items, ClaimRunsOut(i) PROVE FindStep /\ ReadStep
  <2>1. /\ item'[i].status = item[i].status /\ item'[i].lease = item[i].lease
        /\ item'[i].expires = "past" /\ item[i].expires = "ahead"
        /\ \A j \in Items \ {i} : item'[j] = item[j]
    BY <1>0, <1>2 DEF ClaimRunsOut, WorkItemRow
  <2> QED
    <3>1. FindStep
      BY <2>1 DEF FindStep, Findable
    <3>2. ASSUME NEW w \in Workers, ReadOfClaim(w, i)
          PROVE  Findable(txn[w].row) => Findable([txn[w].row EXCEPT !.expires = "past"])
      BY <3>2, RunOutRead DEF Findable, WorkItemRow, ReadOfClaim
    <3>3. ReadStep
      BY <1>2, <3>2, RunOutRead DEF ReadStep, ClaimRunsOut, ReadOfClaim
    <3> QED
      BY <3>1, <3>3
<1>3. ASSUME NEW l \in LeaseIds, LeaseRunsOut(l) PROVE FindStep /\ ReadStep
  BY <1>3, ReadKept DEF FindStep, LeaseRunsOut
<1>4. ASSUME NEW w \in Workers, FallsSilent(w) PROVE FindStep /\ ReadStep
  BY <1>4, ReadKept DEF FindStep, FallsSilent
<1> QED
  BY <1>1, <1>2, <1>3, <1>4 DEF TimeNext

LEMMA FindsFurther ==
    ASSUME FoundInv, FindStep, ReadStep
    PROVE  NoStrandedClaim' /\ WrittenBack'
BY StrandedRows, StrandedRowsNext DEF FoundInv, FindStep, ReadStep, WrittenBack

LEMMA FoundByFenced ==
    ASSUME FoundInv, [FencedNext]_vars
    PROVE  FoundInv'
<1>1. TypeOK'
  BY TypeFencedNext DEF FoundInv
<1>2. LocksHold'
  BY FencedNextStep, LockStepHolds DEF FoundInv, QueueStep
<1>3. FindStep /\ ReadStep
  <2>1. LeaseNext => UNCHANGED <<item, txn>>
    BY DEF LeaseNext, RenewLease, ReleaseLease, ExpireLeases
  <2>2. WorkerNext => UNCHANGED <<item, txn>>
    BY DEF WorkerNext, RegisterWorker, Heartbeat, DrainWorker, CompleteDrain, FailWorker,
           DecommissionWorker, SetWorker
  <2>3. UNCHANGED vars => UNCHANGED <<item, txn>>
    BY DEF vars
  <2>4. UNCHANGED <<item, txn>> => FindStep /\ ReadStep
    BY DEF FindStep, ReadStep
  <2> QED
    BY <2>1, <2>2, <2>3, <2>4, ItemFinds, RecoveryFinds, TimeFinds DEF FencedNext, FoundInv
<1> QED
  BY <1>1, <1>2, <1>3, FindsFurther DEF FoundInv

\* A claim that holds its row locked keeps it pending over the requeue, which
\* frees rows in use only, and over optimistic writes, which wait for the lock.
LEMMA FoundByRest ==
    ASSUME FoundInv, RequeueExpiredLeases \/ CasNext
    PROVE  FoundInv'
<1>0. TypeOK /\ TypeOK' /\ txn \in [Workers -> Txn] /\ item \in [Items -> WorkItemRow]
  BY TypeNext DEF Next, FoundInv, TypeOK
<1>1. ASSUME RequeueExpiredLeases PROVE FoundInv'
  <2>1. FindStep /\ ReadStep
    BY <1>0, <1>1, FreedFindable, ReadKept, NotInUse DEF FindStep, RequeueExpiredLeases
  <2>2. \A i \in Items : item[i].status = "pending" => item'[i] = item[i]
    BY <1>1 DEF RequeueExpiredLeases, InUse, InUseStatus
  <2>3. \A w \in Workers : Claiming(w) => txn[w].item \in Items
    BY <1>0, ClaimTxnType
  <2>4. LocksHold'
    BY <1>1, <2>2, <2>3 DEF FoundInv, LocksHold, Claiming, RequeueExpiredLeases
  <2> QED
    BY <1>0, <2>1, <2>4, FindsFurther DEF FoundInv
<1>2. ASSUME NEW w \in Workers, NEW i \in Items, CasRead(w, i) PROVE FoundInv'
  <2>1. PICK s \in {item[i].status} \cup (IF item[i].status = "claimed" THEN {"running"} ELSE {}) :
          txn' = [txn EXCEPT ![w] = [kind |-> "cas", item |-> i,
                                     row |-> [item[i] EXCEPT !.status = s]]]
    BY <1>2 DEF CasRead
  <2>2. /\ txn'[w].kind = "cas" /\ txn'[w].row = [item[i] EXCEPT !.status = s]
        /\ \A v \in Workers : v # w => txn'[v] = txn[v]
    BY <1>0, <2>1
  <2>3. item' = item
    BY <1>2 DEF CasRead
  <2>4. s \in InUseStatus <=> item[i].status \in InUseStatus
    BY <2>1 DEF InUseStatus
  <2>5. Findable(txn'[w].row)
    <3>1. /\ txn'[w].row.status = s /\ txn'[w].row.lease = item[i].lease
          /\ txn'[w].row.expires = item[i].expires
      BY <1>0, <2>2 DEF WorkItemRow
    <3> QED
      BY <2>4, <3>1, StrandedRows DEF FoundInv, Findable
  <2>6. WrittenBack'
    BY <2>2, <2>5 DEF FoundInv, WrittenBack
  <2>7. LocksHold'
    BY <2>2, <2>3 DEF FoundInv, LocksHold, Claiming
  <2>8. NoStrandedClaim'
    BY <2>3, StrandedRows, StrandedRowsNext DEF FoundInv
  <2> QED
    BY <1>0, <2>6, <2>7, <2>8 DEF FoundInv
<1>3. ASSUME NEW w \in Workers, CasWrite(w) PROVE FoundInv'
  <2> DEFINE i == txn[w].item
             row == txn[w].row
  <2>1. i \in Items /\ row \in WorkItemRow /\ Findable(row) /\ ~Locked(i)
    BY <1>0, <1>3 DEF CasWrite, Txn, NoTxn, FoundInv, WrittenBack
  <2>2. /\ \A v \in Workers : v # w => txn'[v] = txn[v]
        /\ txn'[w].kind = "none"
    BY <1>0, <1>3 DEF CasWrite, NoTxn
  <2>3. \A j \in Items : j # i => item'[j] = item[j]
    BY <1>0, <1>3 DEF CasWrite
  <2>4. item'[i] = item[i] \/ item'[i] = [row EXCEPT !.version = @ + 1]
    BY <1>0, <1>3, <2>1 DEF CasWrite
  <2>5. Findable([row EXCEPT !.version = @ + 1])
    <3>1. /\ [row EXCEPT !.version = @ + 1].status = row.status
          /\ [row EXCEPT !.version = @ + 1].lease = row.lease
          /\ [row EXCEPT !.version = @ + 1].expires = row.expires
      BY <2>1 DEF WorkItemRow
    <3> QED
      BY <2>1, <3>1 DEF Findable
  <2>6. FindStep /\ ReadStep
    <3> HIDE DEF i, row
    <3>1. FindStep
      BY <2>3, <2>4, <2>5 DEF FindStep
    <3>2. ReadStep
      BY <2>2 DEF ReadStep
    <3> QED
      BY <3>1, <3>2
  <2>7. \A v \in Workers : Claiming(v) => txn[v].item \in Items /\ txn[v].item # i
    BY <1>0, <2>1, ClaimTxnType DEF Locked, Claiming
  <2>8. LocksHold'
    <3> HIDE DEF i, row
    <3> QED
      BY <2>2, <2>3, <2>7 DEF FoundInv, LocksHold, Claiming
  <2> QED
    BY <1>0, <2>6, <2>8, FindsFurther DEF FoundInv
<1> QED
  BY <1>1, <1>2, <1>3 DEF CasNext

\* Under every operation, update_work_item_cas and requeue_expired_leases included,
\* an item has a lease id and a deadline exactly while it is claimed or running: no
\* claim is left that neither the requeue nor claim_orphaned_work would find.
THEOREM NeverStranded == Spec => []NoStrandedClaim
<1>1. Init => FoundInv
  BY TypeInit, ConstantsAssumption
     DEF Init, FoundInv, LocksHold, Claiming, NoTxn, NoStrandedClaim, InUse, InUseStatus, AbsentItem,
         WrittenBack
<1>2. FoundInv /\ [Next]_vars => FoundInv'
  BY FoundByFenced, FoundByRest DEF Next
<1>3. FoundInv => NoStrandedClaim
  BY DEF FoundInv
<1> QED
  BY <1>1, <1>2, <1>3, PTL DEF Spec
=============================================================================
