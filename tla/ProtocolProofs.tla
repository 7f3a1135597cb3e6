---------------------------- MODULE ProtocolProofs --------------------------
(***************************************************************************)
(* Proofs about five protocols of the durable store: the outbox hands      *)
(* every event out once and in order, an idempotency key has one answer,   *)
(* the effect journal accounts for everything sent downstream, a stream has*)
(* one owner, and the circuit breaker in the database implements the one in*)
(* memory and counts what was reported; for any number of rows, publishers,*)
(* clients, workers and attempts.                                          *)
(***************************************************************************)
EXTENDS Idempotency, EffectJournal, Outbox, StreamOwnership, CircuitStore,
        FiniteSetTheorems, TLAPS

(***************************************************************************)
(* The outbox.                                                             *)
(***************************************************************************)

\* A row somebody has locked is still pending, and no two transactions lock it.
LocksHeld ==
    \A p \in Publishers : \A e \in locked[p] :
        /\ outbox[e].status = "pending"
        /\ \A q \in Publishers \ {p} : e \notin locked[q]

\* An event was returned at most once, and only when its row left "pending".
ReturnedOnce ==
    \A e \in Events :
        /\ handed[e] = 0 \/ handed[e] = 1
        /\ handed[e] = 1 => InOutbox(e) /\ outbox[e].status # "pending"
        /\ tried[e] <= handed[e]

\* An undelivered event is with the one publisher it was returned to.
InOneHand ==
    \A p \in Publishers : \A e \in inHand[p] :
        /\ handed[e] = 1 /\ tried[e] = 0
        /\ \A q \in Publishers \ {p} : e \notin inHand[q]

OutboxInv == OutboxTypeOK /\ LocksHeld /\ ReturnedOnce /\ InOneHand

LEMMA OutboxTypes ==
    OutboxTypeOK <=>
        /\ outbox \in [Events -> OutboxRow \cup {NoEvent}]
        /\ locked \in [Publishers -> SUBSET Events]
        /\ inHand \in [Publishers -> SUBSET Events]
        /\ handed \in [Events -> Nat]
        /\ tried \in [Events -> Nat]
BY DEF OutboxTypeOK

LEMMA InitOutbox == OutboxInit => OutboxInv
BY OutboxTypes DEF OutboxInit, OutboxInv, LocksHeld, ReturnedOnce, InOneHand, InOutbox

LEMMA EnqueueOutbox ==
    ASSUME OutboxInv, NEW e \in Events, NEW t \in Times, NEW s \in OutboxStatuses,
           Enqueue(e, t, s)
    PROVE  OutboxInv'
<1>1. [status |-> s, created |-> t, attempts |-> 0] \in OutboxRow
  BY DEF OutboxRow, OutboxStatuses
<1>2. OutboxTypeOK'
  BY <1>1, OutboxTypes DEF OutboxInv, OutboxTypeOK, Enqueue
<1>3. \A d \in Events \ {e} : outbox'[d] = outbox[d]
  BY OutboxTypes DEF OutboxInv, Enqueue
<1>4. outbox[e] = NoEvent /\ outbox[e].status = "absent"
  BY OutboxTypes DEF OutboxInv, Enqueue, InOutbox, NoEvent
<1>5. LocksHeld'
  BY <1>3, <1>4 DEF OutboxInv, LocksHeld, Enqueue
<1>6. ReturnedOnce'
  BY <1>3, <1>4 DEF OutboxInv, ReturnedOnce, InOutbox, Enqueue
<1>7. InOneHand'
  BY DEF OutboxInv, InOneHand, Enqueue
<1>. QED BY <1>2, <1>5, <1>6, <1>7 DEF OutboxInv

LEMMA DeadLetterOutbox ==
    ASSUME OutboxInv, NEW e \in Events, DeadLetterEvent(e)
    PROVE  OutboxInv'
<1>1. outbox[e] \in OutboxRow /\ \A p \in Publishers : e \notin locked[p]
  BY OutboxTypes DEF OutboxInv, DeadLetterEvent, InOutbox, RowsLocked
<1>2. [outbox[e] EXCEPT !.status = "dead_lettered"] \in OutboxRow
  BY <1>1 DEF OutboxRow, OutboxStatuses
<1>3. OutboxTypeOK'
  BY <1>2, OutboxTypes DEF OutboxInv, OutboxTypeOK, DeadLetterEvent
<1>4. \A d \in Events \ {e} : outbox'[d] = outbox[d]
  BY OutboxTypes DEF OutboxInv, DeadLetterEvent
<1>5. outbox'[e] \in OutboxRow /\ outbox'[e].status = "dead_lettered"
  BY <1>1, <1>2, OutboxTypes DEF OutboxInv, DeadLetterEvent, OutboxRow, OutboxStatuses
<1>6. LocksHeld'
  BY <1>1, <1>4 DEF OutboxInv, LocksHeld, DeadLetterEvent
<1>7. ReturnedOnce'
  BY <1>4, <1>5 DEF OutboxInv, ReturnedOnce, InOutbox, DeadLetterEvent, OutboxRow, OutboxStatuses, NoEvent
<1>8. InOneHand'
  BY DEF OutboxInv, InOneHand, DeadLetterEvent
<1>. QED BY <1>3, <1>6, <1>7, <1>8 DEF OutboxInv

LEMMA SelectOutbox ==
    ASSUME OutboxInv, NEW p \in Publishers, SelectBatch(p)
    PROVE  OutboxInv'
<1>1. Batch \subseteq Events /\ \A e \in Batch : outbox[e].status = "pending" /\ e \notin RowsLocked
  BY DEF Batch, Free, PendingEvents
<1>2. locked'[p] = Batch /\ \A q \in Publishers \ {p} : locked'[q] = locked[q]
  BY OutboxTypes DEF OutboxInv, SelectBatch
<1>3. OutboxTypeOK'
  BY <1>1, OutboxTypes DEF OutboxInv, OutboxTypeOK, SelectBatch
<1>4. LocksHeld'
  <2>. SUFFICES ASSUME NEW q \in Publishers, NEW e \in locked'[q]
                PROVE  /\ outbox[e].status = "pending"
                       /\ \A r \in Publishers \ {q} : e \notin locked'[r]
    BY DEF LocksHeld, SelectBatch
  <2>1. CASE q = p
    BY <1>1, <1>2, <2>1 DEF RowsLocked
  <2>2. CASE q # p
    <3>1. e \in locked[q]
      BY <1>2, <2>2
    <3>2. e \notin Batch
      BY <1>1, <3>1 DEF RowsLocked
    <3>. QED BY <1>2, <3>1, <3>2 DEF OutboxInv, LocksHeld
  <2>. QED BY <2>1, <2>2
<1>5. ReturnedOnce' /\ InOneHand'
  BY DEF OutboxInv, ReturnedOnce, InOneHand, InOutbox, SelectBatch
<1>. QED BY <1>3, <1>4, <1>5 DEF OutboxInv

LEMMA PublishOutbox ==
    ASSUME OutboxInv, NEW p \in Publishers, Publish(p)
    PROVE  OutboxInv'
<1>1. /\ locked[p] \subseteq Events
      /\ locked'[p] = {} /\ \A q \in Publishers \ {p} : locked'[q] = locked[q]
      /\ inHand'[p] = inHand[p] \cup locked[p]
      /\ \A q \in Publishers \ {p} : inHand'[q] = inHand[q]
  BY OutboxTypes DEF OutboxInv, Publish
<1>2. ASSUME NEW e \in locked[p]
      PROVE  /\ outbox[e] \in OutboxRow /\ outbox[e].status = "pending"
             /\ handed[e] = 0 /\ tried[e] = 0
             /\ \A q \in Publishers : e \notin inHand[q]
             /\ \A q \in Publishers \ {p} : e \notin locked[q]
  <2>1. outbox[e].status = "pending" /\ \A q \in Publishers \ {p} : e \notin locked[q]
    BY <1>1 DEF OutboxInv, LocksHeld
  <2>2. outbox[e] \in OutboxRow
    BY <1>1, <2>1, OutboxTypes DEF OutboxInv, NoEvent
  <2>3. handed[e] = 0 /\ tried[e] = 0
    BY <1>1, <2>1, OutboxTypes DEF OutboxInv, ReturnedOnce
  <2>4. \A q \in Publishers : e \notin inHand[q]
    BY <2>3 DEF OutboxInv, InOneHand
  <2>. QED BY <2>1, <2>2, <2>3, <2>4
<1>3. ASSUME NEW e \in locked[p]
      PROVE  /\ outbox'[e] \in OutboxRow /\ outbox'[e].status = "published"
             /\ handed'[e] = 1
  <2>1. outbox'[e] = [outbox[e] EXCEPT !.status = "published", !.attempts = @ + 1]
    BY <1>1 DEF Publish
  <2>2. outbox[e].attempts + 1 \in Nat
    BY <1>2 DEF OutboxRow, OutboxStatuses
  <2>3. outbox'[e] \in OutboxRow /\ outbox'[e].status = "published"
    BY <1>2, <2>1, <2>2 DEF OutboxRow, OutboxStatuses
  <2>4. e \in Events /\ handed'[e] = handed[e] + 1
    BY <1>1 DEF Publish
  <2>. QED BY <1>2, <2>3, <2>4
<1>4. ASSUME NEW e \in Events, e \notin locked[p]
      PROVE  outbox'[e] = outbox[e] /\ handed'[e] = handed[e]
  <2>1. handed'[e] = handed[e] + 0 /\ outbox'[e] = outbox[e]
    BY <1>4 DEF Publish
  <2>2. handed[e] \in Nat
    BY OutboxTypes DEF OutboxInv
  <2>. QED BY <2>1, <2>2
<1>5. OutboxTypeOK'
  <2>1. DOMAIN outbox' = Events /\ outbox' = [e \in Events |-> outbox'[e]]
    BY DEF Publish
  <2>2. \A e \in Events : outbox'[e] \in OutboxRow \cup {NoEvent}
    BY <1>3, <1>4, OutboxTypes DEF OutboxInv
  <2>3. handed' = [e \in Events |-> handed'[e]]
    BY DEF Publish
  <2>4. \A e \in Events : handed'[e] \in Nat
    BY <1>3, <1>4, OutboxTypes DEF OutboxInv
  <2>5. outbox' \in [Events -> OutboxRow \cup {NoEvent}] /\ handed' \in [Events -> Nat]
    BY <2>1, <2>2, <2>3, <2>4
  <2>6. locked' \in [Publishers -> SUBSET Events] /\ inHand' \in [Publishers -> SUBSET Events]
    BY <1>1, OutboxTypes DEF OutboxInv, Publish
  <2>. QED BY <2>5, <2>6, OutboxTypes DEF OutboxInv, OutboxTypeOK, Publish
<1>6. LocksHeld'
  <2>. SUFFICES ASSUME NEW q \in Publishers \ {p}, NEW e \in locked[q]
                PROVE  /\ outbox'[e].status = "pending"
                       /\ \A r \in Publishers \ {q} : e \notin locked'[r]
    BY <1>1 DEF LocksHeld
  <2>1. e \in Events /\ e \notin locked[p]
    BY OutboxTypes DEF OutboxInv, LocksHeld
  <2>. QED BY <1>1, <1>4, <2>1 DEF OutboxInv, LocksHeld
<1>7. ReturnedOnce'
  <2>. SUFFICES ASSUME NEW e \in Events
                PROVE  /\ handed'[e] = 0 \/ handed'[e] = 1
                       /\ handed'[e] = 1 => outbox'[e] # NoEvent /\ outbox'[e].status # "pending"
                       /\ tried[e] <= handed'[e]
    BY DEF ReturnedOnce, InOutbox, Publish
  <2>1. CASE e \in locked[p]
    BY <1>2, <1>3, <2>1 DEF OutboxRow, OutboxStatuses, NoEvent
  <2>2. CASE e \notin locked[p]
    BY <1>4, <2>2 DEF OutboxInv, ReturnedOnce, InOutbox
  <2>. QED BY <2>1, <2>2
<1>8. InOneHand'
  <2>. SUFFICES ASSUME NEW q \in Publishers, NEW e \in inHand'[q]
                PROVE  /\ handed'[e] = 1 /\ tried[e] = 0
                       /\ \A r \in Publishers \ {q} : e \notin inHand'[r]
    BY DEF InOneHand, Publish
  <2>1. CASE e \in inHand[q]
    BY <1>1, <1>2, <1>4, <2>1, OutboxTypes DEF OutboxInv, InOneHand
  <2>2. CASE e \notin inHand[q]
    BY <1>1, <1>2, <1>3, <2>2
  <2>. QED BY <2>1, <2>2
<1>. QED BY <1>5, <1>6, <1>7, <1>8 DEF OutboxInv

\* What Deliver and DeliveryFails do alike: the event leaves the hand, tried.
LEMMA TriedOutbox ==
    ASSUME OutboxInv, NEW p \in Publishers, NEW e \in inHand[p],
           inHand' = [inHand EXCEPT ![p] = @ \ {e}],
           tried' = [tried EXCEPT ![e] = @ + 1],
           UNCHANGED handed
    PROVE  /\ inHand' \in [Publishers -> SUBSET Events] /\ tried' \in [Events -> Nat]
           /\ \A d \in Events : tried'[d] <= handed'[d]
           /\ InOneHand'
<1>1. e \in Events /\ handed[e] = 1 /\ tried[e] = 0 /\ \A q \in Publishers \ {p} : e \notin inHand[q]
  BY OutboxTypes DEF OutboxInv, InOneHand
<1>2. tried'[e] = 1 /\ \A d \in Events \ {e} : tried'[d] = tried[d]
  BY <1>1, OutboxTypes DEF OutboxInv
<1>3. inHand'[p] = inHand[p] \ {e} /\ \A q \in Publishers \ {p} : inHand'[q] = inHand[q]
  BY OutboxTypes DEF OutboxInv
<1>4. inHand' \in [Publishers -> SUBSET Events] /\ tried' \in [Events -> Nat]
  BY <1>1, OutboxTypes DEF OutboxInv
<1>5. \A d \in Events : tried'[d] <= handed'[d]
  BY <1>1, <1>2 DEF OutboxInv, ReturnedOnce
<1>6. InOneHand'
  <2>. SUFFICES ASSUME NEW q \in Publishers, NEW d \in inHand'[q]
                PROVE  /\ handed[d] = 1 /\ tried'[d] = 0
                       /\ \A r \in Publishers \ {q} : d \notin inHand'[r]
    BY DEF InOneHand
  <2>1. d \in inHand[q] /\ d # e /\ d \in Events
    BY <1>1, <1>3, OutboxTypes DEF OutboxInv
  <2>. QED BY <1>2, <1>3, <2>1 DEF OutboxInv, InOneHand
<1>. QED BY <1>4, <1>5, <1>6

LEMMA DeliverOutbox ==
    ASSUME OutboxInv, NEW p \in Publishers, NEW e \in inHand[p], Deliver(p, e)
    PROVE  OutboxInv'
<1>1. /\ inHand' \in [Publishers -> SUBSET Events] /\ tried' \in [Events -> Nat]
      /\ \A d \in Events : tried'[d] <= handed'[d]
      /\ InOneHand'
  BY TriedOutbox DEF Deliver
<1>2. UNCHANGED <<outbox, locked, handed>>
  BY DEF Deliver
<1>3. OutboxTypeOK'
  BY <1>1, <1>2, OutboxTypes DEF OutboxInv, OutboxTypeOK
<1>4. LocksHeld' /\ ReturnedOnce'
  BY <1>1, <1>2 DEF OutboxInv, LocksHeld, ReturnedOnce, InOutbox
<1>. QED BY <1>1, <1>3, <1>4 DEF OutboxInv

LEMMA DeliveryFailsOutbox ==
    ASSUME OutboxInv, NEW p \in Publishers, NEW e \in inHand[p], DeliveryFails(p, e)
    PROVE  OutboxInv'
<1>1. /\ inHand' \in [Publishers -> SUBSET Events] /\ tried' \in [Events -> Nat]
      /\ \A d \in Events : tried'[d] <= handed'[d]
      /\ InOneHand'
  BY TriedOutbox DEF DeliveryFails
<1>2. UNCHANGED <<locked, handed>> /\ outbox' = MarkedFailed(e)
  BY DEF DeliveryFails
<1>3. e \in Events /\ handed[e] = 1
  BY OutboxTypes DEF OutboxInv, InOneHand
<1>4. outbox[e] \in OutboxRow /\ outbox[e].status # "pending"
  BY <1>3, OutboxTypes DEF OutboxInv, ReturnedOnce, InOutbox
<1>5. \A q \in Publishers : e \notin locked[q]
  BY <1>4 DEF OutboxInv, LocksHeld
<1>6. outbox'[e] \in OutboxRow /\ outbox'[e].status = "failed"
  <2>1. outbox'[e] = [outbox[e] EXCEPT !.status = "failed", !.attempts = @ + 1]
    BY <1>2, <1>3, OutboxTypes DEF OutboxInv, MarkedFailed
  <2>2. outbox[e].attempts + 1 \in Nat
    BY <1>4 DEF OutboxRow, OutboxStatuses
  <2>. QED BY <1>4, <2>1, <2>2 DEF OutboxRow, OutboxStatuses
<1>7. \A d \in Events \ {e} : outbox'[d] = outbox[d]
  BY <1>2, OutboxTypes DEF OutboxInv, MarkedFailed
<1>8. OutboxTypeOK'
  <2>1. outbox' = [d \in Events |-> outbox'[d]]
    BY <1>2, OutboxTypes DEF OutboxInv, MarkedFailed
  <2>2. \A d \in Events : outbox'[d] \in OutboxRow \cup {NoEvent}
    BY <1>6, <1>7, OutboxTypes DEF OutboxInv
  <2>3. outbox' \in [Events -> OutboxRow \cup {NoEvent}]
    BY <2>1, <2>2
  <2>. QED BY <1>1, <1>2, <2>3, OutboxTypes DEF OutboxInv, OutboxTypeOK
<1>9. LocksHeld'
  BY <1>2, <1>5, <1>7, OutboxTypes DEF OutboxInv, LocksHeld
<1>10. ReturnedOnce'
  BY <1>1, <1>2, <1>6, <1>7 DEF OutboxInv, ReturnedOnce, InOutbox, OutboxRow, OutboxStatuses, NoEvent
<1>. QED BY <1>1, <1>8, <1>9, <1>10 DEF OutboxInv

LEMMA CrashOutbox ==
    ASSUME OutboxInv, NEW p \in Publishers, PublisherCrash(p)
    PROVE  OutboxInv'
<1>1. /\ locked'[p] = {} /\ \A q \in Publishers \ {p} : locked'[q] = locked[q]
      /\ inHand'[p] = {} /\ \A q \in Publishers \ {p} : inHand'[q] = inHand[q]
  BY OutboxTypes DEF OutboxInv, PublisherCrash
<1>2. OutboxTypeOK'
  BY OutboxTypes DEF OutboxInv, OutboxTypeOK, PublisherCrash
<1>3. LocksHeld'
  BY <1>1 DEF OutboxInv, LocksHeld, PublisherCrash
<1>4. ReturnedOnce' /\ InOneHand'
  BY <1>1 DEF OutboxInv, ReturnedOnce, InOneHand, InOutbox, PublisherCrash
<1>. QED BY <1>2, <1>3, <1>4 DEF OutboxInv

LEMMA NextOutbox == OutboxInv /\ [OutboxNext]_outboxVars => OutboxInv'
<1>1. OutboxInv /\ UNCHANGED outboxVars => OutboxInv'
  BY OutboxTypes
  DEF OutboxInv, OutboxTypeOK, LocksHeld, ReturnedOnce, InOneHand, InOutbox, outboxVars
<1>. QED
  BY <1>1, EnqueueOutbox, DeadLetterOutbox, SelectOutbox, PublishOutbox, DeliverOutbox,
     DeliveryFailsOutbox, CrashOutbox
  DEF OutboxNext

LEMMA OutboxInvariant == OutboxSpec => []OutboxInv
<1>. QED BY InitOutbox, NextOutbox, PTL DEF OutboxSpec

\* What a batch takes it takes with everything older that is free.
LEMMA BatchClosed ==
    ASSUME OutboxTypeOK, NEW e \in Batch, NEW d \in Free, Older(d, e)
    PROVE  d \in Batch
<1>. DEFINE Before(x) == {f \in Free : Older(f, x)}
<1>1. IsFiniteSet(Free)
  BY BatchAssumption, FS_Subset DEF Free, PendingEvents
<1>2. \A f \in Free : outbox[f].created \in Nat
  <2>1. \A f \in Free : f \in Events /\ outbox[f] \in OutboxRow
    BY OutboxTypes DEF Free, PendingEvents, NoEvent
  <2>2. Times \subseteq Nat
    BY BatchAssumption, FS_CardinalityType DEF Times
  <2>. QED BY <2>1, <2>2 DEF OutboxRow, OutboxStatuses
<1>3. e \in Free /\ Cardinality(Before(e)) < BatchSize
  BY DEF Batch
<1>4. Before(d) \subseteq Before(e)
  BY <1>2, <1>3 DEF Older
<1>5. IsFiniteSet(Before(e)) /\ IsFiniteSet(Before(d))
  BY <1>1, FS_Subset
<1>6. /\ Cardinality(Before(d)) <= Cardinality(Before(e))
      /\ Cardinality(Before(d)) \in Nat /\ Cardinality(Before(e)) \in Nat
  BY <1>4, <1>5, FS_Subset, FS_CardinalityType
<1>7. Cardinality(Before(d)) < BatchSize
  BY <1>3, <1>6, BatchAssumption
<1>. QED BY <1>7 DEF Batch

LEMMA StepInOrder ==
    ASSUME OutboxInv, [OutboxNext]_outboxVars,
           NEW d \in PendingEvents, NEW e \in PendingEvents, Older(d, e),
           NEW p \in Publishers, e \in locked'[p] \ locked[p]
    PROVE  \E q \in Publishers : d \in locked'[q]
<1>1. ~UNCHANGED locked
  OBVIOUS
<1>2. PICK q \in Publishers : SelectBatch(q) \/ Publish(q) \/ PublisherCrash(q)
  BY <1>1 DEF OutboxNext, outboxVars, Enqueue, DeadLetterEvent, Deliver, DeliveryFails
<1>3. ~Publish(q) /\ ~PublisherCrash(q)
  BY OutboxTypes DEF OutboxInv, Publish, PublisherCrash
<1>4. SelectBatch(q) /\ locked'[q] = Batch /\ \A r \in Publishers \ {q} : locked'[r] = locked[r]
  BY <1>2, <1>3, OutboxTypes DEF OutboxInv, SelectBatch
<1>5. locked[q] = {} /\ e \in Batch
  BY <1>4 DEF SelectBatch
<1>6. CASE d \in RowsLocked
  BY <1>4, <1>5, <1>6 DEF RowsLocked
<1>7. CASE d \notin RowsLocked
  BY <1>4, <1>5, <1>7, BatchClosed DEF Free, OutboxInv
<1>. QED BY <1>6, <1>7

\* Overlapping transactions of publish_pending_events never return the same event
\* twice (FOR UPDATE SKIP LOCKED) and none before an older one that nobody holds
\* (ORDER BY created_at LIMIT), whatever fails and whoever dies in between.
THEOREM OutboxInOrder == OutboxSpec => HandedInOrder
<1>1. OutboxInv => OutboxTypeOK /\ HandedOnce
  BY OutboxTypes DEF OutboxInv, ReturnedOnce, HandedOnce
<1>2. OutboxInv /\ [OutboxNext]_outboxVars =>
        [\A d, e \in PendingEvents :
          /\ Older(d, e)
          /\ \E p \in Publishers : e \in locked'[p] \ locked[p]
          => \E p \in Publishers : d \in locked'[p]]_outboxVars
  BY StepInOrder
<1>. QED BY <1>1, <1>2, OutboxInvariant, PTL DEF OutboxSpec, HandedInOrder, OldestFirst
(***************************************************************************)
(* The idempotency keys.                                                   *)
(***************************************************************************)

\* All claims of a key were granted for the request its row is about: a row is
\* claimed again only with the same hash and policy revision.
OneRequest ==
    \A k \in Keys :
        /\ record[k] = NoRecord => claims[k] = 0
        /\ record[k] # NoRecord => \A n \in 1 .. claims[k] : granted[k][n] = record[k].binding

\* A client works on claims it was granted, under the number it was granted.
HeldGranted ==
    \A c \in Clients : \A q \in holds[c] :
        q.number \in 1 .. claims[q.key] /\ granted[q.key][q.number] = q.binding

\* A completed row holds the response of one of its claims.
ResponseGranted ==
    \A k \in Keys : record[k].status = "completed" => record[k].response \in 1 .. claims[k]

KeyInv ==
    /\ IdempotencyTypeOK /\ OneRequest /\ HeldGranted /\ ResponseGranted
    /\ AnswerDurable /\ AnswerMatchesRequest

LEMMA InitKeys == IdempotencyInit => KeyInv
BY ClaimsAssumption
DEF IdempotencyInit, KeyInv, IdempotencyTypeOK, OneRequest, HeldGranted, ResponseGranted,
    AnswerDurable, AnswerMatchesRequest, NoRecord

\* What a claim is granted for is not changed by the next grant, and the claim a
\* grant adds is the one it counts.
LEMMA GrantKeys ==
    ASSUME KeyInv, NEW c \in Clients, NEW k \in Keys, NEW b \in Bindings, Grant(c, k, b),
           \/ record[k] = NoRecord
           \/ record[k].status \in {"failed", "expired"} /\ record[k].binding = b
    PROVE  KeyInv'
<1>. DEFINE n == claims[k] + 1
            q == [key |-> k, binding |-> b, number |-> n]
<1>1. /\ record \in [Keys -> Record \cup {NoRecord}]
      /\ holds \in [Clients -> SUBSET Claim]
      /\ claims \in [Keys -> 0 .. ClaimLimit]
      /\ granted \in [Keys -> [1 .. ClaimLimit -> Bindings \cup {NoAnswer}]]
      /\ answers \subseteq Answer
  BY DEF KeyInv, IdempotencyTypeOK
<1>2. claims[k] \in Nat /\ n \in 1 .. ClaimLimit /\ n \notin 1 .. claims[k] /\ n \in Nat
  BY <1>1, ClaimsAssumption DEF Grant
<1>3. Claimed(b) \in Record
  BY DEF Claimed, Record, Status
<1>4. /\ record'[k] = Claimed(b) /\ claims'[k] = n /\ granted'[k][n] = b
      /\ \A m \in 1 .. claims[k] : granted'[k][m] = granted[k][m]
      /\ \A l \in Keys \ {k} :
            record'[l] = record[l] /\ claims'[l] = claims[l] /\ granted'[l] = granted[l]
  <2>1. record'[k] = Claimed(b) /\ \A l \in Keys \ {k} : record'[l] = record[l]
    BY <1>1 DEF Grant
  <2>2. claims'[k] = n /\ \A l \in Keys \ {k} : claims'[l] = claims[l]
    BY <1>1 DEF Grant
  <2>3. /\ granted'[k] = [granted[k] EXCEPT ![n] = b]
        /\ \A l \in Keys \ {k} : granted'[l] = granted[l]
    BY <1>1 DEF Grant
  <2>4. granted[k] \in [1 .. ClaimLimit -> Bindings \cup {NoAnswer}]
    BY <1>1
  <2>5. granted'[k][n] = b /\ \A m \in (1 .. ClaimLimit) \ {n} : granted'[k][m] = granted[k][m]
    BY <1>2, <2>3, <2>4
  <2>6. \A m \in 1 .. claims[k] : m \in (1 .. ClaimLimit) \ {n}
    BY <1>2, ClaimsAssumption
  <2>. QED BY <2>1, <2>2, <2>3, <2>5, <2>6
<1>5. holds'[c] = holds[c] \cup {q} /\ \A d \in Clients \ {c} : holds'[d] = holds[d]
  BY <1>1 DEF Grant
<1>6. 1 .. claims'[k] = (1 .. claims[k]) \cup {n}
  BY <1>2, <1>4
<1>7. \A m \in 1 .. claims[k] : granted[k][m] = b
  <2>1. CASE record[k] = NoRecord
    BY <1>2, <2>1 DEF KeyInv, OneRequest
  <2>2. CASE record[k] # NoRecord /\ record[k].binding = b
    BY <2>2 DEF KeyInv, OneRequest
  <2>. QED BY <2>1, <2>2 DEF NoRecord
<1>8. record'[k] # NoRecord /\ record'[k].binding = b /\ record'[k].status = "in_progress"
  BY <1>4 DEF Claimed, NoRecord
<1>9. IdempotencyTypeOK'
  <2>1. q \in Claim
    BY <1>2 DEF Claim
  <2>2. record' \in [Keys -> Record \cup {NoRecord}]
    BY <1>1, <1>3 DEF Grant
  <2>3. holds' \in [Clients -> SUBSET Claim]
    BY <1>1, <2>1 DEF Grant
  <2>4. claims' \in [Keys -> 0 .. ClaimLimit]
    BY <1>1, <1>2 DEF Grant
  <2>5. granted' \in [Keys -> [1 .. ClaimLimit -> Bindings \cup {NoAnswer}]]
    BY <1>1, <1>2 DEF Grant
  <2>. QED BY <1>1, <2>2, <2>3, <2>4, <2>5 DEF IdempotencyTypeOK, Grant
<1>10. OneRequest'
  BY <1>4, <1>6, <1>7, <1>8 DEF KeyInv, OneRequest
<1>11. HeldGranted'
  <2>. SUFFICES ASSUME NEW d \in Clients, NEW p \in holds'[d]
                PROVE  p.number \in 1 .. claims'[p.key] /\ granted'[p.key][p.number] = p.binding
    BY DEF HeldGranted
  <2>1. CASE p = q
    BY <1>4, <1>6, <2>1
  <2>2. CASE p \in holds[d]
    <3>1. /\ p.number \in 1 .. claims[p.key] /\ granted[p.key][p.number] = p.binding
          /\ p.key \in Keys
      BY <1>1, <2>2 DEF KeyInv, HeldGranted, Claim
    <3>. QED BY <1>4, <1>6, <3>1
  <2>. QED BY <1>5, <2>1, <2>2
<1>12. ResponseGranted'
  BY <1>4, <1>8 DEF KeyInv, ResponseGranted
<1>13. \A x \in answers : x.key \in Keys /\ x.key # k
  BY <1>1 DEF KeyInv, AnswerDurable, Answer, NoRecord
<1>14. AnswerDurable' /\ AnswerMatchesRequest'
  BY <1>4, <1>13 DEF KeyInv, AnswerDurable, AnswerMatchesRequest, Grant
<1>. QED BY <1>9, <1>10, <1>11, <1>12, <1>14 DEF KeyInv

LEMMA ReplayKeys ==
    ASSUME KeyInv, NEW k \in Keys, NEW b \in Bindings, Replay(k, b)
    PROVE  KeyInv'
<1>. DEFINE x == [key |-> k, binding |-> b, response |-> record[k].response]
<1>1. /\ record[k].status = "completed" /\ record[k].binding = b /\ record[k] # NoRecord
      /\ answers' = answers \cup {x}
      /\ UNCHANGED <<record, holds, claims, granted>>
  BY DEF Replay, SameBinding, NoRecord
<1>2. record[k].response \in 1 .. claims[k] /\ claims[k] \in Nat
  BY <1>1, ClaimsAssumption DEF KeyInv, ResponseGranted, IdempotencyTypeOK
<1>3. granted[k][record[k].response] = b
  BY <1>1, <1>2 DEF KeyInv, OneRequest
<1>4. x \in Answer
  BY <1>2 DEF Answer
<1>5. IdempotencyTypeOK'
  BY <1>1, <1>4 DEF KeyInv, IdempotencyTypeOK
<1>6. OneRequest' /\ HeldGranted' /\ ResponseGranted'
  BY <1>1 DEF KeyInv, OneRequest, HeldGranted, ResponseGranted
<1>7. AnswerDurable' /\ AnswerMatchesRequest'
  BY <1>1, <1>3 DEF KeyInv, AnswerDurable, AnswerMatchesRequest
<1>. QED BY <1>5, <1>6, <1>7 DEF KeyInv

LEMMA CompleteKeys ==
    ASSUME KeyInv, NEW c \in Clients, NEW q \in holds[c], Complete(c, q)
    PROVE  KeyInv'
<1>. DEFINE k == q.key
            x == [key |-> k, binding |-> q.binding, response |-> q.number]
<1>1. /\ record \in [Keys -> Record \cup {NoRecord}]
      /\ holds \in [Clients -> SUBSET Claim]
      /\ claims \in [Keys -> 0 .. ClaimLimit]
      /\ answers \subseteq Answer
  BY DEF KeyInv, IdempotencyTypeOK
<1>2. k \in Keys /\ q.binding \in Bindings /\ q.number \in Nat /\ x \in Answer
  BY <1>1 DEF Claim, Answer
<1>3. q.number \in 1 .. claims[k] /\ granted[k][q.number] = q.binding
  BY DEF KeyInv, HeldGranted
<1>4. record[k] \in Record /\ record[k].status = "in_progress" /\ record[k] # NoRecord
  BY <1>1, <1>2 DEF Complete, InProgress, NoRecord
<1>5. /\ record'[k] \in Record /\ record'[k].status = "completed"
      /\ record'[k].response = q.number /\ record'[k].binding = record[k].binding
      /\ record'[k] # NoRecord
      /\ \A l \in Keys \ {k} : record'[l] = record[l]
  <2>1. record'[k] = [record[k] EXCEPT !.status = "completed", !.response = q.number]
    BY <1>1, <1>2 DEF Complete
  <2>2. record'[k] \in Record
    BY <1>2, <1>4, <2>1 DEF Record, Status
  <2>3. /\ record'[k].status = "completed" /\ record'[k].response = q.number
        /\ record'[k].binding = record[k].binding
    BY <1>4, <2>1 DEF Record
  <2>4. \A l \in Keys \ {k} : record'[l] = record[l]
    BY <1>1, <1>2 DEF Complete
  <2>. QED BY <2>2, <2>3, <2>4 DEF NoRecord
<1>6. /\ answers' = answers \cup {x} /\ UNCHANGED <<claims, granted>>
      /\ \A d \in Clients : holds'[d] \subseteq holds[d]
      /\ holds' \in [Clients -> SUBSET Claim]
  BY <1>1 DEF Complete
<1>7. IdempotencyTypeOK'
  <2>1. record' \in [Keys -> Record \cup {NoRecord}]
    BY <1>1, <1>2, <1>5 DEF Complete
  <2>. QED BY <1>1, <1>2, <1>6, <2>1 DEF KeyInv, IdempotencyTypeOK
<1>8. OneRequest'
  BY <1>2, <1>4, <1>5, <1>6 DEF KeyInv, OneRequest
<1>9. HeldGranted'
  BY <1>6 DEF KeyInv, HeldGranted
<1>10. ResponseGranted'
  BY <1>3, <1>5, <1>6 DEF KeyInv, ResponseGranted
<1>11. \A y \in answers : y.key \in Keys /\ y.key # k
  BY <1>1, <1>4 DEF KeyInv, AnswerDurable, Answer
<1>12. AnswerDurable' /\ AnswerMatchesRequest'
  BY <1>3, <1>5, <1>6, <1>11 DEF KeyInv, AnswerDurable, AnswerMatchesRequest
<1>. QED BY <1>7, <1>8, <1>9, <1>10, <1>12 DEF KeyInv

\* What leaves every row its binding and its response, and every completed row
\* completed, disturbs nothing.
LEMMA QuietKeys ==
    ASSUME KeyInv, record' \in [Keys -> Record \cup {NoRecord}],
           \A k \in Keys :
               \/ record'[k] = record[k]
               \/ /\ record[k].status = "in_progress" /\ record'[k] # NoRecord
                  /\ record'[k].status # "completed" /\ record'[k].binding = record[k].binding,
           holds' \in [Clients -> SUBSET Claim], \A c \in Clients : holds'[c] \subseteq holds[c],
           UNCHANGED <<claims, granted, answers>>
    PROVE  KeyInv'
<1>1. IdempotencyTypeOK'
  BY DEF KeyInv, IdempotencyTypeOK
<1>2. OneRequest'
  BY DEF KeyInv, OneRequest, NoRecord
<1>3. HeldGranted' /\ ResponseGranted'
  BY DEF KeyInv, HeldGranted, ResponseGranted
<1>4. \A x \in answers : x.key \in Keys
  BY DEF KeyInv, IdempotencyTypeOK, Answer
<1>5. AnswerDurable' /\ AnswerMatchesRequest'
  BY <1>4 DEF KeyInv, AnswerDurable, AnswerMatchesRequest
<1>. QED BY <1>1, <1>2, <1>3, <1>5 DEF KeyInv

LEMMA RowRewritten ==
    ASSUME NEW r \in Record, NEW s \in Status
    PROVE  /\ [r EXCEPT !.status = s] \in Record
           /\ [r EXCEPT !.status = s].status = s
           /\ [r EXCEPT !.status = s].binding = r.binding
           /\ [r EXCEPT !.due = TRUE] \in Record
           /\ [r EXCEPT !.due = TRUE].status = r.status
           /\ [r EXCEPT !.due = TRUE].binding = r.binding
<1>1. [r EXCEPT !.status = s] \in Record /\ [r EXCEPT !.due = TRUE] \in Record
  BY DEF Record
<1>. QED BY <1>1 DEF Record

LEMMA FailKeys ==
    ASSUME KeyInv, NEW c \in Clients, NEW q \in holds[c], Fail(c, q)
    PROVE  KeyInv'
<1>1. record \in [Keys -> Record \cup {NoRecord}] /\ holds \in [Clients -> SUBSET Claim]
  BY DEF KeyInv, IdempotencyTypeOK
<1>2. q.key \in Keys /\ record[q.key] \in Record /\ record[q.key].status = "in_progress"
  BY <1>1 DEF Fail, InProgress, NoRecord, Claim
<1>3. record'[q.key] = [record[q.key] EXCEPT !.status = "failed"] /\ "failed" \in Status
  BY <1>1, <1>2 DEF Fail, Status
<1>4. record' \in [Keys -> Record \cup {NoRecord}]
  BY <1>1, <1>2, <1>3, RowRewritten DEF Fail
<1>5. record'[q.key].status = "failed" /\ record'[q.key].binding = record[q.key].binding
  BY <1>2, <1>3, RowRewritten
<1>6. \A k \in Keys \ {q.key} : record'[k] = record[k]
  BY <1>1, <1>2 DEF Fail
<1>7. holds' \in [Clients -> SUBSET Claim] /\ \A d \in Clients : holds'[d] \subseteq holds[d]
  BY <1>1 DEF Fail
<1>. QED BY <1>2, <1>4, <1>5, <1>6, <1>7, QuietKeys DEF Fail, NoRecord

LEMMA FallsDueKeys ==
    ASSUME KeyInv, NEW k \in Keys, FallsDue(k)
    PROVE  KeyInv'
<1>1. record \in [Keys -> Record \cup {NoRecord}] /\ holds \in [Clients -> SUBSET Claim]
  BY DEF KeyInv, IdempotencyTypeOK
<1>2. record[k] \in Record /\ record[k].status = "in_progress"
  BY <1>1 DEF FallsDue, InProgress, NoRecord
<1>3. record'[k] = [record[k] EXCEPT !.due = TRUE] /\ "failed" \in Status
  BY <1>1 DEF FallsDue, Status
<1>4. record' \in [Keys -> Record \cup {NoRecord}]
  BY <1>1, <1>2, <1>3, RowRewritten DEF FallsDue
<1>5. record'[k].status = "in_progress" /\ record'[k].binding = record[k].binding
  BY <1>2, <1>3, RowRewritten
<1>6. \A l \in Keys \ {k} : record'[l] = record[l]
  BY <1>1 DEF FallsDue
<1>. QED BY <1>1, <1>2, <1>4, <1>5, <1>6, QuietKeys DEF FallsDue, NoRecord

LEMMA ExpireKeys ==
    ASSUME KeyInv, ExpireRecords
    PROVE  KeyInv'
<1>1. record \in [Keys -> Record \cup {NoRecord}] /\ holds \in [Clients -> SUBSET Claim]
  BY DEF KeyInv, IdempotencyTypeOK
<1>2. ASSUME NEW k \in Overdue
      PROVE  /\ record[k].status = "in_progress" /\ record'[k] \in Record
             /\ record'[k].status = "expired" /\ record'[k].binding = record[k].binding
  <2>1. k \in Keys /\ record[k] \in Record /\ record[k].status = "in_progress"
    BY <1>1 DEF Overdue, InProgress, NoRecord
  <2>2. record'[k] = [record[k] EXCEPT !.status = "expired"] /\ "expired" \in Status
    BY <2>1 DEF ExpireRecords, Status
  <2>3. record'[k] \in Record
    BY <2>1, <2>2, RowRewritten
  <2>4. record'[k].status = "expired" /\ record'[k].binding = record[k].binding
    BY <2>1, <2>2, RowRewritten
  <2>. QED BY <2>1, <2>3, <2>4
<1>3. \A k \in Keys \ Overdue : record'[k] = record[k]
  BY DEF ExpireRecords
<1>4. record' \in [Keys -> Record \cup {NoRecord}]
  <2>1. record' = [k \in Keys |-> record'[k]]
    BY DEF ExpireRecords
  <2>2. \A k \in Keys : record'[k] \in Record \cup {NoRecord}
    BY <1>1, <1>2, <1>3
  <2>. QED BY <2>1, <2>2
<1>5. \A k \in Keys :
         \/ record'[k] = record[k]
         \/ /\ record[k].status = "in_progress" /\ record'[k] # NoRecord
            /\ record'[k].status # "completed" /\ record'[k].binding = record[k].binding
  BY <1>2, <1>3 DEF NoRecord
<1>6. holds' = holds /\ UNCHANGED <<claims, granted, answers>>
  BY DEF ExpireRecords
<1>. QED BY <1>1, <1>4, <1>5, <1>6, QuietKeys

LEMMA LetGoKeys ==
    ASSUME KeyInv, NEW c \in Clients, ClientCrash(c) \/ \E q \in holds[c] : Rejected(c, q)
    PROVE  KeyInv'
<1>1. record \in [Keys -> Record \cup {NoRecord}] /\ holds \in [Clients -> SUBSET Claim]
  BY DEF KeyInv, IdempotencyTypeOK
<1>2. holds' \in [Clients -> SUBSET Claim] /\ \A d \in Clients : holds'[d] \subseteq holds[d]
  BY <1>1 DEF ClientCrash, Rejected
<1>3. UNCHANGED <<record, claims, granted, answers>>
  BY DEF ClientCrash, Rejected
<1>. QED BY <1>1, <1>2, <1>3, QuietKeys

LEMMA NextKeys == KeyInv /\ [IdempotencyNext]_idempotencyVars => KeyInv'
<1>1. ASSUME KeyInv, NEW c \in Clients, NEW k \in Keys, NEW b \in Bindings,
             ClaimNew(c, k, b) \/ ClaimAgain(c, k, b)
      PROVE  KeyInv'
  BY <1>1, GrantKeys DEF ClaimNew, ClaimAgain, SameBinding
<1>2. KeyInv /\ UNCHANGED idempotencyVars => KeyInv'
  BY DEF KeyInv, IdempotencyTypeOK, OneRequest, HeldGranted, ResponseGranted, AnswerDurable,
         AnswerMatchesRequest, idempotencyVars
<1>. QED
  BY <1>1, <1>2, ReplayKeys, CompleteKeys, FailKeys, FallsDueKeys, ExpireKeys, LetGoKeys
  DEF IdempotencyNext

\* A key has one answer, which stays and was computed for the request it is served
\* to, although clients may stall past the expiry of their claim and complete the
\* row somebody else claimed since (claim_idempotency_key, complete_idempotency,
\* expire_idempotency_records).
THEOREM OneAnswer == IdempotencySpec => []AnswerOfRecord
<1>1. KeyInv => AnswerOfRecord
  BY DEF KeyInv, AnswerOfRecord
<1>. QED BY <1>1, InitKeys, NextKeys, PTL DEF IdempotencySpec
(***************************************************************************)
(* The effect journal.                                                     *)
(***************************************************************************)

\* A request that was let through agrees with the journal row of its effect.
RequestsMatch ==
    \A q \in allowed \cup dispatched \cup performed : Journaled(q.effect) /\ Matches(q)

\* A row that is not "unknown" was settled by somebody.
RowsAccounted == \A e \in EffectIds : Journaled(e) => e \in settled \/ Unknown(e)

EffectInv == JournalTypeOK /\ RequestsMatch /\ RowsAccounted

LEMMA JournalTypes ==
    JournalTypeOK <=>
        /\ journal \in [EffectIds -> JournalRow \cup {NoEffect}]
        /\ allowed \subseteq Request /\ dispatched \subseteq Request /\ performed \subseteq Request
        /\ settled \subseteq EffectIds
BY DEF JournalTypeOK

LEMMA InitEffects == JournalInit => EffectInv
BY JournalTypes DEF JournalInit, EffectInv, RequestsMatch, RowsAccounted, Journaled

LEMMA RowOutcome ==
    ASSUME NEW r \in JournalRow, NEW s \in ResultStatus
    PROVE  /\ [r EXCEPT !.status = s] \in JournalRow
           /\ [r EXCEPT !.status = s] # NoEffect
           /\ [r EXCEPT !.status = s].status = s
           /\ [r EXCEPT !.status = s].attempt = r.attempt
           /\ [r EXCEPT !.status = s].intent = r.intent
<1>1. [r EXCEPT !.status = s] \in JournalRow
  BY DEF JournalRow
<1>. QED BY <1>1 DEF JournalRow, ResultStatus, NoEffect

LEMMA RequestEffects ==
    ASSUME EffectInv, NEW q \in Request, RecordEffectRequest(q)
    PROVE  EffectInv'
<1>1. q.effect \in EffectIds /\ q.attempt \in Attempts /\ q.intent \in Intents
  BY DEF Request
<1>2. allowed' = allowed \cup {q} /\ UNCHANGED <<dispatched, performed, settled>>
  BY DEF RecordEffectRequest
<1>3. CASE Journaled(q.effect) /\ Matches(q) /\ UNCHANGED journal
  BY <1>2, <1>3, JournalTypes
  DEF EffectInv, JournalTypeOK, RequestsMatch, RowsAccounted, Journaled, Unknown, Matches
<1>4. CASE ~Journaled(q.effect) /\ journal' = [journal EXCEPT ![q.effect] = Inserted(q)]
  <2>1. Inserted(q) \in JournalRow /\ Inserted(q) # NoEffect
    BY <1>1 DEF Inserted, JournalRow, ResultStatus, NoEffect
  <2>2. /\ journal'[q.effect] = Inserted(q)
        /\ \A e \in EffectIds \ {q.effect} : journal'[e] = journal[e]
    BY <1>1, <1>4, JournalTypes DEF EffectInv
  <2>3. JournalTypeOK'
    BY <1>2, <1>4, <2>1, JournalTypes DEF EffectInv, JournalTypeOK
  <2>4. \A p \in allowed \cup dispatched \cup performed :
            p.effect \in EffectIds /\ p.effect # q.effect
    BY <1>4, JournalTypes DEF EffectInv, RequestsMatch, Request
  <2>5. RequestsMatch'
    BY <1>2, <2>1, <2>2, <2>4 DEF EffectInv, RequestsMatch, Journaled, Matches, Inserted
  <2>6. RowsAccounted'
    BY <1>2, <2>1, <2>2 DEF EffectInv, RowsAccounted, Journaled, Unknown, Inserted
  <2>. QED BY <2>3, <2>5, <2>6 DEF EffectInv
<1>. QED BY <1>3, <1>4 DEF RecordEffectRequest

\* Requests move between the sets, or drop out of them; the rows stay.
LEMMA MoveEffects ==
    ASSUME EffectInv, UNCHANGED <<journal, settled>>,
           allowed' \cup dispatched' \cup performed' \subseteq allowed \cup dispatched \cup performed
    PROVE  EffectInv'
BY JournalTypes DEF EffectInv, JournalTypeOK, RequestsMatch, RowsAccounted, Journaled, Unknown, Matches

\* A row gets an outcome: its attempt and its intent stay.
LEMMA OutcomeEffects ==
    ASSUME EffectInv, NEW e \in EffectIds, NEW s \in ResultStatus, Journaled(e),
           journal' = [journal EXCEPT ![e].status = s],
           settled \subseteq settled', settled' \subseteq EffectIds, s = "unknown" \/ e \in settled',
           dispatched' \subseteq dispatched, UNCHANGED <<allowed, performed>>
    PROVE  EffectInv'
<1>1. journal[e] \in JournalRow
  BY JournalTypes DEF EffectInv, Journaled
<1>2. /\ journal'[e] \in JournalRow /\ journal'[e] # NoEffect /\ journal'[e].status = s
      /\ journal'[e].attempt = journal[e].attempt /\ journal'[e].intent = journal[e].intent
  <2>1. journal'[e] = [journal[e] EXCEPT !.status = s]
    BY JournalTypes DEF EffectInv
  <2>2. journal'[e] \in JournalRow /\ journal'[e] # NoEffect
    BY <1>1, <2>1, RowOutcome
  <2>3. /\ journal'[e].status = s
        /\ journal'[e].attempt = journal[e].attempt /\ journal'[e].intent = journal[e].intent
    BY <1>1, <2>1 DEF JournalRow
  <2>. QED BY <2>2, <2>3
<1>3. \A d \in EffectIds \ {e} : journal'[d] = journal[d]
  BY JournalTypes DEF EffectInv
<1>4. JournalTypeOK'
  BY <1>2, JournalTypes DEF EffectInv, JournalTypeOK
<1>5. \A q \in allowed \cup dispatched \cup performed : q.effect \in EffectIds
  BY JournalTypes DEF EffectInv, Request
<1>6. RequestsMatch'
  BY <1>2, <1>3, <1>5 DEF EffectInv, RequestsMatch, Journaled, Matches
<1>7. RowsAccounted'
  BY <1>2, <1>3 DEF EffectInv, RowsAccounted, Journaled, Unknown
<1>. QED BY <1>4, <1>6, <1>7 DEF EffectInv

LEMMA NextEffects == EffectInv /\ [JournalNext]_journalVars => EffectInv'
<1>. SUFFICES ASSUME EffectInv, [JournalNext]_journalVars PROVE EffectInv'
  OBVIOUS
<1>1. ASSUME NEW q \in Request, Dispatch(q) PROVE EffectInv'
  BY <1>1, MoveEffects DEF Dispatch
<1>2. ASSUME NEW a \in Attempts, AttemptCrash(a) PROVE EffectInv'
  BY <1>2, MoveEffects DEF AttemptCrash
<1>3. ASSUME NEW q \in dispatched, NEW s \in ResultStatus, RecordEffectResult(q, s)
      PROVE  EffectInv'
  <2>1. q.effect \in EffectIds /\ Journaled(q.effect)
    BY JournalTypes DEF EffectInv, RequestsMatch, Request
  <2>2. settled \subseteq settled' /\ settled' \subseteq EffectIds /\ (s = "unknown" \/ q.effect \in settled')
    BY <1>3, <2>1, JournalTypes DEF EffectInv, RecordEffectResult
  <2>. QED BY <1>3, <2>1, <2>2, OutcomeEffects DEF RecordEffectResult
<1>4. ASSUME NEW e \in EffectIds, NEW s \in ResultStatus, ReconcileEffect(e, s)
      PROVE  EffectInv'
  <2>1. Journaled(e)
    BY <1>4 DEF ReconcileEffect, Unknown, Journaled, NoEffect
  <2>2. settled \subseteq settled' /\ settled' \subseteq EffectIds /\ e \in settled'
    BY <1>4, JournalTypes DEF EffectInv, ReconcileEffect
  <2>. QED BY <1>4, <2>1, <2>2, OutcomeEffects DEF ReconcileEffect
<1>5. CASE UNCHANGED journalVars
  BY <1>5, MoveEffects DEF journalVars
<1>. QED BY <1>1, <1>2, <1>3, <1>4, <1>5, RequestEffects DEF JournalNext

\* What was sent downstream is in the journal under its attempt and its intent, so
\* one effect_id is never carried out twice for different reasons, and what nobody
\* settled is listed as unknown, however attempts crash and whatever results come
\* late (record_effect_request, record_effect_result, reconcile_effect).
THEOREM EffectsJournaled == JournalSpec => []EffectsAccounted
<1>1. EffectInv => EffectsAccounted
  BY JournalTypes
  DEF EffectInv, RequestsMatch, RowsAccounted, Matches, EffectsAccounted, DispatchJournaled,
      UnsettledListed, Request
<1>. QED BY <1>1, InitEffects, NextEffects, PTL DEF JournalSpec

(***************************************************************************)
(* Stream ownership.                                                       *)
(***************************************************************************)

\* A row was acquired in the past and expires after it was acquired, so a renewal
\* never moves expires_at below the clock.
TimesInOrder == streamRow # NoOwner => streamRow.acquired <= now /\ streamRow.acquired <= streamRow.expires

\* Whoever believes to own the stream does, and for as long as it believes.
BeliefHeld ==
    \A w \in StreamWorkers :
        Believes(w) => streamRow # NoOwner /\ streamRow.owner = w /\ belief[w] <= streamRow.expires

OwnerInv == StreamTypeOK /\ TimesInOrder /\ BeliefHeld

LEMMA InitOwner == StreamInit => OwnerInv
BY StreamConstants DEF StreamInit, OwnerInv, StreamTypeOK, TimesInOrder, BeliefHeld, Believes

LEMMA AcquireOwner ==
    ASSUME OwnerInv, NEW w \in StreamWorkers, NEW t \in 0 .. MaxToken, NEW d \in Durations,
           AcquireStream(w, t, d)
    PROVE  OwnerInv'
<1>. USE StreamConstants DEF OwnerInv, StreamTypeOK, AcquireStream
<1>1. now \in Nat /\ d \in Int /\ d > 0 /\ t \in Tokens
  BY DEF Tokens
<1>2. streamRow' \in StreamRow /\ streamRow'.owner = w /\ streamRow'.acquired = now /\ streamRow'.expires = now + d
  BY <1>1 DEF StreamRow
<1>3. streamRow' # NoOwner
  BY <1>2 DEF StreamRow, Tokens
<1>4. belief'[w] = now + d /\ \A v \in StreamWorkers : v # w => belief'[v] = belief[v]
  OBVIOUS
<1>5. ASSUME NEW v \in StreamWorkers, v # w PROVE ~Believes(v)
  <2>1. streamRow # NoOwner => streamRow \in StreamRow /\ streamRow.expires < now
    BY DEF Superseded
  <2>2. streamRow # NoOwner => streamRow.expires \in Nat
    BY <2>1 DEF StreamRow
  <2>3. Believes(v) => streamRow # NoOwner /\ streamRow.owner = v /\ belief[v] <= streamRow.expires
    BY DEF BeliefHeld
  <2>. QED BY <1>1, <2>1, <2>2, <2>3 DEF Believes
<1>6. StreamTypeOK'
  BY <1>1, <1>2
<1>7. TimesInOrder'
  BY <1>1, <1>2 DEF TimesInOrder
<1>8. BeliefHeld'
  BY <1>1, <1>2, <1>3, <1>4, <1>5 DEF BeliefHeld, Believes
<1>. QED BY <1>6, <1>7, <1>8

LEMMA RenewOwner ==
    ASSUME OwnerInv, NEW w \in StreamWorkers, NEW t \in Tokens, RenewStream(w, t)
    PROVE  OwnerInv'
<1>. USE StreamConstants DEF OwnerInv, StreamTypeOK, RenewStream
<1>1. streamRow \in StreamRow /\ streamRow # NoOwner /\ streamRow.owner = w
  BY DEF Owns
<1>2. now \in Nat /\ streamRow.acquired \in Nat /\ streamRow.expires \in Nat
  BY <1>1 DEF StreamRow
<1>3. streamRow.acquired <= now /\ streamRow.acquired <= streamRow.expires
  BY <1>1 DEF TimesInOrder
<1>4. RenewedUntil \in Nat /\ RenewedUntil >= now
  BY <1>2, <1>3 DEF RenewedUntil
<1>5. /\ streamRow' \in StreamRow /\ streamRow'.owner = w
      /\ streamRow'.acquired = streamRow.acquired /\ streamRow'.expires = RenewedUntil
  BY <1>1, <1>4 DEF StreamRow
<1>6. streamRow' # NoOwner
  BY <1>5 DEF StreamRow, Tokens
<1>7. belief'[w] = RenewedUntil /\ \A v \in StreamWorkers : v # w => belief'[v] = belief[v]
  OBVIOUS
<1>8. StreamTypeOK'
  BY <1>4, <1>5
<1>9. TimesInOrder'
  BY <1>2, <1>3, <1>4, <1>5 DEF TimesInOrder
<1>10. BeliefHeld'
  BY <1>1, <1>2, <1>4, <1>5, <1>6, <1>7 DEF BeliefHeld, Believes
<1>. QED BY <1>8, <1>9, <1>10

LEMMA ReleaseOwner ==
    ASSUME OwnerInv, NEW w \in StreamWorkers, NEW t \in Tokens, ReleaseStream(w, t)
    PROVE  OwnerInv'
<1>. USE StreamConstants DEF OwnerInv, StreamTypeOK, ReleaseStream
<1>1. streamRow # NoOwner /\ streamRow.owner = w /\ streamRow' = NoOwner /\ now \in Nat
  BY DEF Owns
<1>2. belief'[w] = -1 /\ \A v \in StreamWorkers : v # w => belief'[v] = belief[v]
  OBVIOUS
<1>3. StreamTypeOK' /\ TimesInOrder'
  BY <1>1 DEF TimesInOrder
<1>4. BeliefHeld'
  BY <1>1, <1>2 DEF BeliefHeld, Believes
<1>. QED BY <1>3, <1>4

LEMMA NextOwner ==
    ASSUME OwnerInv, [StreamNext]_streamVars
    PROVE  OwnerInv'
<1>1. ASSUME NEW w \in StreamWorkers, NEW t \in 0 .. MaxToken, NEW d \in Durations,
             AcquireStream(w, t, d)
      PROVE  OwnerInv'
  BY <1>1, AcquireOwner
<1>2. ASSUME NEW w \in StreamWorkers, NEW t \in Tokens, RenewStream(w, t)
      PROVE  OwnerInv'
  BY <1>2, RenewOwner
<1>3. ASSUME NEW w \in StreamWorkers, NEW t \in Tokens, ReleaseStream(w, t)
      PROVE  OwnerInv'
  BY <1>3, ReleaseOwner
<1>4. ASSUME NEW w \in StreamWorkers, RegisterStreamWorker(w) \/ LeaveActive(w)
      PROVE  OwnerInv'
  BY <1>4 DEF OwnerInv, StreamTypeOK, TimesInOrder, BeliefHeld, Believes, RegisterStreamWorker, LeaveActive
<1>5. CASE Tick
  <2>. USE <1>5, StreamConstants DEF OwnerInv, StreamTypeOK, Tick
  <2>1. now \in Nat /\ now' = now + 1 /\ now' \in 0 .. MaxTime
    OBVIOUS
  <2>2. streamRow # NoOwner => streamRow.acquired \in Nat /\ streamRow.expires \in Nat
    BY DEF StreamRow
  <2>3. StreamTypeOK'
    BY <2>1
  <2>4. TimesInOrder'
    BY <2>1, <2>2 DEF TimesInOrder
  <2>5. BeliefHeld'
    BY <2>1 DEF BeliefHeld, Believes
  <2>. QED BY <2>3, <2>4, <2>5
<1>6. CASE UNCHANGED streamVars
  BY <1>6 DEF streamVars, OwnerInv, StreamTypeOK, TimesInOrder, BeliefHeld, Believes
<1>. QED BY <1>1, <1>2, <1>3, <1>4, <1>5, <1>6 DEF StreamNext

LEMMA OwnerInvariant == StreamSpec => []OwnerInv
<1>. QED BY InitOwner, NextOwner, PTL DEF StreamSpec

\* The variables keep their types through acquire_stream, renew_stream,
\* release_stream and every other operation.
THEOREM StreamTypeCorrect == StreamSpec => []StreamTypeOK
<1>1. OwnerInv => StreamTypeOK
  BY DEF OwnerInv
<1>. QED BY <1>1, OwnerInvariant, PTL

\* However calls of acquire_stream, renew_stream and release_stream interleave, at
\* no moment do two workers both hold an answer that the stream is theirs.
THEOREM OneOwner == StreamSpec => []NeverTwoOwners
<1>1. OwnerInv => NeverTwoOwners
  BY DEF OwnerInv, BeliefHeld, NeverTwoOwners
<1>. QED BY <1>1, OwnerInvariant, PTL

(***************************************************************************)
(* The circuit breaker in the database.                                    *)
(***************************************************************************)

\* record_circuit_success sets success_count to 0 in a closed breaker and
\* record_success leaves it alone: the two agree because it is 0 there already.
ClosedUncounted == Current.state = "closed" => Current.successes = 0

CircuitInv == CircuitTypeOK /\ ClosedUncounted

LEMMA CurrentType == CircuitTypeOK => Current \in CircuitRow
BY DEF CircuitTypeOK, Current, Fresh, CircuitRow

\* The fields the operations write keep their types.
LEMMA FieldsTyped ==
    ASSUME NEW r \in CircuitRow, NEW s \in {"closed", "half_open", "open"}, NEW f \in Nat,
           NEW n \in Nat, NEW u \in {"none", "ahead", "past"}
    PROVE  /\ [r EXCEPT !.state = s, !.failures = f, !.successes = n, !.until = u] \in CircuitRow
           /\ [r EXCEPT !.state = s, !.failures = f, !.successes = n] \in CircuitRow
           /\ [r EXCEPT !.state = s, !.successes = n, !.failures = f] \in CircuitRow
           /\ [r EXCEPT !.failures = f, !.successes = n] \in CircuitRow
           /\ [r EXCEPT !.failures = f, !.until = u] \in CircuitRow
           /\ [r EXCEPT !.failures = f] \in CircuitRow
           /\ [r EXCEPT !.successes = n] \in CircuitRow
           /\ r.failures + 1 \in Nat /\ r.successes + 1 \in Nat
<1>1. /\ [r EXCEPT !.state = s, !.failures = f, !.successes = n, !.until = u] \in CircuitRow
      /\ [r EXCEPT !.state = s, !.failures = f, !.successes = n] \in CircuitRow
  BY DEF CircuitRow
<1>2. [r EXCEPT !.state = s, !.successes = n, !.failures = f] \in CircuitRow
  BY DEF CircuitRow
<1>3. [r EXCEPT !.failures = f, !.successes = n] \in CircuitRow
  BY DEF CircuitRow
<1>4. [r EXCEPT !.failures = f, !.until = u] \in CircuitRow
  BY DEF CircuitRow
<1>5. [r EXCEPT !.failures = f] \in CircuitRow /\ [r EXCEPT !.successes = n] \in CircuitRow
  BY DEF CircuitRow
<1>6. r.failures + 1 \in Nat /\ r.successes + 1 \in Nat
  BY DEF CircuitRow
<1>. QED BY <1>1, <1>2, <1>3, <1>4, <1>5, <1>6

LEMMA SuccessType ==
    ASSUME NEW r \in CircuitRow
    PROVE  AfterSuccess(r) \in CircuitRow
<1>1. CASE r.state = "closed"
  BY <1>1, FieldsTyped DEF AfterSuccess
<1>2. CASE r.state = "half_open"
  BY <1>2, FieldsTyped DEF AfterSuccess
<1>3. CASE r.state = "open"
  BY <1>3, FieldsTyped DEF AfterSuccess
<1>. QED BY <1>1, <1>2, <1>3 DEF CircuitRow

LEMMA FailureType ==
    ASSUME NEW r \in CircuitRow
    PROVE  AfterFailure(r) \in CircuitRow
<1>1. CASE r.state = "closed"
  BY <1>1, FieldsTyped DEF AfterFailure
<1>2. CASE r.state = "half_open"
  BY <1>2, FieldsTyped DEF AfterFailure
<1>3. CASE r.state = "open"
  BY <1>3, FieldsTyped DEF AfterFailure
<1>. QED BY <1>1, <1>2, <1>3 DEF CircuitRow

LEMMA RowStored ==
    ASSUME NEW r \in CircuitRow, circuitRow' = r
    PROVE  Current' = r
BY DEF Current, CircuitRow, NoCircuit

LEMMA InitCircuit == CircuitInit => CircuitInv
BY DEF CircuitInit, CircuitInv, CircuitTypeOK, ClosedUncounted, Current, Fresh

LEMMA ReportedType ==
    ASSUME CircuitTypeOK, NEW c \in Callers, NEW ok \in BOOLEAN, Reported(c, ok)
    PROVE  calling' \subseteq Callers /\ run' \in [ok : BOOLEAN, length : Nat]
BY ThresholdsAssumption DEF CircuitTypeOK, Reported

LEMMA NextCircuit ==
    ASSUME CircuitInv, [CircuitNext]_circuitVars
    PROVE  CircuitInv'
<1>. USE DEF CircuitInv
<1>1. Current \in CircuitRow
  BY CurrentType
<1>2. ASSUME NEW c \in Callers, RecordSuccess(c)
      PROVE  CircuitInv'
  <2>1. circuitRow' \in CircuitRow /\ Current' = AfterSuccess(Current)
    BY <1>1, <1>2, SuccessType, RowStored DEF RecordSuccess
  <2>2. CircuitTypeOK'
    BY <1>2, <2>1, ReportedType DEF CircuitTypeOK, RecordSuccess
  <2>3. ClosedUncounted'
    BY <1>1, <2>1, ThresholdsAssumption DEF AfterSuccess, ClosedUncounted, CircuitRow
  <2>. QED BY <2>2, <2>3
<1>3. ASSUME NEW c \in Callers, RecordFailure(c)
      PROVE  CircuitInv'
  <2>1. circuitRow' \in CircuitRow /\ Current' = AfterFailure(Current)
    BY <1>1, <1>3, FailureType, RowStored DEF RecordFailure
  <2>2. CircuitTypeOK'
    BY <1>3, <2>1, ReportedType DEF CircuitTypeOK, RecordFailure
  <2>3. ClosedUncounted'
    BY <1>1, <2>1, ThresholdsAssumption DEF AfterFailure, ClosedUncounted, CircuitRow
  <2>. QED BY <2>2, <2>3
<1>4. ASSUME NEW c \in Callers, CheckAllowed(c) \/ Forget(c)
      PROVE  CircuitInv'
  BY <1>4 DEF CircuitTypeOK, ClosedUncounted, Current, CheckAllowed, Forget
<1>5. CASE CooldownPasses
  <2>1. circuitRow \in CircuitRow /\ circuitRow' \in CircuitRow
    BY <1>5 DEF CooldownPasses, CircuitTypeOK, Current, Fresh, CircuitRow
  <2>2. Current = circuitRow /\ Current' = circuitRow'
    BY <2>1, RowStored DEF Current, CircuitRow, NoCircuit
  <2>3. ClosedUncounted'
    BY <1>5, <2>1, <2>2 DEF CooldownPasses, ClosedUncounted, CircuitRow
  <2>. QED BY <1>5, <2>1, <2>3 DEF CircuitTypeOK, CooldownPasses
<1>6. CASE UNCHANGED circuitVars
  BY <1>6 DEF circuitVars, CircuitTypeOK, ClosedUncounted, Current
<1>. QED BY <1>2, <1>3, <1>4, <1>5, <1>6 DEF CircuitNext

LEMMA CircuitInvariant == CircuitSpec => []CircuitInv
<1>. QED BY InitCircuit, NextCircuit, PTL DEF CircuitSpec

-----------------------------------------------------------------------------
\* What a report does to the row is what the in-memory operation does.
LEMMA SuccessSimulates ==
    ASSUME NEW r \in CircuitRow, Current = r, r.state = "closed" => r.successes = 0,
           Current' = AfterSuccess(r)
    PROVE  Core!RecordSuccess
<1>1. CASE r.state = "closed"
  BY <1>1 DEF CircuitRow, AfterSuccess, Core!RecordSuccess
<1>2. CASE r.state = "half_open"
  BY <1>2, ThresholdsAssumption DEF CircuitRow, AfterSuccess, Core!RecordSuccess
<1>3. CASE r.state = "open"
  BY <1>3 DEF CircuitRow, AfterSuccess, Core!RecordSuccess, Core!breaker
<1>. QED BY <1>1, <1>2, <1>3 DEF CircuitRow

LEMMA FailureSimulates ==
    ASSUME NEW r \in CircuitRow, Current = r, Current' = AfterFailure(r)
    PROVE  Core!RecordFailure
<1>1. CASE r.state = "closed"
  BY <1>1, ThresholdsAssumption DEF CircuitRow, AfterFailure, Core!RecordFailure, Core!Opened
<1>2. CASE r.state = "half_open"
  BY <1>2 DEF CircuitRow, AfterFailure, Core!RecordFailure, Core!Opened
<1>3. CASE r.state = "open"
  BY <1>3 DEF CircuitRow, AfterFailure, Core!RecordFailure, Core!Opened
<1>. QED BY <1>1, <1>2, <1>3 DEF CircuitRow

LEMMA StepSimulates ==
    ASSUME CircuitInv, [CircuitNext]_circuitVars
    PROVE  [Core!Next]_(Core!breaker)
<1>1. Current \in CircuitRow
  BY CurrentType DEF CircuitInv
<1>2. ASSUME NEW c \in Callers, RecordSuccess(c)
      PROVE  Core!RecordSuccess
  <2>1. Current' = AfterSuccess(Current)
    BY <1>1, <1>2, SuccessType, RowStored DEF RecordSuccess
  <2>. QED BY <1>1, <2>1, SuccessSimulates DEF CircuitInv, ClosedUncounted
<1>3. ASSUME NEW c \in Callers, RecordFailure(c)
      PROVE  Core!RecordFailure
  <2>1. Current' = AfterFailure(Current)
    BY <1>1, <1>3, FailureType, RowStored DEF RecordFailure
  <2>. QED BY <1>1, <2>1, FailureSimulates
<1>4. ASSUME NEW c \in Callers, CheckAllowed(c) \/ Forget(c)
      PROVE  UNCHANGED Core!breaker
  BY <1>4 DEF CheckAllowed, Forget, Current, Core!breaker
<1>5. CASE CooldownPasses
  <2>1. circuitRow \in CircuitRow /\ circuitRow' \in CircuitRow
    BY <1>5 DEF CircuitInv, CooldownPasses, CircuitTypeOK, Current, Fresh, CircuitRow
  <2>2. Current = circuitRow /\ Current' = circuitRow'
    BY <2>1, RowStored DEF Current, CircuitRow, NoCircuit
  <2>. QED BY <1>5, <2>1, <2>2 DEF CooldownPasses, Core!CooldownPasses, Core!Next, CircuitRow
<1>6. CASE UNCHANGED circuitVars
  BY <1>6 DEF circuitVars, Current, Core!breaker
<1>. QED BY <1>2, <1>3, <1>4, <1>5, <1>6 DEF CircuitNext, Core!Next

LEMMA InitSimulates == CircuitInit => Core!Init
BY DEF CircuitInit, Current, Fresh, Core!Init

\* The variables keep their types through every report and every cooldown.
THEOREM CircuitTypeCorrect == CircuitSpec => []CircuitTypeOK
<1>1. CircuitInv => CircuitTypeOK
  BY DEF CircuitInv
<1>. QED BY <1>1, CircuitInvariant, PTL

\* record_circuit_success and record_circuit_failure, called by any number of
\* callers in any order, behave as record_success and record_failure called on one
\* breaker in memory.
THEOREM StoreImplementsCore == CircuitSpec => ImplementsCore
<1>. QED BY InitSimulates, StepSimulates, CircuitInvariant, PTL DEF CircuitSpec, ImplementsCore, Core!Spec
-----------------------------------------------------------------------------
\* While the breaker is closed failure_count is the length of the run of failures
\* that the last reports were, and 0 when the last one was a success.
CountsRun ==
    Current.state = "closed" =>
        /\ run.ok => Current.failures = 0
        /\ ~run.ok => Current.failures = run.length /\ run.length < FailureThreshold

LEMMA InitCounts == CircuitInit => CountsRun
BY DEF CircuitInit, CountsRun, Current, Fresh

LEMMA SuccessCounts ==
    ASSUME CircuitInv, NEW c \in Callers, RecordSuccess(c), CountsRun
    PROVE  CountsRun'
<1>1. Current \in CircuitRow
  BY CurrentType DEF CircuitInv
<1>2. Current' = AfterSuccess(Current)
  BY <1>1, SuccessType, RowStored DEF RecordSuccess
<1>3. run'.ok = TRUE
  BY DEF RecordSuccess, Reported, CircuitInv, CircuitTypeOK
<1>4. Current'.state = "closed" => Current'.failures = 0
  BY <1>1, <1>2 DEF AfterSuccess, CircuitRow
<1>. QED BY <1>3, <1>4 DEF CountsRun

LEMMA FailureCounts ==
    ASSUME CircuitInv, NEW c \in Callers, RecordFailure(c), CountsRun
    PROVE  CountsRun'
<1>1. Current \in CircuitRow /\ Current.failures \in Nat
  BY CurrentType DEF CircuitInv, CircuitRow
<1>2. Current' = AfterFailure(Current)
  BY <1>1, FailureType, RowStored DEF RecordFailure
<1>3. run \in [ok : BOOLEAN, length : Nat]
  BY DEF CircuitInv, CircuitTypeOK
<1>4. CASE Current'.state = "closed"
  <2>1. /\ Current.state = "closed" /\ Current.failures + 1 < FailureThreshold
        /\ Current'.failures = Current.failures + 1
    BY <1>1, <1>2, <1>4, ThresholdsAssumption DEF AfterFailure, CircuitRow
  <2>2. CASE run.ok
    <3>1. run' = [ok |-> FALSE, length |-> 1] /\ Current.failures = 0
      BY <2>1, <2>2, <1>3 DEF CountsRun, RecordFailure, Reported
    <3>. QED BY <2>1, <3>1 DEF CountsRun
  <2>3. CASE ~run.ok
    <3>1. Current.failures = run.length /\ run.length < FailureLimit
      BY <2>1, <2>3 DEF CountsRun, RecordFailure
    <3>2. run'.ok = run.ok /\ run'.length = run.length + 1
      BY <3>1, <2>3, <1>3 DEF RecordFailure, Reported
    <3>. QED BY <2>1, <2>3, <3>1, <3>2 DEF CountsRun
  <2>. QED BY <2>2, <2>3
<1>5. CASE Current'.state # "closed"
  BY <1>5 DEF CountsRun
<1>. QED BY <1>4, <1>5

LEMMA NextCounts ==
    ASSUME CircuitInv, [CircuitNext]_circuitVars, CountsRun
    PROVE  CountsRun'
<1>1. ASSUME NEW c \in Callers, CheckAllowed(c) \/ Forget(c)
      PROVE  CountsRun'
  BY <1>1 DEF CountsRun, Current, CheckAllowed, Forget
<1>2. CASE CooldownPasses
  <2>1. circuitRow \in CircuitRow /\ circuitRow' \in CircuitRow
    BY <1>2 DEF CircuitInv, CooldownPasses, CircuitTypeOK, Current, Fresh, CircuitRow
  <2>2. Current = circuitRow /\ Current' = circuitRow'
    BY <2>1, RowStored DEF Current, CircuitRow, NoCircuit
  <2>3. /\ Current'.state = Current.state /\ Current'.failures = Current.failures
        /\ run' = run
    BY <1>2, <2>1, <2>2 DEF CooldownPasses, CircuitRow
  <2>. QED BY <2>3 DEF CountsRun
<1>3. CASE UNCHANGED circuitVars
  BY <1>3 DEF circuitVars, CountsRun, Current
<1>. QED BY <1>1, <1>2, <1>3, SuccessCounts, FailureCounts DEF CircuitNext

\* What the counters say is what happened, and check_circuit_allowed lets a caller
\* through exactly when CircuitBreaker::allow_request would: however many callers
\* report with record_circuit_success and record_circuit_failure, and in any order.
THEOREM BreakerSound == CircuitSpec => []CircuitSound
<1>1. CircuitInv /\ CountsRun => CircuitSound
  BY DEF CircuitInv, CountsRun, CircuitSound, ClosedMeansHealthy, Admits, Core!AllowRequest
<1>2. CircuitSpec => []CountsRun
  BY InitCounts, NextCounts, CircuitInvariant, PTL DEF CircuitSpec
<1>. QED BY <1>1, <1>2, CircuitInvariant, PTL
=============================================================================
