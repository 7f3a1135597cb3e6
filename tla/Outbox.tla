------------------------------- MODULE Outbox -------------------------------
(***************************************************************************)
(* The outbox of noerelay-store (table outbox) and the publishers that     *)
(* share it.  publish_pending_events is two steps, since transactions of   *)
(* two publishers overlap: the statement locks a batch of pending rows,    *)
(* skipping rows others have locked, and the commit marks them published.  *)
(* Delivering to the broker happens in the publisher after the commit; it  *)
(* and the crash of a publisher are external.                              *)
(***************************************************************************)
EXTENDS Naturals, FiniteSets

CONSTANTS
    Events,
    Publishers,
    BatchSize     \* batch_size

ASSUME BatchAssumption == BatchSize \in Nat \ {0} /\ IsFiniteSet(Events)

VARIABLES
    outbox,     \* the table
    locked,     \* per publisher, the rows its open transaction has locked
    inHand,     \* per publisher, events returned to it and not yet delivered
    handed,     \* per event, how often publish_pending_events returned it
    tried       \* per event, how often its delivery was tried

outboxVars == <<outbox, locked, inHand, handed, tried>>

\* created_at, as a position: rows become visible in any order of it.
Times == 1 .. Cardinality(Events)

NoEvent == [status |-> "absent"]
OutboxStatuses == {"pending", "published", "failed", "dead_lettered"}
OutboxRow == [status : OutboxStatuses,
        created : Times,
        attempts : Nat]

OutboxTypeOK ==
    /\ outbox \in [Events -> OutboxRow \cup {NoEvent}]
    /\ {locked, inHand} \subseteq [Publishers -> SUBSET Events]
    /\ {handed, tried} \subseteq [Events -> Nat]

OutboxInit ==
    /\ outbox = [e \in Events |-> NoEvent]
    /\ locked = [p \in Publishers |-> {}]
    /\ inHand = [p \in Publishers |-> {}]
    /\ handed = [e \in Events |-> 0]
    /\ tried = [e \in Events |-> 0]

InOutbox(e) == outbox[e] # NoEvent
PendingEvents == {e \in Events : outbox[e].status = "pending"}
RowsLocked == UNION {locked[p] : p \in Publishers}

\* The caller gives the status of the row (any of them, though nothing is to be
\* published unless it is "pending").  created_at is the time its transaction began,
\* so an event may appear after a younger one.
Enqueue(e, t, status) ==
    /\ ~InOutbox(e)
    /\ \A d \in Events : InOutbox(d) => outbox[d].created # t
    /\ outbox' = [outbox EXCEPT ![e] = [status |-> status, created |-> t, attempts |-> 0]]
    /\ UNCHANGED <<locked, inHand, handed, tried>>

Older(d, e) == outbox[d].created < outbox[e].created

\* FOR UPDATE SKIP LOCKED
Free == PendingEvents \ RowsLocked

\* Mutant of Batch: ORDER BY created_at DESC.
BatchNewest == {e \in Free : Cardinality({d \in Free : Older(e, d)}) < BatchSize}

\* ORDER BY created_at ASC LIMIT batch_size
Batch == {e \in Free : Cardinality({d \in Free : Older(d, e)}) < BatchSize}

SelectBatch(p) ==
    /\ locked[p] = {}
    /\ Batch # {}
    /\ locked' = [locked EXCEPT ![p] = Batch]
    /\ UNCHANGED <<outbox, inHand, handed, tried>>

\* The update commits, and the rows are returned to the publisher.
Publish(p) ==
    /\ locked[p] # {}
    /\ outbox' = [e \in Events |->
           IF e \in locked[p]
           THEN [outbox[e] EXCEPT !.status = "published", !.attempts = @ + 1] ELSE outbox[e]]
    /\ inHand' = [inHand EXCEPT ![p] = @ \cup locked[p]]
    /\ handed' = [e \in Events |-> handed[e] + (IF e \in locked[p] THEN 1 ELSE 0)]
    /\ locked' = [locked EXCEPT ![p] = {}]
    /\ UNCHANGED <<tried>>

Deliver(p, e) ==
    /\ e \in inHand[p]
    /\ inHand' = [inHand EXCEPT ![p] = @ \ {e}]
    /\ tried' = [tried EXCEPT ![e] = @ + 1]
    /\ UNCHANGED <<outbox, locked, handed>>

MarkedFailed(e) == [outbox EXCEPT ![e].status = "failed", ![e].attempts = @ + 1]

\* The delivery fails and the publisher calls mark_event_failed, which waits for no
\* lock: a row that was returned is published and nobody selects it again.
DeliveryFails(p, e) ==
    /\ e \in inHand[p]
    /\ inHand' = [inHand EXCEPT ![p] = @ \ {e}]
    /\ tried' = [tried EXCEPT ![e] = @ + 1]
    /\ outbox' = MarkedFailed(e)
    /\ UNCHANGED <<locked, handed>>

\* dead_letter_event, by anyone and whatever the status; it waits for a locked row.
DeadLetterEvent(e) ==
    /\ InOutbox(e) /\ e \notin RowsLocked
    /\ outbox' = [outbox EXCEPT ![e].status = "dead_lettered"]
    /\ UNCHANGED <<locked, inHand, handed, tried>>

\* The publisher dies: its transaction rolls back and its events are lost.
PublisherCrash(p) ==
    /\ inHand[p] \cup locked[p] # {}
    /\ locked' = [locked EXCEPT ![p] = {}]
    /\ inHand' = [inHand EXCEPT ![p] = {}]
    /\ UNCHANGED <<outbox, handed, tried>>

OutboxNext ==
    \/ \E e \in Events, t \in Times, s \in OutboxStatuses : Enqueue(e, t, s)
    \/ \E e \in Events : DeadLetterEvent(e)
    \/ \E p \in Publishers : SelectBatch(p) \/ Publish(p) \/ PublisherCrash(p)
    \/ \E p \in Publishers : \E e \in inHand[p] : Deliver(p, e) \/ DeliveryFails(p, e)

OutboxSpec == OutboxInit /\ [][OutboxNext]_outboxVars

\* Somebody keeps calling publish_pending_events, and no publisher dies inside
\* that transaction every time.
OutboxFairSpec ==
    /\ OutboxSpec
    /\ WF_outboxVars(\E p \in Publishers : SelectBatch(p))
    /\ \A p \in Publishers : SF_outboxVars(Publish(p))

-----------------------------------------------------------------------------
\* Overlapping publishers never get the same event (FOR UPDATE SKIP LOCKED in
\* publish_pending_events), so none is delivered twice, whatever fails in between.
HandedOnce == \A e \in Events : handed[e] <= 1 /\ tried[e] <= 1

\* A publisher takes no event before an older pending one that it could have taken
\* (ORDER BY created_at LIMIT); only a batch another one has locked is overtaken.
OldestFirst ==
    [][\A d, e \in PendingEvents :
          /\ Older(d, e)
          /\ \E p \in Publishers : e \in locked'[p] \ locked[p]
          => \E p \in Publishers : d \in locked'[p]]_outboxVars

\* An event does not stay pending, though publishers crash and batches overlap.
PendingLeaves == \A e \in Events : (e \in PendingEvents) ~> (e \notin PendingEvents)

\* Overlapping transactions of publish_pending_events hand every event out once,
\* and none before an older one that nobody holds.
HandedInOrder == []OutboxTypeOK /\ []HandedOnce /\ OldestFirst
=============================================================================
