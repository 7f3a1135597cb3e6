---------------------------- MODULE MC_Protocols ----------------------------
(***************************************************************************)
(* The protocols of the durable store, one at a time: a behaviour follows  *)
(* one part chosen at the start while the tables of the others stay as     *)
(* they were created.  One instance serves them all, since they share no   *)
(* table.                                                                  *)
(***************************************************************************)
EXTENDS Authority, Idempotency, EffectJournal, Outbox, StreamOwnership, CircuitStore

CONSTANT Protocols      \* the parts this instance follows
VARIABLE part

partVars == <<part, authorityVars, idempotencyVars, journalVars, outboxVars, streamVars, circuitVars>>

ProtocolsInit ==
    /\ part \in Protocols
    /\ AuthorityInit /\ IdempotencyInit /\ JournalInit /\ OutboxInit /\ StreamInit /\ CircuitInit

Others(p) ==
    /\ part = p
    /\ UNCHANGED part
    /\ p # "authority" => UNCHANGED authorityVars
    /\ p # "idempotency" => UNCHANGED idempotencyVars
    /\ p # "journal" => UNCHANGED journalVars
    /\ p # "outbox" => UNCHANGED outboxVars
    /\ p # "stream" => UNCHANGED streamVars
    /\ p # "circuit" => UNCHANGED circuitVars

ProtocolsNext ==
    \/ Others("authority") /\ AuthorityNext
    \/ Others("idempotency") /\ IdempotencyNext
    \/ Others("journal") /\ JournalNext
    \/ Others("outbox") /\ OutboxNext
    \/ Others("stream") /\ StreamNext
    \/ Others("circuit") /\ CircuitNext

(* The fairness each part's own specification assumes, and no other. *)
ProtocolsSpec ==
    /\ ProtocolsInit
    /\ [][ProtocolsNext]_partVars
    /\ WF_partVars(Others("idempotency") /\ ExpireRecords)
    /\ \A k \in Keys : WF_partVars(Others("idempotency") /\ FallsDue(k))
    /\ WF_partVars(Others("outbox") /\ \E p \in Publishers : SelectBatch(p))
    /\ \A p \in Publishers : SF_partVars(Others("outbox") /\ Publish(p))
    /\ WF_partVars(Others("circuit") /\ CooldownPasses)

(* What must happen in the end, part by part: a key is free again for other *)
(* clients (expire_idempotency_records), a pending event leaves the outbox   *)
(* (publish_pending_events), an open breaker lets requests through again     *)
(* (check_circuit_allowed).                                                  *)
Progress == ClaimLapses /\ PendingLeaves /\ AlwaysReadmits
=============================================================================
