---------------------------- MODULE Idempotency ----------------------------
(***************************************************************************)
(* Scoped idempotency keys of noerelay-store (idempotency_records):        *)
(* claim_idempotency_key, complete_idempotency, fail_idempotency and the   *)
(* expiry sweep, used by client processes that may stall for longer than   *)
(* the claim lasts and answer late.                                        *)
(*                                                                         *)
(* A key stands for (idempotency_key, principal, endpoint profile); a      *)
(* binding for (request_hash, policy_revision).  Rows keep their id when   *)
(* they are claimed again, so a late client still addresses the same row.  *)
(***************************************************************************)
EXTENDS Naturals, FiniteSets

CONSTANTS
    Keys,
    Bindings,      \* distinct (request hash, policy revision) pairs
    Clients,       \* processes that execute requests
    NoAnswer,      \* NULL in response_ref
    ClaimLimit     \* bound: claims granted for one key

ASSUME ClaimsAssumption == ClaimLimit \in Nat /\ NoAnswer \notin Nat

VARIABLES
    record,    \* idempotency_records
    holds,     \* per client, the claims it was granted and still works on
    claims,    \* per key, the number of claims granted
    granted,   \* per key and claim number, the binding it was granted for
    answers    \* every completed result handed out: by completion or replay

idempotencyVars == <<record, holds, claims, granted, answers>>

Status == {"in_progress", "completed", "failed", "expired"}
NoRecord == [status |-> "absent"]
Record == [status : Status, binding : Bindings, response : Nat \cup {NoAnswer}, due : BOOLEAN]

\* A response is named by the claim that produced it.
Claim == [key : Keys, binding : Bindings, number : Nat]
Answer == [key : Keys, binding : Bindings, response : Nat]

IdempotencyTypeOK ==
    /\ record \in [Keys -> Record \cup {NoRecord}]
    /\ holds \in [Clients -> SUBSET Claim]
    /\ claims \in [Keys -> 0 .. ClaimLimit]
    /\ granted \in [Keys -> [1 .. ClaimLimit -> Bindings \cup {NoAnswer}]]
    /\ answers \subseteq Answer

IdempotencyInit ==
    /\ record = [k \in Keys |-> NoRecord]
    /\ holds = [c \in Clients |-> {}]
    /\ claims = [k \in Keys |-> 0]
    /\ granted = [k \in Keys |-> [n \in 1 .. ClaimLimit |-> NoAnswer]]
    /\ answers = {}

InProgress(k) == record[k].status = "in_progress"

\* A fresh row and a failed or expired one that is claimed again look alike.
Claimed(b) == [status |-> "in_progress", binding |-> b, response |-> NoAnswer, due |-> FALSE]

Grant(c, k, b) ==
    /\ claims[k] < ClaimLimit
    /\ record' = [record EXCEPT ![k] = Claimed(b)]
    /\ claims' = [claims EXCEPT ![k] = @ + 1]
    /\ granted' = [granted EXCEPT ![k][claims[k] + 1] = b]
    /\ holds' = [holds EXCEPT ![c] = @ \cup {[key |-> k, binding |-> b, number |-> claims[k] + 1]}]
    /\ UNCHANGED answers

\* Mutant of SameBinding: the hash and the policy revision are not compared.
SameBindingAny(k, b) == TRUE

SameBinding(k, b) == record[k].binding = b

\* INSERT ... ON CONFLICT DO NOTHING
ClaimNew(c, k, b) == record[k] = NoRecord /\ Grant(c, k, b)

ClaimAgain(c, k, b) ==
    /\ record[k].status \in {"failed", "expired"}
    /\ SameBinding(k, b)
    /\ Grant(c, k, b)

\* The other outcomes of a claim: the cached result, or an error and no change.
Replay(k, b) ==
    /\ record[k].status = "completed"
    /\ SameBinding(k, b)
    /\ answers' = answers \cup {[key |-> k, binding |-> b, response |-> record[k].response]}
    /\ UNCHANGED <<record, holds, claims, granted>>

\* By record id: whichever claim is in progress is completed.
Complete(c, q) ==
    /\ q \in holds[c]
    /\ InProgress(q.key)
    /\ record' = [record EXCEPT ![q.key].status = "completed", ![q.key].response = q.number]
    /\ answers' = answers \cup {[key |-> q.key, binding |-> q.binding, response |-> q.number]}
    /\ holds' = [holds EXCEPT ![c] = @ \ {q}]
    /\ UNCHANGED <<claims, granted>>

\* complete_idempotency or fail_idempotency of a row no longer in progress: an error.
Rejected(c, q) ==
    /\ q \in holds[c]
    /\ ~InProgress(q.key)
    /\ holds' = [holds EXCEPT ![c] = @ \ {q}]
    /\ UNCHANGED <<record, claims, granted, answers>>

Fail(c, q) ==
    /\ q \in holds[c]
    /\ InProgress(q.key)
    /\ record' = [record EXCEPT ![q.key].status = "failed"]
    /\ holds' = [holds EXCEPT ![c] = @ \ {q}]
    /\ UNCHANGED <<claims, granted, answers>>

\* A client dies: nobody reports on its claims.
ClientCrash(c) ==
    /\ holds[c] # {}
    /\ holds' = [holds EXCEPT ![c] = {}]
    /\ UNCHANGED <<record, claims, granted, answers>>

\* expires_at, 24 hours after the claim, passes.
FallsDue(k) ==
    /\ InProgress(k) /\ ~record[k].due
    /\ record' = [record EXCEPT ![k].due = TRUE]
    /\ UNCHANGED <<holds, claims, granted, answers>>

Overdue == {k \in Keys : InProgress(k) /\ record[k].due}

\* Mutant of ExpireRecords: the comparison with now() is the wrong way round.
ExpireRecordsEarly ==
    /\ \E k \in Keys : InProgress(k) /\ ~record[k].due
    /\ record' = [k \in Keys |-> IF InProgress(k) /\ ~record[k].due
                                 THEN [record[k] EXCEPT !.status = "expired"] ELSE record[k]]
    /\ UNCHANGED <<holds, claims, granted, answers>>

ExpireRecords ==
    /\ Overdue # {}
    /\ record' = [k \in Keys |->
           IF k \in Overdue THEN [record[k] EXCEPT !.status = "expired"] ELSE record[k]]
    /\ UNCHANGED <<holds, claims, granted, answers>>

IdempotencyNext ==
    \/ \E c \in Clients, k \in Keys, b \in Bindings : ClaimNew(c, k, b) \/ ClaimAgain(c, k, b)
    \/ \E k \in Keys, b \in Bindings : Replay(k, b)
    \/ \E c \in Clients : \E q \in holds[c] : Complete(c, q) \/ Fail(c, q) \/ Rejected(c, q)
    \/ \E c \in Clients : ClientCrash(c)
    \/ \E k \in Keys : FallsDue(k)
    \/ ExpireRecords

IdempotencySpec == IdempotencyInit /\ [][IdempotencyNext]_idempotencyVars

\* The sweep runs again and again, and 24 hours pass; no client needs to act.
IdempotencyFairSpec ==
    /\ IdempotencySpec
    /\ WF_idempotencyVars(ExpireRecords)
    /\ \A k \in Keys : WF_idempotencyVars(FallsDue(k))

-----------------------------------------------------------------------------
\* "Same key/same input replays one result": whatever was answered for a key, to
\* the client that completed it or to one that replayed it, is what the row still
\* holds (claim_idempotency_key against late complete_idempotency calls).
AnswerDurable ==
    \A x \in answers :
        record[x.key].status = "completed" /\ record[x.key].response = x.response

\* A result is never served to a request it was not computed for, not even when
\* a claim that had lapsed completes the row somebody else claimed since.
AnswerMatchesRequest ==
    \A x \in answers : granted[x.key][x.response] = x.binding

\* A key does not stay blocked by a dead client: expire_idempotency_records frees it.
ClaimLapses == \A k \in Keys : InProgress(k) ~> ~InProgress(k)

\* A key has one answer, which stays and was computed for the request it is served
\* to (claim_idempotency_key, complete_idempotency, expire_idempotency_records).
AnswerOfRecord == IdempotencyTypeOK /\ AnswerDurable /\ AnswerMatchesRequest
=============================================================================
