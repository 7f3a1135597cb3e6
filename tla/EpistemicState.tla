--------------------------- MODULE EpistemicState ---------------------------
(***************************************************************************)
(* What one run knows (gateway/epistemic.py, epistemic_ledger.py and       *)
(* context.py): evidence by kind and strength, claims adjudicated from it  *)
(* with four values, the transitions of claims that wait to be ledgered,   *)
(* the calibration of models, the decision history with its snapshots, and *)
(* the context compiled from all this for the task.                        *)
(*                                                                         *)
(* Strengths are percentages. The operations are called in any order.      *)
(***************************************************************************)
EXTENDS Integers, FiniteSets, Sequences, Functions

CONSTANTS
    ClaimIds, EvidenceIds, CriterionIds,
    Grades,         \* the [kind, strength] evidence may have
    Predictions,    \* confidences a model may give, percent
    Requires,       \* the criteria of the task: id -> the claims and evidence it refers to
    Threshold,      \* adjudication threshold, percent
    MinRecords,     \* calibration records below which a model is not calibrated
    MaxEpistemic,   \* bound on operations
    Unasked         \* nothing yet

ClaimStatuses == {"unknown", "supported", "refuted", "conflicted"}
ClaimRecords ==
    [status : ClaimStatuses, support : 0 .. 100, refutation : 0 .. 100, evidence : SUBSET EvidenceIds, derived : BOOLEAN]

ASSUME EpistemicAssumption ==
    /\ Grades \subseteq [kind : STRING, strength : 0 .. 100] /\ Unasked \notin Grades \cup ClaimRecords
    /\ Predictions \subseteq 0 .. 100
    /\ MinRecords \in Nat

VARIABLES
    known,          \* evidence: id -> grade, or Unasked
    held,           \* claims: id -> claim, or Unasked
    waiting,        \* _claim_transitions
    flushing,       \* transitions taken out to be ledgered one by one
    ledgered,       \* the claim_transitioned events of the run
    outcomes,       \* calibration records: Seq of [predicted, actual]
    trace,          \* _decision_history
    package,        \* the context package: [claims, evidence], or Unasked
    capsule,        \* the compaction: [claims, checks, evidence], or Unasked
    failedChecks,   \* mandatory criteria some ledgered verification failed
    epistemicOps

epistemicVars == <<known, held, waiting, flushing, ledgered, outcomes, trace, package, capsule, failedChecks, epistemicOps>>
beliefVars == <<known, held, waiting, flushing>>
contextVars == <<package, capsule>>
recordVars == <<ledgered, outcomes, trace, failedChecks>>

EpistemicInit ==
    /\ known = [e \in EvidenceIds |-> Unasked]
    /\ held = [c \in ClaimIds |-> Unasked]
    /\ waiting = <<>> /\ flushing = <<>> /\ ledgered = <<>> /\ outcomes = <<>> /\ trace = <<>>
    /\ package = Unasked /\ capsule = Unasked
    /\ failedChecks = {}
    /\ epistemicOps = 0

\* One thread works on the state of a run: a flush is finished first, or, when the
\* ledger raises, ends the request and leaves the rest unsaid.
Step == flushing = <<>> /\ epistemicOps < MaxEpistemic /\ epistemicOps' = epistemicOps + 1
EvidenceEvents == {e \in EvidenceIds : known[e] # Unasked}
Claims == {c \in ClaimIds : held[c] # Unasked}
StatusOf(claim) == IF claim = Unasked THEN "unknown" ELSE claim.status
AtLeast(S) == IF S = {} THEN 0 ELSE CHOOSE x \in S : \A y \in S : y <= x
AtMost(S) == CHOOSE x \in S : \A y \in S : x <= y

\* ---- claims
Adjudicated(support, refutation) ==
    IF support >= Threshold /\ refutation >= Threshold THEN "conflicted"
    ELSE IF support >= Threshold THEN "supported"
    ELSE IF refutation >= Threshold THEN "refuted"
    ELSE "unknown"

\* An id that is known gets the new record; claims made with the old one stay.
AddEvidence(e, grade) ==
    /\ Step
    /\ known' = [known EXCEPT ![e] = grade]
    /\ UNCHANGED <<held, waiting, flushing, contextVars, recordVars>>

\* A change of status is noted as a transition from what the claim was before.
\* Mutant of Transition: a claim that is new is taken to have changed from nothing.
TransitionOfKnown(c, status, ids) ==
    IF held[c] = Unasked \/ held[c].status = status THEN <<>>
    ELSE <<[claim |-> c, old |-> held[c].status, new |-> status, evidence |-> ids]>>
Transition(c, status, ids) ==
    IF StatusOf(held[c]) = status THEN <<>>
    ELSE <<[claim |-> c, old |-> StatusOf(held[c]), new |-> status, evidence |-> ids]>>
Hold(c, claim, ids) ==
    /\ waiting' = waiting \o Transition(c, claim.status, ids)
    /\ held' = [held EXCEPT ![c] = claim]
    /\ UNCHANGED <<known, flushing, contextVars, recordVars>>

\* Support and refutation are apart, each the strongest of its kind; support by
\* model assertions alone leaves the claim unknown.
ClaimFrom(ids) ==
    LET supporting == {e \in ids : known[e].strength > 50}
        refuting == {e \in ids : known[e].strength < 50}
        support == AtLeast({known[e].strength : e \in supporting})
        refutation == AtLeast({100 - known[e].strength : e \in refuting})
        raw == Adjudicated(support, refutation)
        asserted == supporting # {} /\ \A e \in supporting : known[e].kind = "model_assertion" IN
    [status |-> IF raw = "supported" /\ asserted THEN "unknown" ELSE raw,
     support |-> support, refutation |-> refutation, evidence |-> ids, derived |-> FALSE]
AddClaim(c, ids) ==
    /\ Step
    /\ ids \subseteq EvidenceEvents
    /\ Hold(c, ClaimFrom(ids), ids)

\* The weakest premise bounds the confidence; one below a half refutes.
DerivedFrom(ids) ==
    LET refuted == \E e \in ids : known[e].strength < 50
        weakest == AtMost({known[e].strength : e \in ids}) IN
    [status |-> IF refuted THEN "refuted" ELSE IF weakest >= Threshold THEN "supported" ELSE "unknown",
     support |-> IF refuted THEN 0 ELSE weakest, refutation |-> IF refuted THEN 100 ELSE 0,
     evidence |-> ids, derived |-> TRUE]
AddDerivedClaim(c, ids) ==
    /\ Step
    /\ ids # {} /\ ids \subseteq EvidenceEvents
    /\ Hold(c, DerivedFrom(ids), ids)

\* ---- the decision history
Unresolved == {c \in Claims : held[c].status \in {"unknown", "conflicted"}}
Conflicted == {c \in Claims : held[c].status = "conflicted"}
Snapshot ==
    [claims |-> [c \in Claims |-> held[c].status], evidence |-> EvidenceEvents, unresolved |-> Unresolved, conflicted |-> Conflicted]
Decided(step, payload) == trace' = Append(trace, [step |-> step, snapshot |-> Snapshot, payload |-> payload])

\* The results of a verification go to the ledger with it, and the waiting
\* transitions are taken out; an event whose mandatory results failed stays in it.
EnrichVerification(failed) ==
    /\ Step
    /\ Decided("verification", Conflicted)
    /\ failedChecks' = failedChecks \cup failed
    /\ flushing' = waiting
    /\ waiting' = <<>>
    /\ UNCHANGED <<known, held, contextVars, ledgered, outcomes>>

\* One turn of the loop: the oldest of them goes to the ledger.
EnrichClaimTransition ==
    /\ flushing # <<>>
    /\ trace' = Append(trace, [step |-> "claim_transition", snapshot |-> Unasked, payload |-> {flushing[1].claim}])
    /\ ledgered' = Append(ledgered, flushing[1])
    /\ flushing' = Tail(flushing)
    /\ UNCHANGED <<known, held, waiting, contextVars, outcomes, failedChecks, epistemicOps>>

Enrich(step, payload) == Step /\ Decided(step, payload) /\ UNCHANGED <<beliefVars, contextVars, ledgered, outcomes, failedChecks>>
EnrichRouteSelection == Enrich("route_selection", {})
EnrichOutcome == Enrich("outcome", Unresolved)
EnrichHumanReview == Enrich("human_review", Unresolved)
\* A fallback is told with the step before it.
EnrichFallback == Enrich("fallback", IF trace = <<>> THEN {} ELSE {trace[Len(trace)].step})
EnrichContextCompressed == Enrich("context_compressed", {})

\* ---- calibration
RecordOutcome(predicted, actual) ==
    /\ Step
    /\ outcomes' = Append(outcomes, [predicted |-> predicted, actual |-> actual])
    /\ UNCHANGED <<beliefVars, contextVars, ledgered, trace, failedChecks>>
Calibrated == Len(outcomes) >= MinRecords
Confidence == [i \in DOMAIN outcomes |-> outcomes[i].predicted]
SumPredicted == SumFunction(Confidence)
RightRecords == {i \in DOMAIN outcomes : outcomes[i].actual}
Right == Cardinality(RightRecords)
\* Accuracy over mean confidence, in percent, no more than 100.
CalibrationFactor ==
    IF ~Calibrated \/ SumPredicted = 0 THEN 100
    ELSE LET factor == (100 * 100 * Right) \div SumPredicted IN IF factor > 100 THEN 100 ELSE factor
\* The error by bins of ten, in percent and summed over the records.
Bin(o) == IF o.predicted = 100 THEN 9 ELSE o.predicted \div 10
Magnitude(n) == IF n < 0 THEN -n ELSE n
InBin(b) == {i \in DOMAIN outcomes : Bin(outcomes[i]) = b}
BinGap(b) == Magnitude(SumFunctionOnSet(Confidence, InBin(b)) - 100 * Cardinality(RightRecords \cap InBin(b)))
ComputeEce == IF ~Calibrated THEN 0 ELSE SumFunction([b \in 0 .. 9 |-> BinGap(b)])
IsCalibrated == Calibrated /\ ComputeEce <= 4 * Len(outcomes)
CalibratedConfidence(raw) == (raw * (IF Calibrated THEN CalibrationFactor ELSE 50)) \div 100

\* ---- context
\* The dependency graph is task -> criteria -> claims and evidence; claims ->
\* evidence. Only what the task reaches is packed; all of it if it needs nothing.
Reached == UNION {Requires[k] : k \in DOMAIN Requires}
ReachedClaims == Reached \cap Claims
ReachedEvidence == (Reached \cap EvidenceEvents) \cup ((UNION {held[c].evidence : c \in ReachedClaims}) \cap EvidenceEvents)
Packed(claims, evidence) == [claims |-> [c \in claims |-> held[c]], evidence |-> evidence]
CompileContext ==
    /\ Step
    /\ package' = IF DOMAIN Requires = {} THEN Packed(Claims, EvidenceEvents) ELSE Packed(ReachedClaims, ReachedEvidence)
    /\ UNCHANGED <<beliefVars, capsule, recordVars>>
\* The canonical state is what a capsule keeps whatever the narrative drops.
Canonical == [claims |-> Unresolved, checks |-> failedChecks, evidence |-> EvidenceEvents]
Compact ==
    /\ Step
    /\ capsule' = Canonical       \* validate_context_capsule is given no claims: nothing can be missing
    /\ UNCHANGED <<beliefVars, package, recordVars>>

EpistemicNext ==
    \/ \E e \in EvidenceIds, grade \in Grades : AddEvidence(e, grade)
    \/ \E c \in ClaimIds, ids \in SUBSET EvidenceIds : AddClaim(c, ids) \/ AddDerivedClaim(c, ids)
    \/ \E failed \in SUBSET CriterionIds : EnrichVerification(failed)
    \/ EnrichClaimTransition
    \/ EnrichRouteSelection \/ EnrichOutcome \/ EnrichHumanReview \/ EnrichFallback \/ EnrichContextCompressed
    \/ \E predicted \in Predictions, actual \in BOOLEAN : RecordOutcome(predicted, actual)
    \/ CompileContext \/ Compact

EpistemicSpec == EpistemicInit /\ [][EpistemicNext]_epistemicVars

\* What the first n of a sequence of transitions say of a claim.
About(events, n, c) == {k \in 1 .. n : events[k].claim = c}
Told(events, n, c) == IF About(events, n, c) = {} THEN "unknown" ELSE events[AtLeast(About(events, n, c))].new

(* The ledger tells every claim's status: the claim_transitioned events of  *)
(* a claim, those that wait or are being written included, lead without a   *)
(* gap from unknown to what the claim is now, through claims stated again   *)
(* and derived ones and evidence that was graded anew                       *)
(* (epistemic.py add_claim, add_derived_claim, get_claim_transitions).      *)
TransitionsReplay ==
    LET events == ledgered \o flushing \o waiting IN
    /\ \A k \in DOMAIN events : events[k].old = Told(events, k - 1, events[k].claim)
    /\ \A c \in ClaimIds : StatusOf(held[c]) = Told(events, Len(events), c)

(* A claim packed for the task comes with the evidence it rests on, so that *)
(* whoever gets the package can adjudicate it again (context.py             *)
(* ContextCompiler.compile, "graph reachability").                          *)
PackageClosed ==
    package # Unasked => \A c \in DOMAIN package.claims : package.claims[c].evidence \subseteq package.evidence

(* A model is never believed more than its record: whatever outcomes were   *)
(* recorded, the calibrated confidence is no more than the raw one and on   *)
(* average no more than the accuracy, and a model that passes the gate of   *)
(* is_calibrated is over- or underconfident by no more than its threshold   *)
(* as a whole (epistemic.py CalibrationStore).                              *)
CalibrationHonest ==
    /\ \A raw \in Predictions : CalibratedConfidence(raw) <= raw
    /\ Calibrated => CalibrationFactor * SumPredicted <= 100 * 100 * Right
    /\ IsCalibrated => Magnitude(SumPredicted - 100 * Right) <= 4 * Len(outcomes)

(* What a run believes can be traced to the ledger and to the evidence that *)
(* is packed with a claim, and a model's word is discounted by its record   *)
(* (epistemic.py, context.py ContextCompiler.compile).                      *)
BeliefsSound == TransitionsReplay /\ PackageClosed /\ CalibrationHonest
=============================================================================
