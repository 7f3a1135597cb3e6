----------------------------- MODULE Decisions -----------------------------
(***************************************************************************)
(* The gateway's decisions about one request, in the order the pipeline    *)
(* takes them: governance.py and contracts.py make the task contract,      *)
(* epr/kernel.py selects a plan, verification.py judges the answer.        *)
(* Probabilities are in thousandths, costs in integers; reasons are model  *)
(* strings.                                                                *)
(***************************************************************************)
EXTENDS Integers, Sequences, FiniteSets, Absence

CONSTANTS
    Requests,    \* what clients ask: see DecisionInit
    Pool,        \* the candidates a portfolio is made of
    RoutingPolicy \* spec/routing-policy.json

\* The policy file names a bound and the steps for each class of risk, which
\* grow with it; costs, latencies and bounds are numbers.
ASSUME DecisionAssumption ==
    /\ None \notin Pool
    /\ \A c \in Pool : c.cost \in Int /\ c.latency \in Nat /\ c.lcb \in Int
    /\ \A q \in Requests, f \in {"maxCost", "maxLatency"} :
        f \in DOMAIN q.governance => q.governance[f] \in Int
    /\ \A r \in {"low", "medium", "high", "critical"} :
        /\ RoutingPolicy.lcb[r] \in Int
        /\ "schema" \in RoutingPolicy.steps[r]
        /\ r # "low" => "deterministic_acceptance" \in RoutingPolicy.steps[r]
        /\ r = "high" => "independent_family_review" \in RoutingPolicy.steps[r]
        /\ r = "critical" => "human_approval" \in RoutingPolicy.steps[r]

VARIABLES
    request, portfolioOf, \* the input
    stage,       \* "asked", "contracted", "routed", "refused", "judged"
    contract, decision, answer, verdict

decisionVars == <<request, portfolioOf, stage, contract, decision, answer, verdict>>

Risks == {"low", "medium", "high", "critical"}
Higher == {"high", "critical"}

\* ---------------------------------------------------------------- governance
\* The request's fields over the defaults, field by field.
MergeGovernance(asked, defaults) ==
    [f \in DOMAIN asked \cup DOMAIN defaults |-> IF f \in DOMAIN asked THEN asked[f] ELSE defaults[f]]
DefaultGovernance == [risk |-> "low", dataPolicy |-> "zdr", maxCost |-> 20, maxLatency |-> 60, lcb |-> 0]
GovernanceErrors(g) ==
    {e \in {"risk", "dataPolicy", "maxCost", "maxLatency", "lcb"} :
        \/ e = "risk" /\ g.risk \notin Risks
        \/ e = "dataPolicy" /\ g.dataPolicy \notin {"standard", "no_training", "zdr", "local_only"}
        \/ e = "maxCost" /\ g.maxCost <= 0
        \/ e = "maxLatency" /\ g.maxLatency <= 0
        \/ e = "lcb" /\ g.lcb \notin 0 .. 1000}

\* ---------------------------------------------------------------- contract
Kinds == {"executable", "observable", "judgmental", "missing"}
\* No description is "missing" whatever was said of it; a valid hint comes
\* before the words of the description.
ClassifyCriterion(c) ==
    IF ~c.described THEN "missing" ELSE IF c.hint \in Kinds THEN c.hint ELSE c.words

DefaultCriterion == [kind |-> "observable", mandatory |-> TRUE]
\* Mutant of FinalizeCriteria: an undescribed criterion becomes the default one.
FinalizeDescribed(proposed) ==
    IF proposed = {} THEN {DefaultCriterion}
    ELSE {[kind |-> IF c.described THEN ClassifyCriterion(c) ELSE "observable",
           mandatory |-> c.mandatory # "no"] : c \in proposed}
FinalizeCriteria(proposed) ==
    IF proposed = {} THEN {DefaultCriterion}
    ELSE {[kind |-> ClassifyCriterion(c), mandatory |-> c.mandatory # "no"] : c \in proposed}

\* Only these fields of the merged governance reach the contract: the lists of
\* allowed and denied families that the kernel looks for are never among them.
ContractGovernance(g) ==
    [dataPolicy |-> g.dataPolicy, maxCost |-> g.maxCost, maxLatency |-> g.maxLatency,
     lcb |-> g.lcb, humanApproval |-> g.risk = "critical"]

FinalizeContract(g, proposal) ==
    [risk |-> g.risk, criteria |-> FinalizeCriteria(proposal.criteria),
     capabilities |-> {"text"} \cup proposal.needs, governance |-> ContractGovernance(g)]

ContractErrors(k) ==
    {e \in {"risk_class_invalid", "acceptance_criteria_required", "kind_invalid"} :
        \/ e = "risk_class_invalid" /\ k.risk \notin Risks
        \/ e = "acceptance_criteria_required" /\ k.criteria = {}
        \/ e = "kind_invalid" /\ \E c \in k.criteria : c.kind \notin Kinds}

\* A proposer that fails or answers nonsense is ignored: its criteria are none.
Compile(g, proposal) ==
    FinalizeContract(g, IF proposal.fails THEN [proposal EXCEPT !.criteria = {}] ELSE proposal)

RequiresClarification(k) == k.risk \in Higher /\ \A c \in k.criteria : c.kind = "missing"

\* ---------------------------------------------------------------- kernel
RequiredLcb(k) ==
    LET floor == RoutingPolicy.lcb[k.risk] IN IF k.governance.lcb > floor THEN k.governance.lcb ELSE floor
MissingAcceptance(k) == \E c \in k.criteria : c.mandatory /\ c.kind = "missing"

InferenceReasons(c) ==
    {r \in {"inference_gateway_not_allowed", "model_family_denied"} :
        \/ r = "inference_gateway_not_allowed" /\ c.gateway \notin RoutingPolicy.gateways
        \/ r = "model_family_denied" /\ c.family \in RoutingPolicy.forbidden}

BaseReasons(k, c) == InferenceReasons(c) \cup
    {r \in {"unavailable", "missing_capabilities", "data_policy_mismatch", "acceptance_lcb", "latency_limit_exceeded"} :
        \/ r = "unavailable" /\ ~c.available
        \/ r = "missing_capabilities" /\ ~(k.capabilities \subseteq c.capabilities)
        \/ r = "data_policy_mismatch" /\ k.governance.dataPolicy \notin c.dataPolicies
        \/ r = "acceptance_lcb" /\ c.lcb < RequiredLcb(k)
        \/ r = "latency_limit_exceeded" /\ c.latency > k.governance.maxLatency}

VerifierReasons(k, worker, v) == InferenceReasons(v) \cup
    {r \in {"not_a_verifier", "unavailable", "verifier_not_independent", "data_policy_mismatch", "verifier_lcb"} :
        \/ r = "not_a_verifier" /\ "verify" \notin v.roles
        \/ r = "unavailable" /\ ~v.available
        \/ r = "verifier_not_independent" /\ v.family = worker.family
        \/ r = "data_policy_mismatch" /\ k.governance.dataPolicy \notin v.dataPolicies
        \/ r = "verifier_lcb" /\ v.lcb < RequiredLcb(k)}

PlanOf(w, v) ==
    [worker |-> w, verifier |-> v,
     cost |-> IF v = None THEN w.cost ELSE w.cost + v.cost,
     latency |-> IF v = None THEN w.latency ELSE w.latency + v.latency,
     lcb |-> IF v = None THEN w.lcb ELSE IF w.lcb < v.lcb THEN w.lcb ELSE v.lcb]

Independent(k) == k.risk \in RoutingPolicy.independent
VerifierOptions(k, w, candidates) ==
    IF ~Independent(k) THEN {None}
    ELSE {v \in {c \in candidates : "verify" \in c.roles} : VerifierReasons(k, w, v) = {}}
Plans(k, candidates) ==
    {p \in UNION {{PlanOf(w, v) : v \in VerifierOptions(k, w, candidates)} :
                    w \in {c \in candidates : "execute" \in c.roles /\ BaseReasons(k, c) = {}}} :
        p.cost <= k.governance.maxCost /\ p.latency <= k.governance.maxLatency}

\* Sorted by cost, then latency, then the higher bound.
Before(p, q) ==
    \/ p.cost < q.cost
    \/ p.cost = q.cost /\ p.latency < q.latency
    \/ p.cost = q.cost /\ p.latency = q.latency /\ p.lcb > q.lcb
SelectRoute(k, candidates) ==
    IF MissingAcceptance(k)
    THEN {[status |-> IF RoutingPolicy.missing[k.risk] = "rejected_until_specified"
                      THEN "rejected" ELSE "clarification_required", plan |-> None]}
    ELSE LET plans == Plans(k, candidates) IN
         IF plans = {} THEN {[status |-> "escalation_required", plan |-> None]}
         ELSE {[status |-> "route_selected", plan |-> p] : p \in {q \in plans : \A r \in plans : ~Before(r, q)}}

\* ---------------------------------------------------------------- verification
SchemaCheck(said) == IF said = "text" THEN "passed" ELSE "failed"
PolicyCheck == "passed"
CriterionStatus(c, said) == IF c.kind = "observable" THEN SchemaCheck(said) ELSE "not_run"
\* What was not run does not pass.
AcceptanceCheck(k, said) ==
    IF \A c \in k.criteria : c.mandatory => CriterionStatus(c, said) = "passed" THEN "passed" ELSE "failed"
FamilyReview(plan) == IF plan.verifier = None THEN "failed" ELSE IF plan.verifier.family # plan.worker.family THEN "passed" ELSE "failed"
\* Nobody is there to approve: critical work is blocked.
HumanApproval(k) == IF k.risk = "critical" THEN "blocks" ELSE "waived"

StepResult(step, k, plan, said) ==
    CASE step = "schema" -> SchemaCheck(said)
      [] step = "policy" -> PolicyCheck
      [] step = "deterministic_acceptance" -> AcceptanceCheck(k, said)
      [] step = "independent_family_review" -> FamilyReview(plan)
      [] step = "human_approval" -> HumanApproval(k)
Evaluate(k, plan, said) ==
    \A step \in RoutingPolicy.steps[k.risk] : StepResult(step, k, plan, said) \notin {"failed", "blocks"}

\* ---------------------------------------------------------------- behaviour
DecisionInit ==
    /\ request \in Requests /\ portfolioOf \in SUBSET Pool
    /\ stage = "asked"
    /\ contract = None /\ decision = None /\ answer = None /\ verdict = None

MakeContract ==
    /\ stage = "asked"
    /\ LET g == MergeGovernance(request.governance, DefaultGovernance)
           k == Compile(g, request.proposal) IN
       IF GovernanceErrors(g) # {} \/ ContractErrors(k) # {} \/ RequiresClarification(k)
       THEN stage' = "refused" /\ UNCHANGED contract
       ELSE stage' = "contracted" /\ contract' = k
    /\ UNCHANGED <<request, portfolioOf, decision, answer, verdict>>

Decide ==
    /\ stage = "contracted"
    /\ decision' \in SelectRoute(contract, portfolioOf)
    /\ stage' = IF decision'.status = "route_selected" THEN "routed" ELSE "refused"
    /\ UNCHANGED <<request, portfolioOf, contract, answer, verdict>>

Judge ==
    /\ stage = "routed"
    /\ answer' \in {"text", "empty", "malformed"}
    /\ verdict' = Evaluate(contract, decision.plan, answer')
    /\ stage' = "judged"
    /\ UNCHANGED <<request, portfolioOf, contract, decision>>

DecisionNext == MakeContract \/ Decide \/ Judge
DecisionSpec == DecisionInit /\ [][DecisionNext]_decisionVars

\* ---------------------------------------------------------------- properties
\* The plan that is selected satisfies every hard constraint of policy and
\* governance together, and no pair of candidates that does is cheaper.
Admissible(k, w, v) ==
    /\ w.available /\ "execute" \in w.roles /\ k.capabilities \subseteq w.capabilities
    /\ \A c \in {w} \cup (IF v = None THEN {} ELSE {v}) :
        /\ k.governance.dataPolicy \in c.dataPolicies
        /\ c.gateway \in RoutingPolicy.gateways /\ c.family \notin RoutingPolicy.forbidden
        /\ c.lcb >= RoutingPolicy.lcb[k.risk] /\ c.lcb >= k.governance.lcb
    /\ v # None => v.available /\ "verify" \in v.roles /\ v.family # w.family
    /\ k.risk \in RoutingPolicy.independent => v # None
    /\ w.latency + (IF v = None THEN 0 ELSE v.latency) <= k.governance.maxLatency
TrueCost(w, v) == w.cost + (IF v = None THEN 0 ELSE v.cost)
\* select_route: the plan that is chosen is admissible, within the request's
\* budget, and no admissible plan is cheaper.
CheapestAdmissible ==
    stage \in {"routed", "judged"} =>
        LET chosen == decision.plan IN
        /\ Admissible(contract, chosen.worker, chosen.verifier)
        /\ TrueCost(chosen.worker, chosen.verifier) <= contract.governance.maxCost
        /\ \A w \in portfolioOf, v \in portfolioOf :
            Admissible(contract, w, v) /\ Independent(contract) => TrueCost(w, v) >= TrueCost(chosen.worker, chosen.verifier)
        /\ \A w \in portfolioOf :
            Admissible(contract, w, None) => TrueCost(w, None) >= TrueCost(chosen.worker, chosen.verifier)

\* Fail closed: what is accepted has an answer, has met every criterion the
\* request made mandatory from medium risk on, was reviewed by another family
\* at high risk, and is never of critical risk.
AcceptedIsVerified ==
    stage = "judged" /\ verdict =>
        /\ answer = "text" /\ contract.risk # "critical"
        /\ contract.risk # "low" /\ ~request.proposal.fails =>
            \A c \in request.proposal.criteria : c.mandatory # "no" => c.described /\ ClassifyCriterion(c) = "observable"
        /\ contract.risk = "high" => decision.plan.verifier.family # decision.plan.worker.family

\* The two halves of a decision: the plan select_route chooses, and what
\* verification accepts under it.
DecisionsSound == CheapestAdmissible /\ AcceptedIsVerified
=============================================================================
