----------------------------- MODULE PlaneProofs -----------------------------
(***************************************************************************)
(* What holds of the parts around the request path for all values of their *)
(* constants: routes and verdicts (Decisions), the agent adapter           *)
(* (AgentLoop), the requirement contract (ReqContract), the administrator's *)
(* side (AdminPlane), the portfolio optimizer (PortfolioBench), the model  *)
(* fleet (ModelFleet), what a run knows (EpistemicState), the evaluators   *)
(* (Evaluation), the self-improvement loop (SelfImprove) and node          *)
(* provisioning (NodeInstall over LlamaPlan).  For each an inductive       *)
(* invariant says what a step that is under way relies on, and the part's  *)
(* property follows.                                                       *)
(***************************************************************************)
EXTENDS Decisions, AgentLoop, ReqContract, AdminPlane, PortfolioBench, ModelFleet, EpistemicState, Evaluation,
        SelfImprove, NodeInstall, Sums, SequenceTheorems, TLAPS

(* ---- decisions.  The governance and the contract of a request, once it is *)
(* past the checks of governance.py and contracts.py.                        *)
Governed == MergeGovernance(request.governance, DefaultGovernance)

DecisionInv ==
    /\ request \in Requests /\ portfolioOf \in SUBSET Pool
    /\ stage \in {"asked", "contracted", "refused", "routed", "judged"}
    /\ stage \in {"contracted", "routed", "judged"} =>
        /\ GovernanceErrors(Governed) = {}
        /\ contract = Compile(Governed, request.proposal) /\ ContractErrors(contract) = {}
    /\ stage \in {"routed", "judged"} =>
        decision \in SelectRoute(contract, portfolioOf) /\ decision.status = "route_selected"
    /\ stage = "judged" => verdict = Evaluate(contract, decision.plan, answer)

LEMMA DecisionInvariant == DecisionSpec => []DecisionInv
<1>1. DecisionInit => DecisionInv
  BY DEF DecisionInit, DecisionInv
<1>2. DecisionInv /\ [DecisionNext]_decisionVars => DecisionInv'
  <2>. SUFFICES ASSUME DecisionInv, [DecisionNext]_decisionVars PROVE DecisionInv'
    OBVIOUS
  <2>. USE DEF DecisionInv
  <2>1. CASE MakeContract
    <3>1. /\ request' = request /\ portfolioOf' = portfolioOf
          /\ stage' \in {"refused", "contracted"}
      BY <2>1 DEF MakeContract
    <3>2. stage' = "contracted" =>
            /\ contract' = Compile(Governed, request.proposal)
            /\ GovernanceErrors(Governed) = {} /\ ContractErrors(Compile(Governed, request.proposal)) = {}
      BY <2>1 DEF MakeContract, Governed
    <3>3. Governed' = Governed
      BY <3>1 DEF Governed
    <3>. QED BY <3>1, <3>2, <3>3
  <2>2. CASE Decide
    <3>1. UNCHANGED <<request, portfolioOf, contract>> /\ stage = "contracted"
          /\ decision' \in SelectRoute(contract, portfolioOf)
          /\ stage' = IF decision'.status = "route_selected" THEN "routed" ELSE "refused"
      BY <2>2 DEF Decide
    <3>2. Governed' = Governed
      BY <3>1 DEF Governed
    <3>3. SelectRoute(contract, portfolioOf)' = SelectRoute(contract, portfolioOf)
      BY <3>1
    <3>. QED BY <3>1, <3>2, <3>3
  <2>3. CASE Judge
    <3>1. UNCHANGED <<request, portfolioOf, contract, decision>> /\ stage = "routed" /\ stage' = "judged"
          /\ verdict' = Evaluate(contract, decision.plan, answer')
      BY <2>3 DEF Judge
    <3>2. Governed' = Governed
      BY <3>1 DEF Governed
    <3>3. SelectRoute(contract, portfolioOf)' = SelectRoute(contract, portfolioOf)
      BY <3>1
    <3>. QED BY <3>1, <3>2, <3>3
  <2>4. CASE UNCHANGED decisionVars
    BY <2>4 DEF decisionVars, Governed
  <2>. QED BY <2>1, <2>2, <2>3, <2>4 DEF DecisionNext
<1>. QED BY <1>1, <1>2, PTL DEF DecisionSpec

\* What finalize_governance and compile let through: a class of risk, and
\* numbers for the limits the kernel compares with.
LEMMA ContractTypes ==
    ASSUME DecisionInv, stage \in {"contracted", "routed", "judged"}
    PROVE  /\ contract.risk \in Risks
           /\ contract.governance.lcb \in Int /\ contract.governance.maxCost \in Int
           /\ contract.governance.maxLatency \in Int
           /\ RequiredLcb(contract) \in Int
           /\ RoutingPolicy.lcb[contract.risk] <= RequiredLcb(contract)
           /\ contract.governance.lcb <= RequiredLcb(contract)
<1>. DEFINE g == Governed
<1>1. GovernanceErrors(g) = {}
  BY DEF DecisionInv
<1>2. g.risk \in Risks /\ g.lcb \in 0 .. 1000
  BY <1>1 DEF GovernanceErrors
<1>3. g.maxCost \in Int /\ g.maxLatency \in Int
  <2>1. ASSUME NEW f \in {"maxCost", "maxLatency"} PROVE g[f] \in Int
    <3>1. DefaultGovernance[f] \in Int /\ f \in DOMAIN DefaultGovernance
      BY DEF DefaultGovernance
    <3>2. g[f] = IF f \in DOMAIN request.governance THEN request.governance[f] ELSE DefaultGovernance[f]
      BY <3>1 DEF Governed, MergeGovernance
    <3>. QED BY <3>1, <3>2, DecisionAssumption DEF DecisionInv
  <2>2. g.maxCost = g["maxCost"] /\ g.maxLatency = g["maxLatency"]
    OBVIOUS
  <2>. QED BY <2>1, <2>2
<1>4. contract.risk = g.risk /\ contract.governance = ContractGovernance(g)
  BY DEF DecisionInv, Compile, FinalizeContract
<1>. HIDE DEF g
<1>5. /\ contract.governance.lcb = g.lcb /\ contract.governance.maxCost = g.maxCost
      /\ contract.governance.maxLatency = g.maxLatency
  BY <1>4 DEF ContractGovernance
<1>6. RoutingPolicy.lcb[contract.risk] \in Int
  BY <1>2, <1>4, DecisionAssumption DEF Risks
<1>7. RequiredLcb(contract) =
        IF contract.governance.lcb > RoutingPolicy.lcb[contract.risk]
        THEN contract.governance.lcb ELSE RoutingPolicy.lcb[contract.risk]
  BY DEF RequiredLcb
<1>8. contract.risk \in Risks
  BY <1>2, <1>4
<1>9. /\ contract.governance.lcb \in Int /\ contract.governance.maxCost \in Int
      /\ contract.governance.maxLatency \in Int
  BY <1>2, <1>3, <1>5
<1>. QED BY <1>6, <1>7, <1>8, <1>9

\* The constraints select_route puts on one plan, and no more, are those of
\* Admissible and the budget.
LEMMA CandidateTypes ==
    ASSUME DecisionInv, NEW c \in portfolioOf
    PROVE  c # None /\ c.cost \in Int /\ c.latency \in Nat /\ c.lcb \in Int
BY DecisionAssumption DEF DecisionInv

LEMMA WorkerReasons ==
    ASSUME NEW k, NEW c
    PROVE  BaseReasons(k, c) = {} <=>
             /\ c.gateway \in RoutingPolicy.gateways /\ c.family \notin RoutingPolicy.forbidden
             /\ c.available /\ k.capabilities \subseteq c.capabilities
             /\ k.governance.dataPolicy \in c.dataPolicies
             /\ ~(c.lcb < RequiredLcb(k)) /\ ~(c.latency > k.governance.maxLatency)
<1>1. InferenceReasons(c) = {} <=> c.gateway \in RoutingPolicy.gateways /\ c.family \notin RoutingPolicy.forbidden
  BY DEF InferenceReasons
<1>2. BaseReasons(k, c) = {} <=>
        /\ InferenceReasons(c) = {}
        /\ c.available /\ k.capabilities \subseteq c.capabilities
        /\ k.governance.dataPolicy \in c.dataPolicies
        /\ ~(c.lcb < RequiredLcb(k)) /\ ~(c.latency > k.governance.maxLatency)
  BY DEF BaseReasons
<1>. QED BY <1>1, <1>2

LEMMA ReviewerReasons ==
    ASSUME NEW k, NEW w, NEW v
    PROVE  VerifierReasons(k, w, v) = {} <=>
             /\ v.gateway \in RoutingPolicy.gateways /\ v.family \notin RoutingPolicy.forbidden
             /\ "verify" \in v.roles /\ v.available /\ v.family # w.family
             /\ k.governance.dataPolicy \in v.dataPolicies
             /\ ~(v.lcb < RequiredLcb(k))
<1>1. InferenceReasons(v) = {} <=> v.gateway \in RoutingPolicy.gateways /\ v.family \notin RoutingPolicy.forbidden
  BY DEF InferenceReasons
<1>2. VerifierReasons(k, w, v) = {} <=>
        /\ InferenceReasons(v) = {}
        /\ "verify" \in v.roles /\ v.available /\ v.family # w.family
        /\ k.governance.dataPolicy \in v.dataPolicies
        /\ ~(v.lcb < RequiredLcb(k))
  BY DEF VerifierReasons
<1>. QED BY <1>1, <1>2

\* Whoever may work and whoever may review make a plan, if it is within the
\* limits on cost and latency.
LEMMA PlanMembers ==
    ASSUME NEW k, NEW cs, NEW p
    PROVE  p \in Plans(k, cs) <=>
             /\ \E w \in cs : \E v \in VerifierOptions(k, w, cs) :
                  p = PlanOf(w, v) /\ "execute" \in w.roles /\ BaseReasons(k, w) = {}
             /\ p.cost <= k.governance.maxCost /\ p.latency <= k.governance.maxLatency
BY DEF Plans

LEMMA PlanParts ==
    ASSUME NEW w, NEW v
    PROVE  /\ PlanOf(w, v).worker = w /\ PlanOf(w, v).verifier = v
           /\ PlanOf(w, v).cost = IF v = None THEN w.cost ELSE w.cost + v.cost
           /\ PlanOf(w, v).latency = IF v = None THEN w.latency ELSE w.latency + v.latency
BY DEF PlanOf

\* The plan that was selected is one of Plans, and none of them costs less.
LEMMA ChosenPlan ==
    ASSUME DecisionInv, stage \in {"routed", "judged"}
    PROVE  /\ decision.plan \in Plans(contract, portfolioOf)
           /\ \A q \in Plans(contract, portfolioOf) : ~(q.cost < decision.plan.cost)
<1>1. decision \in SelectRoute(contract, portfolioOf) /\ decision.status = "route_selected"
  BY DEF DecisionInv
<1>2. ~MissingAcceptance(contract)
  BY <1>1 DEF SelectRoute
<1>3. Plans(contract, portfolioOf) # {}
  BY <1>1, <1>2 DEF SelectRoute
<1>4. PICK p \in Plans(contract, portfolioOf) :
        decision = [status |-> "route_selected", plan |-> p] /\ \A r \in Plans(contract, portfolioOf) : ~Before(r, p)
  BY <1>1, <1>2, <1>3 DEF SelectRoute
<1>. QED BY <1>4 DEF Before

LEMMA RoutesCheapest == DecisionInv => CheapestAdmissible
<1>. SUFFICES ASSUME DecisionInv, stage \in {"routed", "judged"} PROVE CheapestAdmissible
  BY DEF CheapestAdmissible
<1>. DEFINE k == contract
            chosen == decision.plan
<1>1. chosen \in Plans(k, portfolioOf) /\ \A q \in Plans(k, portfolioOf) : ~(q.cost < chosen.cost)
  BY ChosenPlan
<1>2. PICK w \in portfolioOf : \E v \in VerifierOptions(k, w, portfolioOf) :
        chosen = PlanOf(w, v) /\ "execute" \in w.roles /\ BaseReasons(k, w) = {}
  BY <1>1, PlanMembers
<1>3. PICK v \in VerifierOptions(k, w, portfolioOf) :
        chosen = PlanOf(w, v) /\ "execute" \in w.roles /\ BaseReasons(k, w) = {}
  BY <1>2
<1>4. /\ chosen.cost <= k.governance.maxCost /\ chosen.latency <= k.governance.maxLatency
      /\ chosen.worker = w /\ chosen.verifier = v
      /\ chosen.cost = (IF v = None THEN w.cost ELSE w.cost + v.cost)
      /\ chosen.latency = (IF v = None THEN w.latency ELSE w.latency + v.latency)
  BY <1>1, <1>3, PlanMembers, PlanParts
<1>5. v # None => v \in portfolioOf /\ VerifierReasons(k, w, v) = {}
  BY DEF VerifierOptions
<1>6. k.risk \in RoutingPolicy.independent => v # None
  <2>1. None \notin portfolioOf
    BY DecisionAssumption DEF DecisionInv
  <2>. QED BY <2>1 DEF VerifierOptions, Independent
<1>7. w # None /\ w.cost \in Int /\ w.latency \in Nat /\ w.lcb \in Int
  BY CandidateTypes
<1>8. v # None => v.cost \in Int /\ v.latency \in Nat /\ v.lcb \in Int
  BY <1>5, CandidateTypes
<1>9. /\ RoutingPolicy.lcb[k.risk] \in Int /\ k.governance.lcb \in Int /\ k.governance.maxCost \in Int
      /\ k.governance.maxLatency \in Int /\ RequiredLcb(k) \in Int
      /\ RoutingPolicy.lcb[k.risk] <= RequiredLcb(k) /\ k.governance.lcb <= RequiredLcb(k)
  BY ContractTypes, DecisionAssumption DEF Risks
<1>10. Admissible(k, w, v)
  <2>1. /\ w.gateway \in RoutingPolicy.gateways /\ w.family \notin RoutingPolicy.forbidden
        /\ w.available /\ k.capabilities \subseteq w.capabilities
        /\ k.governance.dataPolicy \in w.dataPolicies /\ ~(w.lcb < RequiredLcb(k))
    BY <1>3, WorkerReasons
  <2>2. v # None =>
        /\ v.gateway \in RoutingPolicy.gateways /\ v.family \notin RoutingPolicy.forbidden
        /\ "verify" \in v.roles /\ v.available /\ v.family # w.family
        /\ k.governance.dataPolicy \in v.dataPolicies /\ ~(v.lcb < RequiredLcb(k))
    BY <1>5, ReviewerReasons
  <2>3. w.lcb >= RoutingPolicy.lcb[k.risk] /\ w.lcb >= k.governance.lcb
    BY <2>1, <1>7, <1>9
  <2>4. v # None => v.lcb >= RoutingPolicy.lcb[k.risk] /\ v.lcb >= k.governance.lcb
    BY <2>2, <1>8, <1>9
  <2>5. w.latency + (IF v = None THEN 0 ELSE v.latency) <= k.governance.maxLatency
    BY <1>4, <1>7, <1>8
  <2>6. \A c \in {w} \cup (IF v = None THEN {} ELSE {v}) :
            /\ k.governance.dataPolicy \in c.dataPolicies
            /\ c.gateway \in RoutingPolicy.gateways /\ c.family \notin RoutingPolicy.forbidden
            /\ c.lcb >= RoutingPolicy.lcb[k.risk] /\ c.lcb >= k.governance.lcb
    BY <2>1, <2>2, <2>3, <2>4
  <2>. QED BY <1>3, <1>6, <2>1, <2>2, <2>5, <2>6 DEF Admissible
<1>11. TrueCost(w, v) = chosen.cost /\ chosen.cost \in Int
  BY <1>4, <1>7, <1>8 DEF TrueCost
\* An admissible pair is a plan, or costs more than the budget.
<1>12. ASSUME NEW x \in portfolioOf, NEW y \in portfolioOf \cup {None}, Admissible(k, x, y),
              y # None <=> Independent(k)
       PROVE  TrueCost(x, y) >= TrueCost(w, v)
  <2>1. x # None /\ x.cost \in Int /\ x.latency \in Nat /\ x.lcb \in Int
    BY CandidateTypes
  <2>2. y # None => y \in portfolioOf /\ y.cost \in Int /\ y.latency \in Nat /\ y.lcb \in Int
    BY CandidateTypes
  <2>3. TrueCost(x, y) \in Int /\ TrueCost(x, y) = PlanOf(x, y).cost
    BY <2>1, <2>2, PlanParts DEF TrueCost
  <2>4. \A c \in {x} \cup (IF y = None THEN {} ELSE {y}) :
            /\ k.governance.dataPolicy \in c.dataPolicies
            /\ c.gateway \in RoutingPolicy.gateways /\ c.family \notin RoutingPolicy.forbidden
            /\ c.lcb >= RoutingPolicy.lcb[k.risk] /\ c.lcb >= k.governance.lcb
    BY <1>12 DEF Admissible
  <2>5. ~(x.lcb < RequiredLcb(k)) /\ (y # None => ~(y.lcb < RequiredLcb(k)))
    BY <2>1, <2>2, <2>4, <1>9 DEF RequiredLcb
  <2>6. /\ PlanOf(x, y).latency <= k.governance.maxLatency
        /\ ~(x.latency > k.governance.maxLatency)
    <3>1. x.latency + (IF y = None THEN 0 ELSE y.latency) <= k.governance.maxLatency
      BY <1>12 DEF Admissible
    <3>. QED BY <3>1, <2>1, <2>2, <1>9, PlanParts
  <2>7. BaseReasons(k, x) = {} /\ "execute" \in x.roles
    BY <2>4, <2>5, <2>6, <1>12, WorkerReasons DEF Admissible
  <2>8. y # None => VerifierReasons(k, x, y) = {}
    BY <2>4, <2>5, <1>12, ReviewerReasons DEF Admissible
  <2>9. y \in VerifierOptions(k, x, portfolioOf)
    BY <2>2, <2>8, <1>12, ReviewerReasons DEF VerifierOptions
  <2>10. CASE PlanOf(x, y).cost <= k.governance.maxCost
    <3>1. PlanOf(x, y) \in Plans(k, portfolioOf)
      BY <2>6, <2>7, <2>9, <2>10, PlanMembers
    <3>. QED BY <3>1, <1>1, <1>11, <2>3
  <2>11. CASE ~(PlanOf(x, y).cost <= k.governance.maxCost)
    BY <2>11, <2>3, <1>4, <1>9, <1>11
  <2>. QED BY <2>10, <2>11
<1>13. ASSUME NEW x \in portfolioOf, NEW y \in portfolioOf, Admissible(k, x, y), Independent(k)
       PROVE  TrueCost(x, y) >= TrueCost(w, v)
  BY <1>12, <1>13, CandidateTypes
<1>14. ASSUME NEW x \in portfolioOf, Admissible(k, x, None)
       PROVE  TrueCost(x, None) >= TrueCost(w, v)
  <2>1. ~Independent(k)
    BY <1>14 DEF Admissible, Independent
  <2>. QED BY <2>1, <1>12, <1>14
<1>. QED BY <1>4, <1>10, <1>11, <1>13, <1>14 DEF CheapestAdmissible

\* Every mandatory criterion of the request, once a proposal is not dropped, is
\* one of the contract's, and only an observable one can pass.
LEMMA AcceptsVerified == DecisionInv => AcceptedIsVerified
<1>. SUFFICES ASSUME DecisionInv, stage = "judged", verdict PROVE AcceptedIsVerified
  BY DEF AcceptedIsVerified
<1>. DEFINE k == contract
<1>1. \A step \in RoutingPolicy.steps[k.risk] : StepResult(step, k, decision.plan, answer) \notin {"failed", "blocks"}
  BY DEF DecisionInv, Evaluate
<1>2. k.risk \in Risks
  BY ContractTypes
<1>3. answer = "text"
  <2>1. "schema" \in RoutingPolicy.steps[k.risk]
    BY <1>2, DecisionAssumption DEF Risks
  <2>. QED BY <1>1, <2>1 DEF StepResult, SchemaCheck
<1>4. k.risk # "critical"
  <2>1. ASSUME k.risk = "critical" PROVE FALSE
    <3>1. "human_approval" \in RoutingPolicy.steps[k.risk]
      BY <2>1, DecisionAssumption
    <3>. QED BY <1>1, <2>1, <3>1 DEF StepResult, HumanApproval
  <2>. QED BY <2>1
<1>5. ASSUME k.risk # "low", ~request.proposal.fails,
             NEW c \in request.proposal.criteria, c.mandatory # "no"
      PROVE  c.described /\ ClassifyCriterion(c) = "observable"
  <2>1. "deterministic_acceptance" \in RoutingPolicy.steps[k.risk]
    BY <1>2, <1>5, DecisionAssumption DEF Risks
  <2>2. \A d \in k.criteria : d.mandatory => CriterionStatus(d, answer) = "passed"
    BY <1>1, <2>1 DEF StepResult, AcceptanceCheck
  <2>3. [kind |-> ClassifyCriterion(c), mandatory |-> TRUE] \in k.criteria
    <3>1. k.criteria = FinalizeCriteria(request.proposal.criteria)
      BY <1>5 DEF DecisionInv, Compile, FinalizeContract
    <3>. QED BY <3>1, <1>5 DEF FinalizeCriteria
  <2>4. ClassifyCriterion(c) = "observable"
    BY <2>2, <2>3 DEF CriterionStatus
  <2>. QED BY <2>4 DEF ClassifyCriterion
<1>6. ASSUME k.risk = "high" PROVE decision.plan.verifier.family # decision.plan.worker.family
  <2>1. "independent_family_review" \in RoutingPolicy.steps[k.risk]
    BY <1>6, DecisionAssumption
  <2>. QED BY <1>1, <2>1 DEF StepResult, FamilyReview
<1>. QED BY <1>3, <1>4, <1>5, <1>6 DEF AcceptedIsVerified

\* For any requests, portfolio and policy of the shape of routing-policy.json:
\* select_route takes an admissible plan that no admissible one undercuts, and
\* what evaluate_verification accepts above low risk has met every mandatory
\* criterion, and at high risk been reviewed by another family.
THEOREM DecidesSoundly == DecisionSpec => []DecisionsSound
<1>1. DecisionInv => DecisionsSound
  BY RoutesCheapest, AcceptsVerified DEF DecisionsSound
<1>. QED BY <1>1, DecisionInvariant, PTL

-----------------------------------------------------------------------------
(* ---- the agent adapter.  Where a thread is, and what it may rely on there: *)
(* between ReadSpec and the end of prepare it holds LOCK, so what it found    *)
(* in spec.md is still so.                                                    *)
Holding == {"append", "claims", "aee"}
AgentRow ==
    [at : Holding \cup {"free", "lock", "infer", "tool", "assess"},
     project : Projects \cup {Nobody}, text : Texts \cup {Nobody}, left : 0 .. MaxSteps, calls : 0 .. MaxCalls,
     escalated : BOOLEAN, open : SUBSET Texts, verdict : {"none", "supported", "requires_evidence"}]

HasSection(p, x) == \E i \in 1 .. Len(sections[p]) : sections[p][i] = x

Placed(a) ==
    /\ a.at # "free" => a.project \in Projects
    /\ a.at \in {"lock"} \cup Holding => a.text \in Texts
    /\ a.at = "tool" => a.calls \in 1 .. MaxCalls
Grounded(a) ==
    /\ a.at = "append" => ~HasSection(a.project, a.text)
    /\ a.at \in {"claims", "aee"} => HasSection(a.project, a.text)
    /\ a.at = "aee" => claimFiles[<<a.project, a.text>>] # Nobody

AgentTyped ==
    /\ sections \in [Projects -> Seq(Texts)]
    /\ claimFiles \in [Projects \X Texts -> {"unsupported", "supported", Nobody}]
    /\ stateFile \in [Projects -> Texts \cup {Nobody}]
    /\ lifecycle \in Threads \cup {Nobody}
    /\ agents \in [Threads -> AgentRow]

AgentInv ==
    /\ AgentTyped
    /\ OneSectionPerClaim /\ SpecifiedFirst
    /\ \A t \in Threads :
        /\ Placed(agents[t]) /\ Grounded(agents[t])
        /\ agents[t].at \in Holding => lifecycle = t

LEMMA WaitingRow == Waiting \in AgentRow /\ Waiting.at = "free"
BY AgentBounds DEF Waiting, AgentRow

LEMMA InitAgents == AgentInit => AgentInv
<1>. SUFFICES ASSUME AgentInit PROVE AgentInv
  OBVIOUS
<1>1. AgentTyped
  BY WaitingRow DEF AgentInit, AgentTyped
<1>2. OneSectionPerClaim /\ SpecifiedFirst
  BY AgentNobody DEF AgentInit, OneSectionPerClaim, SpecifiedFirst
<1>. QED BY <1>1, <1>2, WaitingRow DEF AgentInit, AgentInv, Placed, Grounded, Holding

\* A step that leaves files and LOCK alone and does not lead into prepare.
LEMMA QuietStep ==
    ASSUME AgentInv, NEW t \in Threads, NEW new \in AgentRow, Placed(new), new.at \notin Holding,
           agents' = [agents EXCEPT ![t] = new], UNCHANGED <<files, lifecycle>>
    PROVE  AgentInv'
<1>1. UNCHANGED <<sections, claimFiles, stateFile, lifecycle>>
  BY DEF files
<1>2. AgentTyped'
  BY <1>1 DEF AgentInv, AgentTyped
<1>3. OneSectionPerClaim' /\ SpecifiedFirst'
  BY <1>1 DEF AgentInv, OneSectionPerClaim, SpecifiedFirst
<1>4. ASSUME NEW u \in Threads PROVE (Placed(agents[u]) /\ Grounded(agents[u]) /\ (agents[u].at \in Holding => lifecycle = u))'
  <2>1. CASE u = t
    <3>1. agents'[u] = new
      BY <2>1 DEF AgentInv, AgentTyped
    <3>. QED BY <3>1 DEF Placed, Grounded, Holding
  <2>2. CASE u # t
    <3>1. agents'[u] = agents[u]
      BY <2>2 DEF AgentInv, AgentTyped
    <3>. QED BY <1>1, <3>1 DEF AgentInv, Placed, Grounded, HasSection
  <2>. QED BY <2>1, <2>2
<1>. QED BY <1>2, <1>3, <1>4 DEF AgentInv

LEMMA QuietSteps ==
    ASSUME AgentInv, NEW t \in Threads,
           \/ \E p \in Projects : \/ \E x \in Texts : Receive(t, p, x, "lock")
                                  \/ \E e \in BOOLEAN, n \in 1 .. MaxSteps : StartAgent(t, p, e, n)
           \/ \E calls \in 0 .. MaxCalls + 1 : Infer(t, calls)
           \/ \E failed \in BOOLEAN : CallTool(t, failed)
           \/ \E x \in Texts : AssessClaim(t, x)
           \/ RespondAgent(t)
    PROVE  AgentInv'
<1>. DEFINE a == agents[t]
<1>1. a \in AgentRow /\ Placed(a)
  BY DEF AgentInv, AgentTyped
<1>2. ASSUME NEW p \in Projects, NEW x \in Texts, Receive(t, p, x, "lock") PROVE AgentInv'
  <2>. DEFINE new == [Waiting EXCEPT !.at = "lock", !.project = p, !.text = x]
  <2>1. agents' = [agents EXCEPT ![t] = new] /\ UNCHANGED <<files, lifecycle>>
    BY <1>2 DEF Receive, Move
  <2>2. new \in AgentRow /\ Placed(new) /\ new.at \notin Holding
    <3>1. new \in AgentRow
      BY WaitingRow, AgentBounds DEF AgentRow
    <3>. QED BY <3>1, WaitingRow DEF AgentRow, Placed, Holding
  <2>. QED BY <2>1, <2>2, QuietStep
<1>3. ASSUME NEW p \in Projects, NEW e \in BOOLEAN, NEW n \in 1 .. MaxSteps, StartAgent(t, p, e, n) PROVE AgentInv'
  <2>. DEFINE new == [Waiting EXCEPT !.at = "infer", !.project = p, !.left = n, !.escalated = e]
  <2>1. agents' = [agents EXCEPT ![t] = new] /\ UNCHANGED <<files, lifecycle>>
    BY <1>3 DEF StartAgent, Move
  <2>2. new \in AgentRow /\ Placed(new) /\ new.at \notin Holding
    <3>0. n \in 0 .. MaxSteps
      BY AgentBounds
    <3>1. new \in AgentRow
      BY <3>0, WaitingRow DEF AgentRow
    <3>. QED BY <3>1, WaitingRow DEF AgentRow, Placed, Holding
  <2>. QED BY <2>1, <2>2, QuietStep
<1>4. ASSUME NEW calls \in 0 .. MaxCalls + 1, Infer(t, calls) PROVE AgentInv'
  <2>1. CASE Settled(t)
    <3>1. agents' = [agents EXCEPT ![t] = Waiting] /\ UNCHANGED <<files, lifecycle>>
      BY <1>4, <2>1 DEF Infer, Settled, Move
    <3>. QED BY <3>1, WaitingRow, QuietStep DEF Placed, Holding
  <2>2. CASE a.left > 0 /\ calls \in 1 .. MaxCalls /\ Move(t, [a EXCEPT !.at = "tool", !.left = @ - 1, !.calls = calls])
    <3>. DEFINE new == [a EXCEPT !.at = "tool", !.left = @ - 1, !.calls = calls]
    <3>1. agents' = [agents EXCEPT ![t] = new] /\ UNCHANGED <<files, lifecycle>>
      BY <1>4, <2>2 DEF Infer, Move
    <3>2. a.left \in 0 .. MaxSteps /\ a.at = "infer"
      BY <1>1, <1>4 DEF AgentRow, Infer
    <3>3. a.left - 1 \in 0 .. MaxSteps /\ calls \in 0 .. MaxCalls /\ a.project \in Projects
      BY <1>1, <2>2, <3>2, AgentBounds DEF Placed
    <3>4. new \in AgentRow
      BY <1>1, <2>2, <3>3 DEF AgentRow, Holding
    <3>5. Placed(new) /\ new.at \notin Holding
      BY <1>1, <2>2, <3>3 DEF AgentRow, Placed, Holding
    <3>. QED BY <3>1, <3>4, <3>5, QuietStep
  <2>3. ASSUME NEW shown, NEW v,
               shown = IF stateFile[a.project] = Nobody THEN {} ELSE Files(a.project),
               v = IF stateFile[a.project] = Nobody THEN "requires_evidence" ELSE "supported",
               Move(t, [a EXCEPT !.at = "assess", !.open = shown, !.verdict = v])
        PROVE  AgentInv'
    <3>. DEFINE new == [a EXCEPT !.at = "assess", !.open = shown, !.verdict = v]
    <3>1. agents' = [agents EXCEPT ![t] = new] /\ UNCHANGED <<files, lifecycle>>
      BY <1>4, <2>3 DEF Infer, Move
    <3>2. a.at = "infer" /\ shown \in SUBSET Texts /\ v \in {"requires_evidence", "supported"}
      BY <1>4, <2>3 DEF Infer, Files
    <3>3. new \in AgentRow /\ Placed(new) /\ new.at \notin Holding
      BY <1>1, <3>2 DEF AgentRow, Placed, Holding
    <3>. QED BY <3>1, <3>3, QuietStep
  <2>. QED BY <1>4, <2>1, <2>2, <2>3 DEF Infer
<1>5. ASSUME NEW failed \in BOOLEAN, CallTool(t, failed) PROVE AgentInv'
  <2>. DEFINE new == [a EXCEPT !.calls = @ - 1, !.at = IF a.calls = 1 THEN "infer" ELSE "tool",
                               !.escalated = @ \/ failed]
  <2>1. agents' = [agents EXCEPT ![t] = new] /\ UNCHANGED <<files, lifecycle>>
    BY <1>5 DEF CallTool, AfterCall, Move
  <2>2. a.at = "tool" /\ a.project \in Projects /\ a.calls \in 1 .. MaxCalls
    BY <1>1, <1>5 DEF CallTool, Placed
  <2>3. a.calls - 1 \in 0 .. MaxCalls /\ (a.calls # 1 => a.calls - 1 \in 1 .. MaxCalls)
    BY <2>2, AgentBounds
  <2>4. new \in AgentRow /\ Placed(new) /\ new.at \notin Holding
    BY <1>1, <2>2, <2>3 DEF AgentRow, Placed, Holding
  <2>. QED BY <2>1, <2>4, QuietStep
<1>6. ASSUME NEW x \in Texts, AssessClaim(t, x) PROVE AgentInv'
  <2>. DEFINE v == IF claimFiles[<<a.project, x>>] = "supported" THEN a.verdict ELSE "requires_evidence"
              new == [a EXCEPT !.open = a.open \ {x}, !.verdict = v]
  <2>1. agents' = [agents EXCEPT ![t] = new] /\ UNCHANGED <<files, lifecycle>>
    BY <1>6 DEF AssessClaim, Move
  <2>2. new \in AgentRow /\ Placed(new) /\ new.at \notin Holding
    BY <1>1, <1>6 DEF AssessClaim, AgentRow, Placed, Holding
  <2>. QED BY <2>1, <2>2, QuietStep
<1>7. ASSUME RespondAgent(t) PROVE AgentInv'
  <2>1. agents' = [agents EXCEPT ![t] = Waiting] /\ UNCHANGED <<files, lifecycle>>
    BY <1>7 DEF RespondAgent, Settled, Move
  <2>. QED BY <2>1, WaitingRow, QuietStep DEF Placed, Holding
<1>. QED BY <1>2, <1>3, <1>4, <1>5, <1>6, <1>7

\* In prepare, from ReadSpec on, a thread is alone.
LEMMA HolderAlone ==
    ASSUME AgentInv, NEW t \in Threads, agents[t].at \in Holding \/ lifecycle = Nobody,
           NEW u \in Threads, u # t
    PROVE  agents[u].at \notin Holding
BY AgentNobody DEF AgentInv

\* A step of prepare: the other threads stay where they are, out of it.
LEMMA PrepareStep ==
    ASSUME AgentInv, NEW t \in Threads, agents[t].at \in Holding \/ lifecycle = Nobody,
           NEW new \in AgentRow, agents' = [agents EXCEPT ![t] = new],
           AgentTyped', OneSectionPerClaim', SpecifiedFirst',
           Placed(new), Grounded(new)', new.at \in Holding => lifecycle' = t
    PROVE  AgentInv'
<1>1. ASSUME NEW u \in Threads PROVE (Placed(agents[u]) /\ Grounded(agents[u]) /\ (agents[u].at \in Holding => lifecycle = u))'
  <2>1. CASE u = t
    <3>1. agents'[u] = new
      BY <2>1 DEF AgentInv, AgentTyped
    <3>. QED BY <2>1, <3>1 DEF Placed, Grounded, HasSection
  <2>2. CASE u # t
    <3>1. agents'[u] = agents[u] /\ agents[u].at \notin Holding
      BY <2>2, HolderAlone DEF AgentInv, AgentTyped
    <3>. QED BY <3>1 DEF AgentInv, Placed, Grounded, Holding
  <2>. QED BY <2>1, <2>2
<1>. QED BY <1>1 DEF AgentInv

LEMMA PrepareSteps ==
    ASSUME AgentInv, NEW t \in Threads,
           ReadSpec(t) \/ AppendSection(t) \/ WriteClaims(t) \/ SaveState(t) \/ AssessmentFails(t)
    PROVE  AgentInv'
<1>0. PICK a \in AgentRow : a = agents[t]
  BY DEF AgentInv, AgentTyped
<1>. DEFINE p == a.project
            x == a.text
<1>1. a \in AgentRow /\ Placed(a) /\ Grounded(a) /\ (a.at \in Holding => lifecycle = t)
  BY <1>0 DEF AgentInv
<1>2. /\ sections \in [Projects -> Seq(Texts)]
      /\ claimFiles \in [Projects \X Texts -> {"unsupported", "supported", Nobody}]
      /\ stateFile \in [Projects -> Texts \cup {Nobody}]
      /\ agents \in [Threads -> AgentRow]
  BY DEF AgentInv, AgentTyped
<1>3. OneSectionPerClaim /\ SpecifiedFirst
  BY DEF AgentInv
<1>4. CASE ReadSpec(t)
  <2>0. PICK at : at = IF HasSection(p, x) THEN "claims" ELSE "append"
    OBVIOUS
  <2>. DEFINE new == [a EXCEPT !.at = at]
  <2>1. /\ agents' = [agents EXCEPT ![t] = new] /\ a.at = "lock"
        /\ UNCHANGED <<sections, claimFiles, stateFile>>
        /\ lifecycle = Nobody /\ lifecycle' = t
    BY <1>0, <1>4, <2>0 DEF ReadSpec, Turn, Move, TakeLock, files, HasSection
  <2>2. new \in AgentRow
    BY <1>1, <2>0 DEF AgentRow, Holding
  <2>3. p \in Projects /\ x \in Texts
    BY <1>1, <2>1 DEF Placed
  <2>4. Placed(new)
    BY <1>1, <2>3, <2>0 DEF AgentRow, Placed, Holding
  <2>5. Grounded(new)'
    BY <1>1, <2>0, <2>1 DEF AgentRow, Grounded, HasSection
  <2>6. AgentTyped' /\ OneSectionPerClaim' /\ SpecifiedFirst'
    BY <1>2, <1>3, <2>1, <2>2 DEF AgentTyped, OneSectionPerClaim, SpecifiedFirst
  <2>. QED BY <2>1, <2>2, <2>4, <2>5, <2>6, <2>0, <1>0, PrepareStep
<1>5. CASE AppendSection(t)
  <2>. DEFINE new == [a EXCEPT !.at = "claims"]
  <2>1. /\ agents' = [agents EXCEPT ![t] = new] /\ a.at = "append"
        /\ sections' = [sections EXCEPT ![p] = Append(sections[p], x)]
        /\ UNCHANGED <<claimFiles, stateFile, lifecycle>>
    BY <1>0, <1>5 DEF AppendSection, Turn, Move
  <2>2. new \in AgentRow /\ a.at \in Holding
    BY <1>1, <2>1 DEF AgentRow, Holding
  <2>3. p \in Projects /\ x \in Texts /\ ~HasSection(p, x)
    BY <1>1, <2>1, <2>2 DEF Placed, Grounded
  <2>4. /\ sections[p] \in Seq(Texts) /\ sections'[p] = Append(sections[p], x)
        /\ \A q \in Projects : q # p => sections'[q] = sections[q]
        /\ sections' \in [Projects -> Seq(Texts)]
    BY <1>2, <2>1, <2>3
  <2>5. /\ Len(sections'[p]) = Len(sections[p]) + 1
        /\ \A i \in 1 .. Len(sections[p]) : sections'[p][i] = sections[p][i]
        /\ sections'[p][Len(sections[p]) + 1] = x
    BY <2>3, <2>4
  <2>6. ASSUME NEW q \in Projects, NEW y PROVE HasSection(q, y) => HasSection(q, y)'
    <3>1. CASE q = p
      BY <2>4, <2>5, <3>1, LenProperties DEF HasSection
    <3>2. CASE q # p
      BY <2>4, <3>2 DEF HasSection
    <3>. QED BY <3>1, <3>2
  <2>7. HasSection(p, x)'
    BY <2>4, <2>5 DEF HasSection
  <2>8. OneSectionPerClaim'
    <3>1. ASSUME NEW q \in Projects, NEW i \in 1 .. Len(sections'[q]), NEW j \in 1 .. Len(sections'[q]),
                 sections'[q][i] = sections'[q][j]
          PROVE  i = j
      <4>1. CASE q # p
        BY <1>3, <2>4, <3>1, <4>1 DEF OneSectionPerClaim
      <4>2. CASE q = p
        <5>. DEFINE n == Len(sections[p])
        <5>1. n \in Nat /\ i \in 1 .. n + 1 /\ j \in 1 .. n + 1 /\ sections'[p][i] = sections'[p][j]
          BY <2>4, <2>5, <3>1, <4>2, LenProperties
        <5>2. \A l \in 1 .. n : sections[p][l] # x
          BY <2>3 DEF HasSection
        <5>3. \A l, m \in 1 .. n : sections[p][l] = sections[p][m] => l = m
          BY <1>3, <2>3 DEF OneSectionPerClaim
        <5>. HIDE DEF n
        <5>4. i \in 1 .. n \/ i = n + 1
          BY <5>1
        <5>5. j \in 1 .. n \/ j = n + 1
          BY <5>1
        <5>6. /\ \A l \in 1 .. n : sections'[p][l] = sections[p][l]
              /\ sections'[p][n + 1] = x
          BY <2>5 DEF n
        <5>. QED BY <5>1, <5>2, <5>3, <5>4, <5>5, <5>6
      <4>. QED BY <4>1, <4>2
    <3>. QED BY <3>1 DEF OneSectionPerClaim
  <2>9. SpecifiedFirst'
    BY <1>3, <2>1, <2>6 DEF SpecifiedFirst, HasSection
  <2>10. AgentTyped'
    BY <1>2, <2>1, <2>2, <2>4 DEF AgentInv, AgentTyped
  <2>11. Placed(new) /\ Grounded(new)'
    BY <1>1, <2>3, <2>7 DEF AgentRow, Placed, Grounded, Holding
  <2>. QED BY <1>1, <2>1, <2>2, <2>8, <2>9, <2>10, <2>11, <1>0, PrepareStep
<1>6. CASE WriteClaims(t)
  <2>. DEFINE new == [a EXCEPT !.at = "aee"]
  <2>1. /\ agents' = [agents EXCEPT ![t] = new] /\ a.at = "claims"
        /\ claimFiles' = [claimFiles EXCEPT ![<<p, x>>] = IF claimFiles[<<p, x>>] = Nobody THEN "unsupported" ELSE claimFiles[<<p, x>>]]
        /\ UNCHANGED <<sections, stateFile, lifecycle>>
    BY <1>0, <1>6 DEF WriteClaims, Turn, Move
  <2>2. new \in AgentRow /\ a.at \in Holding
    BY <1>1, <2>1 DEF AgentRow, Holding
  <2>3. p \in Projects /\ x \in Texts /\ HasSection(p, x)
    BY <1>1, <2>1, <2>2 DEF Placed, Grounded
  <2>4. /\ claimFiles' \in [Projects \X Texts -> {"unsupported", "supported", Nobody}]
        /\ claimFiles'[<<p, x>>] # Nobody
        /\ \A k \in Projects \X Texts : k # <<p, x>> => claimFiles'[k] = claimFiles[k]
    BY <1>2, <2>1, <2>3, AgentNobody
  <2>5. ASSUME NEW q \in Projects, NEW y \in Texts PROVE claimFiles[<<q, y>>] # Nobody => claimFiles'[<<q, y>>] # Nobody
    BY <2>4
  <2>6. SpecifiedFirst'
    <3>1. ASSUME NEW q \in Projects, NEW y \in Texts, claimFiles'[<<q, y>>] # Nobody PROVE HasSection(q, y)
      <4>1. CASE q = p /\ y = x
        BY <2>3, <4>1
      <4>2. CASE ~(q = p /\ y = x)
        <5>1. <<q, y>> # <<p, x>>
          BY <4>2
        <5>. QED BY <1>3, <2>4, <3>1, <5>1 DEF SpecifiedFirst, HasSection
      <4>. QED BY <4>1, <4>2
    <3>2. \A q \in Projects, y \in Texts : stateFile[q] = y => claimFiles'[<<q, y>>] # Nobody
      BY <1>3, <2>5 DEF SpecifiedFirst
    <3>. QED BY <2>1, <3>1, <3>2 DEF SpecifiedFirst, HasSection
  <2>7. OneSectionPerClaim' /\ AgentTyped'
    BY <1>2, <1>3, <2>1, <2>2, <2>4 DEF AgentInv, AgentTyped, OneSectionPerClaim
  <2>8. Placed(new)
    BY <1>1, <2>3 DEF AgentRow, Placed, Holding
  <2>9. Grounded(new)'
    BY <1>1, <2>1, <2>3, <2>4 DEF AgentRow, Grounded, HasSection
  <2>. QED BY <1>1, <2>1, <2>2, <2>6, <2>7, <2>8, <2>9, <1>0, PrepareStep
<1>7. CASE SaveState(t) \/ AssessmentFails(t)
  <2>1. /\ agents' = [agents EXCEPT ![t] = Waiting] /\ a.at = "aee"
        /\ stateFile' \in {stateFile, [stateFile EXCEPT ![p] = x]}
        /\ UNCHANGED <<sections, claimFiles>> /\ lifecycle' = Nobody
    BY <1>0, <1>7 DEF SaveState, AssessmentFails, Settled, Move, Unlock, files
  <2>2. a.at \in Holding
    BY <2>1 DEF Holding
  <2>3. p \in Projects /\ x \in Texts /\ claimFiles[<<p, x>>] # Nobody
    BY <1>1, <2>1, <2>2 DEF Placed, Grounded
  <2>4. /\ stateFile' \in [Projects -> Texts \cup {Nobody}]
        /\ \A q \in Projects, y \in Texts : stateFile'[q] = y => stateFile[q] = y \/ (q = p /\ y = x)
    BY <1>2, <2>1, <2>3
  <2>5. SpecifiedFirst'
    <3>1. \A q \in Projects, y \in Texts : stateFile'[q] = y => claimFiles[<<q, y>>] # Nobody
      BY <1>3, <2>3, <2>4 DEF SpecifiedFirst
    <3>. QED BY <1>3, <2>1, <3>1 DEF SpecifiedFirst
  <2>6. OneSectionPerClaim' /\ AgentTyped'
    BY <1>2, <1>3, <2>1, <2>4, WaitingRow DEF AgentTyped, OneSectionPerClaim
  <2>7. Placed(Waiting) /\ Grounded(Waiting)' /\ Waiting.at \notin Holding
    BY WaitingRow DEF Placed, Grounded, Holding
  <2>. QED BY <2>1, <2>2, <2>5, <2>6, <2>7, WaitingRow, <1>0, PrepareStep
<1>. QED BY <1>4, <1>5, <1>6, <1>7

LEMMA EditStep ==
    ASSUME AgentInv, NEW t \in Threads, NEW x \in Texts, NEW status \in {"unsupported", "supported"},
           EditClaim(t, x, status)
    PROVE  AgentInv'
<1>. DEFINE a == agents[t]
            p == a.project
            new == [a EXCEPT !.calls = @ - 1, !.at = IF a.calls = 1 THEN "infer" ELSE "tool",
                             !.escalated = @ \/ FALSE]
<1>1. /\ agents' = [agents EXCEPT ![t] = new] /\ a.at = "tool" /\ claimFiles[<<p, x>>] # Nobody
      /\ claimFiles' = [claimFiles EXCEPT ![<<p, x>>] = status]
      /\ UNCHANGED <<sections, stateFile, lifecycle>>
  BY DEF EditClaim, AfterCall, Move
<1>2. a \in AgentRow /\ Placed(a) /\ agents \in [Threads -> AgentRow]
      /\ claimFiles \in [Projects \X Texts -> {"unsupported", "supported", Nobody}]
  BY DEF AgentInv, AgentTyped
<1>3. p \in Projects /\ a.calls \in 1 .. MaxCalls
  BY <1>1, <1>2 DEF Placed
<1>4. a.calls - 1 \in 0 .. MaxCalls /\ (a.calls # 1 => a.calls - 1 \in 1 .. MaxCalls)
  BY <1>3, AgentBounds
<1>5. new \in AgentRow /\ Placed(new) /\ new.at \notin Holding
  BY <1>2, <1>3, <1>4 DEF AgentRow, Placed, Holding
<1>6. /\ claimFiles' \in [Projects \X Texts -> {"unsupported", "supported", Nobody}]
      /\ \A k \in Projects \X Texts : claimFiles'[k] # Nobody <=> claimFiles[k] # Nobody
  BY <1>1, <1>2, <1>3, AgentNobody
<1>7. ASSUME NEW q \in Projects, NEW y \in Texts PROVE claimFiles'[<<q, y>>] # Nobody <=> claimFiles[<<q, y>>] # Nobody
  BY <1>6
<1>8. AgentTyped' /\ OneSectionPerClaim' /\ SpecifiedFirst'
  BY <1>1, <1>2, <1>5, <1>6, <1>7 DEF AgentInv, AgentTyped, OneSectionPerClaim, SpecifiedFirst
<1>9. ASSUME NEW u \in Threads PROVE (Placed(agents[u]) /\ Grounded(agents[u]) /\ (agents[u].at \in Holding => lifecycle = u))'
  <2>1. CASE u = t
    <3>1. agents'[u] = new
      BY <1>1, <1>2, <2>1
    <3>. QED BY <1>5, <3>1 DEF Placed, Grounded, Holding
  <2>2. CASE u # t
    <3>1. agents'[u] = agents[u]
      BY <1>1, <1>2, <2>2
    <3>2. Placed(agents[u]) /\ Grounded(agents[u]) /\ (agents[u].at \in Holding => lifecycle = u)
      BY DEF AgentInv
    <3>3. (agents[u].at = "aee") => agents[u].project \in Projects /\ agents[u].text \in Texts
      BY <3>2 DEF Placed, Holding
    <3>. QED BY <1>1, <1>7, <3>1, <3>2, <3>3 DEF Placed, Grounded, HasSection
  <2>. QED BY <2>1, <2>2
<1>. QED BY <1>8, <1>9 DEF AgentInv

LEMMA NextAgents == AgentInv /\ [AgentNext]_agentVars => AgentInv'
<1>. SUFFICES ASSUME AgentInv, [AgentNext]_agentVars PROVE AgentInv'
  OBVIOUS
<1>1. CASE AdapterRestarts
  <2>1. /\ agents' = [t \in Threads |-> Waiting] /\ lifecycle' = Nobody
        /\ UNCHANGED <<sections, claimFiles, stateFile>>
    BY <1>1 DEF AdapterRestarts, files
  <2>2. AgentTyped' /\ OneSectionPerClaim' /\ SpecifiedFirst'
    BY <2>1, WaitingRow DEF AgentInv, AgentTyped, OneSectionPerClaim, SpecifiedFirst
  <2>. QED BY <2>1, <2>2, WaitingRow DEF AgentInv, Placed, Grounded, Holding
<1>2. CASE UNCHANGED agentVars
  BY <1>2 DEF agentVars, AgentInv, AgentTyped, OneSectionPerClaim, SpecifiedFirst, Placed, Grounded, HasSection
<1>. QED BY <1>1, <1>2, QuietSteps, PrepareSteps, EditStep DEF AgentNext

\* However chats and onboardings of a project overlap and the adapter is killed,
\* spec.md has one section for a claim, a claims file only with its section and
\* state.json only a claim with its file (aee_lifecycle prepare, assess_feature).
THEOREM LifecyclesSound == AgentSpec => []LifecycleSound
<1>1. AgentInv => LifecycleSound
  <2>. SUFFICES ASSUME AgentInv PROVE LifecycleSound
    OBVIOUS
  <2>1. AgentTypeOK
    <3>1. \A p \in Projects : sections[p] \in Seq(Texts)
      BY DEF AgentInv, AgentTyped
    <3>2. \A p \in Projects : \A i \in 1 .. Len(sections[p]) : sections[p][i] \in Texts
      BY <3>1
    <3>3. \A t \in Threads : agents[t].left \in 0 .. MaxSteps /\ agents[t].calls \in 0 .. MaxCalls
      BY DEF AgentInv, AgentTyped, AgentRow
    <3>. QED BY <3>2, <3>3 DEF AgentInv, AgentTyped, AgentTypeOK
  <2>. QED BY <2>1 DEF AgentInv, LifecycleSound
<1>2. AgentSpec => []AgentInv
  BY InitAgents, NextAgents, PTL DEF AgentSpec
<1>. QED BY <1>1, <1>2, PTL

-----------------------------------------------------------------------------
(* ---- the requirement contract.  What its files hold whatever commands     *)
(* interleave, and what a command that is alone relies on.                   *)
\* A manifest in which every requirement that a gate names is registered.
GatesRegistered(m) ==
    /\ DOMAIN m = {"requirements", "gates"}
    /\ DOMAIN m.requirements \subseteq ReqIds
    /\ \A r \in DOMAIN m.requirements : m.requirements[r] \subseteq ReqTests
    /\ DOMAIN m.gates \subseteq Gates
    /\ \A g \in DOMAIN m.gates : m.gates[g].requirements \subseteq DOMAIN m.requirements

EvidenceWritten(e) == e.package \in Packages /\ e.test \in ReqTests /\ e.envelope \in Envelopes

\* What a process can still have to write: the shapes of AppendReleaseTest, of
\* AppendRequirement and of RecordEvidence, and what is left of them.
PendingManifest(s, m) == GatesRegistered(m) /\ s = <<FileWrite("manifest", m)>>
PendingBoth(s, m, w) ==
    /\ GatesRegistered(m) /\ w \subseteq ReqIds
    /\ s = <<FileWrite("manifest", m), FileWrite("wording", w)>>
PendingWording(s, w) == w \subseteq ReqIds /\ s = <<FileWrite("wording", w)>>
PendingEvidence(s, e) == EvidenceWritten(e) /\ s = <<FileWrite("evidence", e)>>

WritesPending(s) ==
    \/ s = <<>>
    \/ \E m : PendingManifest(s, m)
    \/ \E m, w : PendingBoth(s, m, w)
    \/ \E w : PendingWording(s, w)
    \/ \E e : PendingEvidence(s, e)

\* A process that is alone was started on the files as they are.
StartedOn(s) ==
    /\ \A m : PendingManifest(s, m) => wording \subseteq DOMAIN m.requirements
    /\ \A m, w : PendingBoth(s, m, w) => wording \cup w \subseteq DOMAIN m.requirements
    /\ \A w : PendingWording(s, w) => manifest = Torn \/ w \subseteq DOMAIN manifest.requirements

ContractFiles ==
    /\ manifest = Torn \/ GatesRegistered(manifest)
    /\ wording \subseteq ReqIds
    /\ evidence \in [Packages \X ReqTests -> Envelopes \cup {NoEnvelope, Torn}]

ContractInv ==
    /\ ContractFiles
    /\ DOMAIN reqProc = ReqCommands
    /\ \A p \in ReqCommands : WritesPending(reqProc[p])
    /\ overlapped \in BOOLEAN
    /\ ~overlapped =>
         /\ \A p, q \in ReqCommands : reqProc[p] # <<>> /\ reqProc[q] # <<>> => p = q
         /\ manifest = Torn \/ wording \subseteq DOMAIN manifest.requirements
         /\ \A p \in ReqCommands : StartedOn(reqProc[p])

LEMMA RequirementAdded ==
    ASSUME NEW m, GatesRegistered(m), NEW r \in ReqIds, NEW t \in ReqTests
    PROVE  /\ GatesRegistered(WithRequirement(m, r, {t}))
           /\ DOMAIN WithRequirement(m, r, {t}).requirements = DOMAIN m.requirements \cup {r}
BY DEF GatesRegistered, WithRequirement, Entered

LEMMA GateAdded ==
    ASSUME NEW m, GatesRegistered(m), NEW r \in DOMAIN m.requirements, NEW g \in Gates \cup {NoGate}, NEW ts
    PROVE  /\ GatesRegistered(WithGate(m, g, r, ts))
           /\ DOMAIN WithGate(m, g, r, ts).requirements = DOMAIN m.requirements
<1>1. CASE g = NoGate
  BY <1>1 DEF WithGate
<1>2. CASE g # NoGate
  <2> DEFINE old == m.gates
             row == IF g \in DOMAIN old
                    THEN [requirements |-> old[g].requirements \cup {r}, tests |-> old[g].tests \cup ts]
                    ELSE [requirements |-> {r}, tests |-> ts]
             new == Entered(old, g, row)
  <2>1. WithGate(m, g, r, ts) = [m EXCEPT !.gates = new]
    BY <1>2 DEF WithGate
  <2>2. DOMAIN new = DOMAIN old \cup {g} /\ new[g] = row /\ \A h \in DOMAIN old \ {g} : new[h] = old[h]
    BY DEF Entered
  <2>3. new[g].requirements \subseteq DOMAIN m.requirements
    <3>1. g \in DOMAIN old => old[g].requirements \subseteq DOMAIN m.requirements
      BY DEF GatesRegistered
    <3>2. QED
      BY <2>2, <3>1
  <2> HIDE DEF new
  <2>4. WithGate(m, g, r, ts).requirements = m.requirements /\ WithGate(m, g, r, ts).gates = new
        /\ DOMAIN WithGate(m, g, r, ts) = {"requirements", "gates"}
    BY <2>1 DEF GatesRegistered
  <2>5. QED
    BY <1>2, <2>2, <2>3, <2>4 DEF GatesRegistered
<1>3. QED
  BY <1>1, <1>2

LEMMA ShapesDiffer ==
    ASSUME NEW s
    PROVE  /\ \A m, n : PendingManifest(s, m) /\ PendingManifest(s, n) => m = n
           /\ \A m, n, w, v : PendingBoth(s, m, w) /\ PendingBoth(s, n, v) => m = n /\ w = v
           /\ \A w, v : PendingWording(s, w) /\ PendingWording(s, v) => v = w
           /\ \A m, n, w : ~(PendingManifest(s, m) /\ PendingBoth(s, n, w))
           /\ \A m, w : ~(PendingManifest(s, m) /\ PendingWording(s, w))
           /\ \A m, w, v : ~(PendingBoth(s, m, w) /\ PendingWording(s, v))
           /\ \A e, m : ~(PendingEvidence(s, e) /\ PendingManifest(s, m))
           /\ \A e, m, w : ~(PendingEvidence(s, e) /\ PendingBoth(s, m, w))
           /\ \A e, w : ~(PendingEvidence(s, e) /\ PendingWording(s, w))
<1> USE DEF FileWrite
<1>1. \A m, n : PendingManifest(s, m) /\ PendingManifest(s, n) => m = n
  BY DEF PendingManifest
<1>2. \A m, n, w, v : PendingBoth(s, m, w) /\ PendingBoth(s, n, v) => m = n /\ w = v
  BY DEF PendingBoth
<1>3. \A w, v : PendingWording(s, w) /\ PendingWording(s, v) => v = w
  BY DEF PendingWording
<1>4. \A m, n, w : ~(PendingManifest(s, m) /\ PendingBoth(s, n, w))
  BY DEF PendingManifest, PendingBoth
<1>5. \A m, w : ~(PendingManifest(s, m) /\ PendingWording(s, w))
  BY DEF PendingManifest, PendingWording
<1>6. \A m, w, v : ~(PendingBoth(s, m, w) /\ PendingWording(s, v))
  BY DEF PendingBoth, PendingWording
<1>7. \A e, m : ~(PendingEvidence(s, e) /\ PendingManifest(s, m))
  BY DEF PendingEvidence, PendingManifest
<1>8. \A e, m, w : ~(PendingEvidence(s, e) /\ PendingBoth(s, m, w))
  BY DEF PendingEvidence, PendingBoth
<1>9. \A e, w : ~(PendingEvidence(s, e) /\ PendingWording(s, w))
  BY DEF PendingEvidence, PendingWording
<1>10. QED
  BY <1>1, <1>2, <1>3, <1>4, <1>5, <1>6, <1>7, <1>8, <1>9

\* A process with nothing left to write constrains nothing, before or after a step.
LEMMA FinishedStarted ==
    \A s : s = <<>> => StartedOn(s) /\ StartedOn(s)'
BY DEF PendingManifest, PendingBoth, PendingWording, StartedOn, FileWrite

\* What every start has in common: its writes are of a known shape and, where
\* nothing else is under way, made from the files as they are.
LEMMA CommandBegins ==
    ASSUME ContractInv, NEW p \in ReqCommands, NEW s, Begin(p, s), WritesPending(s), ~overlapped => StartedOn(s)
    PROVE  ContractInv'
<1>1. UNCHANGED <<manifest, wording, evidence>> /\ reqProc[p] = <<>> /\ reqProc' = [reqProc EXCEPT ![p] = s]
      /\ overlapped' = (overlapped \/ \E q \in ReqCommands : reqProc[q] # <<>>)
  BY DEF Begin
<1>2. ContractFiles' /\ DOMAIN reqProc' = ReqCommands /\ overlapped' \in BOOLEAN
  BY <1>1 DEF ContractInv, ContractFiles
<1>3. reqProc'[p] = s /\ \A q \in ReqCommands \ {p} : reqProc'[q] = reqProc[q]
  BY <1>1 DEF ContractInv
<1>4. \A q \in ReqCommands : WritesPending(reqProc'[q])
  BY <1>3 DEF ContractInv
<1>5. ASSUME ~overlapped'
      PROVE  /\ \A q, o \in ReqCommands : reqProc'[q] # <<>> /\ reqProc'[o] # <<>> => q = o
             /\ manifest' = Torn \/ wording' \subseteq DOMAIN manifest'.requirements
             /\ \A q \in ReqCommands : StartedOn(reqProc[q])' 
  <2>1. ~overlapped /\ \A q \in ReqCommands : reqProc[q] = <<>>
    BY <1>1, <1>5
  <2>2. \A q, o \in ReqCommands : reqProc'[q] # <<>> /\ reqProc'[o] # <<>> => q = o
    BY <2>1, <1>3
  <2>3. manifest' = Torn \/ wording' \subseteq DOMAIN manifest'.requirements
    BY <1>1, <2>1 DEF ContractInv
  <2>4. \A q \in ReqCommands : StartedOn(reqProc[q])' 
    BY <1>1, <1>3, <2>1 DEF ContractInv, StartedOn
  <2>5. QED
    BY <2>2, <2>3, <2>4
<1>6. QED
  BY <1>2, <1>4, <1>5 DEF ContractInv, WritesPending, PendingManifest, PendingBoth, PendingWording, PendingEvidence, GatesRegistered, EvidenceWritten, FileWrite

LEMMA RequirementAppended ==
    ASSUME ContractInv, NEW p \in ReqCommands, NEW r \in ReqIds, NEW t \in ReqTests, NEW g \in Gates \cup {NoGate},
           AppendRequirement(p, r, {t}, g)
    PROVE  ContractInv'
<1> DEFINE m == WithGate(WithRequirement(manifest, r, {t}), g, r, {t})
           s == <<FileWrite("manifest", m), FileWrite("wording", wording \cup {r})>>
<1>1. GatesRegistered(m) /\ DOMAIN m.requirements = DOMAIN manifest.requirements \cup {r}
  <2>1. GatesRegistered(manifest)
    BY DEF ContractInv, ContractFiles, AppendRequirement
  <2>2. /\ GatesRegistered(WithRequirement(manifest, r, {t}))
        /\ DOMAIN WithRequirement(manifest, r, {t}).requirements = DOMAIN manifest.requirements \cup {r}
    BY <2>1, RequirementAdded
  <2>3. QED
    BY <2>2, GateAdded
<1>2. Begin(p, s)
  BY DEF AppendRequirement
<1> HIDE DEF m
<1>3. PendingBoth(s, m, wording \cup {r})
  BY <1>1 DEF PendingBoth, ContractInv, ContractFiles
<1> HIDE DEF s
<1>4. WritesPending(s)
  BY <1>3 DEF WritesPending
<1>5. ~overlapped => StartedOn(s)
  <2>1. \A n, w : PendingBoth(s, n, w) => n = m /\ w = wording \cup {r}
    BY <1>3, ShapesDiffer
  <2>2. \A n : ~PendingManifest(s, n) /\ ~PendingWording(s, n)
    BY <1>3, ShapesDiffer
  <2>3. ~overlapped => wording \subseteq DOMAIN manifest.requirements
    BY DEF ContractInv, AppendRequirement
  <2>4. QED
    BY <1>1, <2>1, <2>2, <2>3 DEF StartedOn
<1>6. QED
  BY <1>2, <1>4, <1>5, CommandBegins

LEMMA ReleaseTestAppended ==
    ASSUME ContractInv, NEW p \in ReqCommands, NEW r \in ReqIds, NEW t \in ReqTests, NEW g \in Gates \cup {NoGate},
           AppendReleaseTest(p, r, t, g)
    PROVE  ContractInv'
<1> DEFINE added == [manifest EXCEPT !.requirements[r] = @ \cup {t}]
           m == WithGate(added, g, r, {t})
           s == <<FileWrite("manifest", m)>>
<1>1. GatesRegistered(m) /\ DOMAIN m.requirements = DOMAIN manifest.requirements
  <2>1. GatesRegistered(manifest) /\ r \in DOMAIN manifest.requirements
    BY DEF ContractInv, ContractFiles, AppendReleaseTest
  <2>2. GatesRegistered(added) /\ DOMAIN added.requirements = DOMAIN manifest.requirements
    <3>1. DOMAIN manifest = {"requirements", "gates"}
      BY <2>1 DEF GatesRegistered
    <3>2. /\ DOMAIN added = {"requirements", "gates"} /\ added.gates = manifest.gates
          /\ added.requirements = [manifest.requirements EXCEPT ![r] = @ \cup {t}]
      BY <3>1
    <3> HIDE DEF added
    <3>3. /\ DOMAIN added.requirements = DOMAIN manifest.requirements
          /\ \A q \in DOMAIN manifest.requirements :
                added.requirements[q] \subseteq manifest.requirements[q] \cup {t}
      BY <2>1, <3>2
    <3>4. \A q \in DOMAIN manifest.requirements : added.requirements[q] \subseteq ReqTests
      BY <2>1, <3>3 DEF GatesRegistered
    <3>5. /\ DOMAIN manifest.requirements \subseteq ReqIds /\ DOMAIN manifest.gates \subseteq Gates
          /\ \A h \in DOMAIN manifest.gates : manifest.gates[h].requirements \subseteq DOMAIN manifest.requirements
      BY <2>1 DEF GatesRegistered
    <3>6. /\ DOMAIN added.requirements \subseteq ReqIds /\ DOMAIN added.gates \subseteq Gates
          /\ \A h \in DOMAIN added.gates : added.gates[h].requirements \subseteq DOMAIN added.requirements
      BY <3>2, <3>3, <3>5
    <3>7. \A q \in DOMAIN added.requirements : added.requirements[q] \subseteq ReqTests
      BY <3>3, <3>4
    <3>8. DOMAIN added = {"requirements", "gates"}
      BY <3>2
    <3>9. GatesRegistered(added)
      BY <3>6, <3>7, <3>8 DEF GatesRegistered
    <3>10. QED
      BY <3>3, <3>9
  <2> HIDE DEF added
  <2>3. QED
    BY <2>1, <2>2, GateAdded
<1>2. Begin(p, s)
  BY DEF AppendReleaseTest
<1> HIDE DEF m
<1>3. PendingManifest(s, m)
  BY <1>1 DEF PendingManifest
<1> HIDE DEF s
<1>4. WritesPending(s)
  BY <1>3 DEF WritesPending
<1>5. ~overlapped => StartedOn(s)
  <2>1. \A n : PendingManifest(s, n) => n = m
    BY <1>3, ShapesDiffer
  <2>2. \A n, w : ~PendingBoth(s, n, w) /\ ~PendingWording(s, w)
    BY <1>3, ShapesDiffer
  <2>3. ~overlapped => wording \subseteq DOMAIN manifest.requirements
    BY DEF ContractInv, AppendReleaseTest
  <2>4. QED
    BY <1>1, <2>1, <2>2, <2>3 DEF StartedOn
<1>6. QED
  BY <1>2, <1>4, <1>5, CommandBegins

LEMMA EvidenceRecorded ==
    ASSUME ContractInv, NEW p \in ReqCommands, NEW w \in Packages, NEW t \in ReqTests, NEW rs \in SUBSET ReqIds \ {{}},
           NEW status \in {"observed_pass", "observed_fail"}, RecordEvidence(p, w, t, rs, status)
    PROVE  ContractInv'
<1> DEFINE e == [package |-> w, test |-> t, envelope |-> [requirements |-> rs, status |-> status]]
           s == <<FileWrite("evidence", e)>>
<1>1. EvidenceWritten(e)
  BY DEF EvidenceWritten, Envelopes
<1>2. Begin(p, s)
  BY DEF RecordEvidence
<1> HIDE DEF e
<1>3. PendingEvidence(s, e)
  BY <1>1 DEF PendingEvidence
<1> HIDE DEF s
<1>4. WritesPending(s)
  BY <1>3 DEF WritesPending
<1>5. StartedOn(s)
  BY <1>3, ShapesDiffer DEF StartedOn
<1>6. QED
  BY <1>2, <1>4, <1>5, CommandBegins

\* What every write has in common: the process goes on with what is left, and
\* the files stay as they should be for it and, if it is alone, for its rest.
LEMMA CommandGoesOn ==
    ASSUME ContractInv, NEW p \in ReqCommands, NEW s, reqProc[p] # <<>>,
           reqProc' = [reqProc EXCEPT ![p] = s] \/ (UNCHANGED reqProc /\ s = reqProc[p]),
           UNCHANGED overlapped, WritesPending(s), ContractFiles',
           ~overlapped => manifest' = Torn \/ wording' \subseteq DOMAIN manifest'.requirements,
           ~overlapped => \A o : o = s \/ o = <<>> => StartedOn(o)'
    PROVE  ContractInv'
<1>1. reqProc'[p] = s /\ (\A q \in ReqCommands \ {p} : reqProc'[q] = reqProc[q]) /\ DOMAIN reqProc' = ReqCommands
  BY DEF ContractInv
<1>2. \A q \in ReqCommands : WritesPending(reqProc'[q])
  BY <1>1 DEF ContractInv
<1>3. ~overlapped => \A q \in ReqCommands \ {p} : reqProc[q] = <<>>
  BY DEF ContractInv
<1>4. QED
  BY <1>1, <1>2, <1>3 DEF ContractInv, WritesPending, PendingManifest, PendingBoth, PendingWording, PendingEvidence, GatesRegistered, EvidenceWritten, FileWrite

\* The next file is opened and emptied: what is still to write stays as it was.
LEMMA FileOpened ==
    ASSUME ContractInv, NEW p \in ReqCommands, OpenFile(p)
    PROVE  ContractInv'
<1> DEFINE w == NextWrite(p)
           s == reqProc[p]
<1>1. /\ reqProc[p] # <<>> /\ UNCHANGED <<overlapped, reqProc>>
      /\ \/ manifest' = Torn /\ UNCHANGED <<wording, evidence>>
         \/ wording' = {} /\ UNCHANGED <<manifest, evidence>>
         \/ UNCHANGED <<manifest, wording>> /\ evidence' = [evidence EXCEPT ![<<w.new.package, w.new.test>>] = Torn]
  BY DEF OpenFile, PutEnvelope
<1>2. ContractFiles /\ WritesPending(s) /\ DOMAIN reqProc = ReqCommands
      /\ (~overlapped => StartedOn(s) /\ (manifest = Torn \/ wording \subseteq DOMAIN manifest.requirements))
  BY DEF ContractInv
<1>3. UNCHANGED reqProc /\ s = reqProc[p]
  BY <1>1
<1>4. evidence' \in [Packages \X ReqTests -> Envelopes \cup {NoEnvelope, Torn}]
  BY <1>1, <1>2 DEF ContractFiles
<1>5. manifest' = Torn \/ GatesRegistered(manifest)'
  BY <1>1, <1>2 DEF ContractFiles, GatesRegistered
<1>6. wording' \subseteq wording
  BY <1>1
<1>7. ContractFiles'
  BY <1>2, <1>4, <1>5, <1>6 DEF ContractFiles, GatesRegistered
<1>8. ~overlapped => manifest' = Torn \/ wording' \subseteq DOMAIN manifest'.requirements
  BY <1>1, <1>2, <1>6
<1>9. ~overlapped => StartedOn(s)'
  <2>1. manifest' = Torn \/ manifest' = manifest
    BY <1>1
  <2>2. QED
    BY <1>1, <1>2, <1>6, <2>1 DEF StartedOn, PendingManifest, PendingBoth, PendingWording, GatesRegistered, FileWrite
<1> HIDE DEF s
<1>10. ~overlapped => \A o : o = s \/ o = <<>> => StartedOn(o)'
  <2>1. \A o : o = <<>> => StartedOn(o)'
    BY FinishedStarted
  <2>2. ~overlapped => \A o : o = s => StartedOn(o)'
    <3>1. SUFFICES ASSUME ~overlapped, NEW o, o = s PROVE StartedOn(o)'
      OBVIOUS
    <3>2. s' = s
      BY <1>1 DEF s
    <3>3. QED
      BY <1>9, <3>1, <3>2 DEF StartedOn, PendingManifest, PendingBoth, PendingWording, GatesRegistered, FileWrite
  <2>3. QED
    BY <2>1, <2>2
<1>11. reqProc[p] # <<>> /\ WritesPending(s)
  BY <1>1, <1>2
<1>12. QED
  BY <1>1, <1>3, <1>7, <1>8, <1>10, <1>11, CommandGoesOn

\* It is filled, or, when another fills it too, left a mixture of both texts.
LEMMA FileWritten ==
    ASSUME ContractInv, NEW p \in ReqCommands, WriteFile(p)
    PROVE  ContractInv'
<1> DEFINE w == Head(reqProc[p])
           s == Tail(reqProc[p])
<1>1. /\ reqProc[p] # <<>> /\ UNCHANGED overlapped /\ reqProc' = [reqProc EXCEPT ![p] = s]
      /\ \/ /\ w.file = "manifest" /\ UNCHANGED <<wording, evidence>>
            /\ manifest' = w.new \/ (overlapped /\ manifest' = Torn)
         \/ /\ w.file = "wording" /\ UNCHANGED <<manifest, evidence>>
            /\ wording' = w.new \/ (overlapped /\ wording' = wording \cup w.new)
         \/ /\ w.file = "evidence" /\ UNCHANGED <<manifest, wording>>
            /\ \/ evidence' = [evidence EXCEPT ![<<w.new.package, w.new.test>>] = w.new.envelope]
               \/ evidence' = [evidence EXCEPT ![<<w.new.package, w.new.test>>] = Torn]
  BY DEF WriteFile, ContractInv, PutEnvelope, NextWrite
<1>2. WritesPending(reqProc[p]) /\ ContractFiles
      /\ (~overlapped => StartedOn(reqProc[p]) /\ (manifest = Torn \/ wording \subseteq DOMAIN manifest.requirements))
  BY DEF ContractInv
<1>3. CASE \E m : PendingManifest(reqProc[p], m)
  <2>1. PICK m : PendingManifest(reqProc[p], m)
    BY <1>3
  <2>2. w = [file |-> "manifest", new |-> m] /\ s = <<>> /\ GatesRegistered(m)
    BY <2>1 DEF PendingManifest, FileWrite
  <2>3. (manifest' = m \/ (overlapped /\ manifest' = Torn)) /\ UNCHANGED <<wording, evidence>>
    BY <1>1, <2>2
  <2>4. ContractFiles'
    BY <1>2, <2>2, <2>3 DEF ContractFiles, GatesRegistered
  <2>5. ~overlapped => wording' \subseteq DOMAIN manifest'.requirements
    BY <1>2, <2>1, <2>3 DEF StartedOn
  <2>6. \A o : o = s \/ o = <<>> => StartedOn(o)'
    BY <2>2, FinishedStarted
  <2>7. WritesPending(s)
    BY <2>2 DEF WritesPending
  <2>8. QED
    BY <1>1, <2>4, <2>5, <2>6, <2>7, CommandGoesOn
<1>4. CASE \E m, v : PendingBoth(reqProc[p], m, v)
  <2>1. PICK m, v : PendingBoth(reqProc[p], m, v)
    BY <1>4
  <2>2. w = [file |-> "manifest", new |-> m] /\ s = <<FileWrite("wording", v)>> /\ GatesRegistered(m)
    BY <2>1 DEF PendingBoth, FileWrite
  <2>3. (manifest' = m \/ (overlapped /\ manifest' = Torn)) /\ UNCHANGED <<wording, evidence>>
    BY <1>1, <2>2
  <2>4. ContractFiles'
    BY <1>2, <2>2, <2>3 DEF ContractFiles, GatesRegistered
  <2>5. ~overlapped => wording' \cup v \subseteq DOMAIN manifest'.requirements
    BY <1>2, <2>1, <2>3 DEF StartedOn
  <2>6. PendingWording(s, v)
    BY <2>1, <2>2 DEF PendingBoth, PendingWording
  <2> HIDE DEF s
  <2>7. ~overlapped => \A o : o = s => StartedOn(o)'
    <3>1. \A u : PendingWording(s, u) => u = v
      BY <2>6, ShapesDiffer
    <3>2. \A n, u : ~PendingManifest(s, n) /\ ~PendingBoth(s, n, u)
      BY <2>6, ShapesDiffer
    <3>3. QED
      BY <2>5, <3>1, <3>2 DEF StartedOn, PendingManifest, PendingBoth, PendingWording, GatesRegistered, FileWrite
  <2>8. \A o : o = <<>> => StartedOn(o)'
    BY FinishedStarted
  <2>9. WritesPending(s)
    BY <2>6 DEF WritesPending
  <2>10. QED
    BY <1>1, <2>4, <2>5, <2>7, <2>8, <2>9, CommandGoesOn
<1>5. CASE \E v : PendingWording(reqProc[p], v)
  <2>1. PICK v : PendingWording(reqProc[p], v)
    BY <1>5
  <2>2. w = [file |-> "wording", new |-> v] /\ s = <<>> /\ v \subseteq ReqIds
    BY <2>1 DEF PendingWording, FileWrite
  <2>3. (wording' = v \/ (overlapped /\ wording' = wording \cup v)) /\ UNCHANGED <<manifest, evidence>>
    BY <1>1, <2>2
  <2>4. ContractFiles'
    BY <1>2, <2>2, <2>3 DEF ContractFiles, GatesRegistered
  <2>5. ~overlapped => manifest' = Torn \/ wording' \subseteq DOMAIN manifest'.requirements
    BY <1>2, <2>1, <2>3 DEF StartedOn
  <2>6. \A o : o = s \/ o = <<>> => StartedOn(o)'
    BY <2>2, FinishedStarted
  <2>7. WritesPending(s)
    BY <2>2 DEF WritesPending
  <2>8. QED
    BY <1>1, <2>4, <2>5, <2>6, <2>7, CommandGoesOn
<1>6. CASE \E e : PendingEvidence(reqProc[p], e)
  <2>1. PICK e : PendingEvidence(reqProc[p], e)
    BY <1>6
  <2>2. w = [file |-> "evidence", new |-> e] /\ s = <<>> /\ EvidenceWritten(e)
    BY <2>1 DEF PendingEvidence, FileWrite
  <2>3. /\ UNCHANGED <<manifest, wording>>
        /\ \/ evidence' = [evidence EXCEPT ![<<e.package, e.test>>] = e.envelope]
           \/ evidence' = [evidence EXCEPT ![<<e.package, e.test>>] = Torn]
    <3>1. w.file = "evidence" /\ w.new = e
      BY <2>2
    <3> HIDE DEF w
    <3>2. QED
      BY <1>1, <3>1
  <2>4. ContractFiles'
    BY <1>2, <2>2, <2>3 DEF ContractFiles, GatesRegistered, EvidenceWritten
  <2>5. ~overlapped => manifest' = Torn \/ wording' \subseteq DOMAIN manifest'.requirements
    BY <1>2, <2>3
  <2>6. \A o : o = s \/ o = <<>> => StartedOn(o)'
    BY <2>2, FinishedStarted
  <2>7. WritesPending(s)
    BY <2>2 DEF WritesPending
  <2>8. QED
    BY <1>1, <2>4, <2>5, <2>6, <2>7, CommandGoesOn
<1>7. QED
  BY <1>1, <1>2, <1>3, <1>4, <1>5, <1>6 DEF WritesPending

LEMMA CommandKilled ==
    ASSUME ContractInv, NEW p \in ReqCommands, Killed(p)
    PROVE  ContractInv'
<1> DEFINE w == Head(reqProc[p])
<1>1. /\ reqProc[p] # <<>> /\ reqProc' = [reqProc EXCEPT ![p] = <<>>]
      /\ UNCHANGED <<manifest, evidence, overlapped>>
      /\ UNCHANGED wording \/ (w.file = "wording" /\ wording' \subseteq w.new)
  BY DEF Killed, NextWrite
<1>2. /\ ContractFiles /\ WritesPending(reqProc[p])
      /\ ~overlapped => StartedOn(reqProc[p]) /\ (manifest = Torn \/ wording \subseteq DOMAIN manifest.requirements)
  BY DEF ContractInv
<1>3. /\ wording' \subseteq ReqIds
      /\ ~overlapped => manifest = Torn \/ wording' \subseteq DOMAIN manifest.requirements
  <2>1. CASE UNCHANGED wording
    BY <1>2, <2>1 DEF ContractFiles
  <2>2. CASE w.file = "wording" /\ wording' \subseteq w.new
    <3>1. \A m, v : ~PendingManifest(reqProc[p], m) /\ ~PendingBoth(reqProc[p], m, v) /\ ~PendingEvidence(reqProc[p], m)
      BY <2>2 DEF PendingManifest, PendingBoth, PendingEvidence, FileWrite
    <3>2. PICK v : PendingWording(reqProc[p], v)
      BY <1>1, <1>2, <3>1 DEF WritesPending
    <3>3. w.new = v /\ v \subseteq ReqIds
      BY <3>2 DEF PendingWording, FileWrite
    <3>4. ~overlapped => manifest = Torn \/ v \subseteq DOMAIN manifest.requirements
      BY <1>2, <3>2 DEF StartedOn
    <3>5. QED
      BY <2>2, <3>3, <3>4
  <2>3. QED
    BY <1>1, <2>1, <2>2
<1>4. ContractFiles'
  BY <1>1, <1>2, <1>3 DEF ContractFiles, GatesRegistered
<1>5. \A o : o = <<>> => StartedOn(o)'
  BY FinishedStarted
<1>6. WritesPending(<<>>)
  BY DEF WritesPending
<1>7. QED
  BY <1>1, <1>3, <1>4, <1>5, <1>6, CommandGoesOn

LEMMA ContractInvariant == ReqSpec => []ContractInv
<1>1. ReqInit => ContractInv
  <2>1. ASSUME ReqInit PROVE ContractInv
    <3>1. GatesRegistered(manifest) /\ wording = {}
      BY <2>1 DEF ReqInit, GatesRegistered
    <3>2. ContractFiles
      BY <2>1, <3>1 DEF ReqInit, ContractFiles
    <3>3. DOMAIN reqProc = ReqCommands /\ \A p \in ReqCommands : reqProc[p] = <<>>
      BY <2>1 DEF ReqInit
    <3>4. \A p \in ReqCommands : WritesPending(reqProc[p]) /\ StartedOn(reqProc[p])
      BY <3>3, FinishedStarted DEF WritesPending
    <3>5. QED
      BY <2>1, <3>1, <3>2, <3>3, <3>4 DEF ReqInit, ContractInv
  <2>2. QED
    BY <2>1
<1>2. ContractInv /\ [ReqNext]_reqVars => ContractInv'
  <2> SUFFICES ASSUME ContractInv, [ReqNext]_reqVars PROVE ContractInv'
    OBVIOUS
  <2>1. CASE ReqNext
    <3>1. PICK p \in ReqCommands : ReqCommand(p) \/ OpenFile(p) \/ WriteFile(p) \/ Killed(p)
      BY <2>1 DEF ReqNext
    <3>2. CASE ReqCommand(p)
      BY <3>2, RequirementAppended, ReleaseTestAppended, EvidenceRecorded DEF ReqCommand
    <3>3. QED
      BY <3>1, <3>2, FileOpened, FileWritten, CommandKilled
  <2>2. CASE UNCHANGED reqVars
    BY <2>2 DEF reqVars, ContractInv, ContractFiles, GatesRegistered, WritesPending, StartedOn,
                PendingManifest, PendingBoth, PendingWording, PendingEvidence, EvidenceWritten, FileWrite
  <2>3. QED
    BY <2>1, <2>2
<1>3. QED
  BY <1>1, <1>2, PTL DEF ReqSpec

LEMMA ContractConsequence == ContractInv => ContractSound
<1> SUFFICES ASSUME ContractInv PROVE ContractSound
  OBVIOUS
<1>1. ReqTypeOK /\ (manifest = Torn \/ GatesRegistered(manifest))
  BY DEF ContractInv, ContractFiles, GatesRegistered, ReqTypeOK
<1>2. ASSUME manifest # Torn, NEW g \in DOMAIN manifest.gates, GatePasses(g), NEW r \in manifest.gates[g].requirements
      PROVE  r \in DOMAIN manifest.requirements /\ CoverageStatus(r) = "COVERED"
  <2>1. r \in DOMAIN manifest.requirements
    BY <1>1, <1>2 DEF GatesRegistered
  <2>2. \E e \in Loaded : IsReleaseReady(e) /\ r \in e.requirements
    BY <1>2 DEF GatePasses, GateMissing
  <2>3. \E e \in EvidenceOf(r) : IsReleaseReady(e)
    BY <2>2 DEF EvidenceOf
  <2>4. CoverageStatus(r) = "COVERED"
    BY <2>3 DEF CoverageStatus
  <2>5. QED
    BY <2>1, <2>4
<1>3. WordingRegistered
  BY DEF ContractInv, WordingRegistered
<1>4. QED
  BY <1>1, <1>2, <1>3 DEF ContractSound, PassedGateCovered

\* However `req` commands interleave and die, between two files or in the middle of
\* one, a gate that gate_report passes asks for registered requirements that
\* coverage_report counts as covered, and as long as none overlapped, every
\* requirement with wording is in the manifest, or the manifest is no JSON and
\* append_requirement and the reports refuse it.
THEOREM ContractHolds == ReqSpec => []ContractSound
<1>1. ReqSpec => []ContractInv
  BY ContractInvariant
<1>2. QED
  BY <1>1, ContractConsequence, PTL

-----------------------------------------------------------------------------
(* ---- the administrator.  What a thread holds between its steps, and the   *)
(* tables, the backup and the lists.                                         *)
\* A thread that is about to store a secret sealed it with the key of now.
InHand(d) ==
    /\ d.op = "store" => d.row \in Secrets /\ d.row.sealedWith = masterKey /\ d.known \in BOOLEAN
    /\ d.op = "persist" => d.policy \subseteq Sections

ThreadsSound ==
    /\ DOMAIN doing = Admins
    /\ \A a \in Admins : InHand(doing[a])
    /\ adminOps \in Nat

OnePerName(rows) == \A s, t \in rows : s.name = t.name => s = t

RowsTyped == Database \in Databases /\ policy \subseteq Sections

VaultSound == masterKey \in Nat /\ OneSecretPerName /\ SecretsReadable

\* A backup that can be restored is what the database held at the time.
BackupSound ==
    backupFile # NoRow =>
        /\ backupFile.rows \in Databases /\ OnePerName(backupFile.rows.vault)
        /\ backupFile.kind = "sqlite" => atBackup = backupFile.rows

ListsSound ==
    /\ hooks \in Seq(Nat) /\ \A i \in 1 .. Len(hooks) : hooks[i] <= adminOps
    /\ alerts \in Seq([id: Nat, acked: BOOLEAN]) /\ raised \in Nat
    /\ NewestKept

AdminInv == ThreadsSound /\ RowsTyped /\ VaultSound /\ BackupSound /\ ListsSound

LEMMA NewestProperties ==
    ASSUME NEW S, NEW list \in Seq(S), NEW limit \in Nat \ {0}
    PROVE  /\ Newest(list, limit) \in Seq(S)
           /\ Len(Newest(list, limit)) <= Len(list)
           /\ list # <<>> => Newest(list, limit) # <<>>
           /\ \A i \in 1 .. Len(Newest(list, limit)) :
                 Newest(list, limit)[i] = list[Len(list) - Len(Newest(list, limit)) + i]
<1>1. Len(list) \in Nat
  BY LenProperties
<1>2. CASE Len(list) <= limit
  <2>1. Newest(list, limit) = list
    BY <1>2 DEF Newest
  <2>2. QED
    BY <1>1, <2>1
<1>3. CASE ~(Len(list) <= limit)
  <2> DEFINE n == Len(list)
             m == n - limit + 1
             rest == SubSeq(list, m, n)
  <2>1. Newest(list, limit) = rest
    BY <1>3 DEF Newest
  <2>2. m \in 1 .. n /\ m <= n
    BY <1>1, <1>3
  <2>3. rest \in Seq(S) /\ Len(rest) = limit /\ \A i \in 1 .. limit : rest[i] = list[m + i - 1]
    BY <1>1, <2>2, SubSeqProperties
  <2> HIDE DEF rest
  <2>4. rest # <<>>
    BY <2>3
  <2>5. QED
    BY <1>1, <1>3, <2>1, <2>3, <2>4
<1>4. QED
  BY <1>2, <1>3

LEMMA PoppedProperties ==
    ASSUME NEW S, NEW list \in Seq(S), NEW i \in 1 .. Len(list)
    PROVE  /\ Popped(list, i) \in Seq(S) /\ Len(Popped(list, i)) = Len(list) - 1
           /\ \A j \in 1 .. Len(Popped(list, i)) : Popped(list, i)[j] = IF j < i THEN list[j] ELSE list[j + 1]
<1> DEFINE front == SubSeq(list, 1, i - 1)
           back == SubSeq(list, i + 1, Len(list))
<1>1. Len(list) \in Nat /\ i \in Nat
  BY LenProperties
<1>2. front \in Seq(S) /\ Len(front) = i - 1 /\ \A j \in 1 .. i - 1 : front[j] = list[j]
  <2>1. \A j \in 1 .. i - 1 : j \in 1 .. Len(list)
    BY <1>1
  <2>2. CASE i = 1
    BY <1>1, <2>2, <2>1, SubSeqProperties
  <2>3. CASE i # 1
    BY <1>1, <2>3, <2>1, SubSeqProperties
  <2>4. QED
    BY <2>2, <2>3
<1>3. back \in Seq(S) /\ Len(back) = Len(list) - i /\ \A j \in 1 .. Len(list) - i : back[j] = list[i + j]
  <2>1. CASE i = Len(list)
    BY <1>1, <2>1, SubSeqProperties
  <2>2. CASE i # Len(list)
    BY <1>1, <2>2, SubSeqProperties
  <2>3. QED
    BY <2>1, <2>2
<1> DEFINE rest == Popped(list, i)
<1> HIDE DEF front, back
<1>4. rest = front \o back
  BY DEF front, back, Popped
<1> HIDE DEF rest
<1>5. /\ rest \in Seq(S) /\ Len(rest) = Len(list) - 1
      /\ \A j \in 1 .. Len(rest) : rest[j] = IF j <= Len(front) THEN front[j] ELSE back[j - Len(front)]
  <2>1. /\ rest \in Seq(S) /\ Len(rest) = Len(front) + Len(back)
        /\ \A j \in 1 .. Len(front) + Len(back) :
              rest[j] = IF j <= Len(front) THEN front[j] ELSE back[j - Len(front)]
    BY <1>2, <1>3, <1>4, ConcatProperties
  <2>2. QED
    BY <1>1, <1>2, <1>3, <2>1
<1>6. ASSUME NEW j \in 1 .. Len(rest)
      PROVE  rest[j] = IF j < i THEN list[j] ELSE list[j + 1]
  <2>1. rest[j] = IF j <= Len(front) THEN front[j] ELSE back[j - Len(front)]
    BY <1>5
  <2>2. CASE j < i
    BY <1>1, <1>2, <2>1, <2>2
  <2>3. CASE ~(j < i)
    <3>1. j - (i - 1) \in 1 .. Len(list) - i /\ i + (j - (i - 1)) = j + 1
      BY <1>1, <1>5, <2>3
    <3>2. rest[j] = back[j - (i - 1)]
      BY <1>1, <1>2, <1>5, <2>1, <2>3
    <3>3. back[j - (i - 1)] = list[i + (j - (i - 1))]
      BY <1>3, <3>1
    <3>4. QED
      BY <2>3, <3>1, <3>2, <3>3
  <2>4. QED
    BY <2>2, <2>3
<1>7. QED
  BY <1>5, <1>6 DEF rest

\* A step of one thread that leaves the master key alone and takes up, or goes
\* on with, something sound.
LEMMA ThreadGoesOn ==
    ASSUME AdminInv, NEW a \in Admins, NEW next, InHand(next), doing' = [doing EXCEPT ![a] = next],
           adminOps' \in {adminOps, adminOps + 1}, UNCHANGED masterKey
    PROVE  ThreadsSound'
<1>1. DOMAIN doing' = Admins /\ adminOps' \in Nat
  BY DEF AdminInv, ThreadsSound
<1>2. ASSUME NEW b \in Admins
      PROVE  InHand(doing[b])'
  <2>1. doing'[b] \in {next, doing[b]} /\ InHand(doing[b])
    BY DEF AdminInv, ThreadsSound
  <2>2. QED
    BY <2>1 DEF InHand
<1>3. QED
  BY <1>1, <1>2 DEF ThreadsSound

\* What a step leaves alone stays as it should be.
LEMMA RowsStay ==
    ASSUME AdminInv, UNCHANGED <<configVars, routeVars, vault, apiKeys, benchmarks>>
    PROVE  RowsTyped'
BY DEF AdminInv, RowsTyped, configVars, routeVars, Database

LEMMA VaultStays ==
    ASSUME AdminInv, UNCHANGED <<vaultVars, atBackup>>
    PROVE  VaultSound'
BY DEF AdminInv, VaultSound, vaultVars, OneSecretPerName, SecretsReadable

LEMMA BackupStays ==
    ASSUME AdminInv, UNCHANGED <<backupFile, atBackup>>
    PROVE  BackupSound'
BY DEF AdminInv, BackupSound, OnePerName

LEMMA ListsStay ==
    ASSUME AdminInv, UNCHANGED hookVars, adminOps' \in {adminOps, adminOps + 1}
    PROVE  ListsSound'
<1>1. ListsSound /\ adminOps \in Nat /\ UNCHANGED <<hooks, alerts, raised>>
  BY DEF AdminInv, ThreadsSound, hookVars
<1>2. \A i \in 1 .. Len(hooks) : hooks[i] \in Nat
  BY <1>1, LenProperties, ElementOfSeq DEF ListsSound
<1>3. \A i \in 1 .. Len(hooks) : hooks[i] <= adminOps'
  BY <1>1, <1>2 DEF ListsSound
<1>4. QED
  BY <1>1, <1>3 DEF ListsSound, NewestKept

\* ---------------------------------------------------------------- config
ConfigStep(a) ==
    \/ GetConfig(a) \/ FillConfig(a) \/ SetConfig(a) \/ CacheConfig(a) \/ TellListeners(a) \/ GetAllConfig(a)
    \/ HotReload(a) \/ ReplaceConfig(a)

LEMMA ConfigStepSound ==
    ASSUME AdminInv, NEW a \in Admins, ConfigStep(a)
    PROVE  AdminInv'
<1>1. UNCHANGED <<routeVars, vaultVars, hookVars, fileVars>> /\ configRow' \in Settings \cup {configRow}
      /\ adminOps' \in {adminOps, adminOps + 1}
  BY DEF ConfigStep, GetConfig, FillConfig, SetConfig, CacheConfig, TellListeners, GetAllConfig, HotReload,
         ReplaceConfig, Take, Resume, configVars
<1>2. \E next : next.op \notin {"store", "persist"} /\ doing' = [doing EXCEPT ![a] = next]
  BY DEF ConfigStep, GetConfig, FillConfig, SetConfig, CacheConfig, TellListeners, GetAllConfig, HotReload,
         ReplaceConfig, Take, Resume, Idle
<1>3. ThreadsSound'
  BY <1>1, <1>2, ThreadGoesOn DEF InHand, vaultVars
<1>4. RowsTyped'
  BY <1>1 DEF AdminInv, RowsTyped, Database, Databases, routeVars, vaultVars, fileVars
<1>5. VaultSound' /\ BackupSound' /\ ListsSound'
  BY <1>1, VaultStays, BackupStays, ListsStay DEF fileVars
<1>6. QED
  BY <1>3, <1>4, <1>5 DEF AdminInv

\* ---------------------------------------------------------------- routing
RouteStep(a) ==
    \/ AddCandidate(a) \/ RemoveCandidate(a) \/ AssignPortfolio(a) \/ UpdateCandidate(a) \/ ChangeCandidate(a)
    \/ UpdatePolicy(a) \/ UpdateRiskClass(a) \/ PersistPolicy(a)

LEMMA RouteStepSound ==
    ASSUME AdminInv, NEW a \in Admins, RouteStep(a)
    PROVE  AdminInv'
<1>1. /\ UNCHANGED <<configVars, vaultVars, hookVars, fileVars>> /\ adminOps' \in {adminOps, adminOps + 1}
      /\ policy' \in SUBSET Sections
  <2>1. UNCHANGED <<configVars, vaultVars, hookVars, fileVars>> /\ adminOps' \in {adminOps, adminOps + 1}
    BY DEF RouteStep, AddCandidate, RemoveCandidate, AssignPortfolio, UpdateCandidate, ChangeCandidate,
           UpdatePolicy, UpdateRiskClass, PersistPolicy, Take, Resume
  <2>2. \/ UNCHANGED policy
        \/ \E x \in Sections : policy' = policy \cup {x}
    BY DEF RouteStep, AddCandidate, RemoveCandidate, AssignPortfolio, UpdateCandidate, ChangeCandidate,
           UpdatePolicy, UpdateRiskClass, PersistPolicy, routeVars, Sections
  <2>3. QED
    BY <2>1, <2>2 DEF AdminInv, RowsTyped
<1>2. \E next : InHand(next) /\ doing' = [doing EXCEPT ![a] = next]
  <2>1. \/ \E next : next.op \notin {"store", "persist"} /\ doing' = [doing EXCEPT ![a] = next]
        \/ \E x \in Sections : doing' = [doing EXCEPT ![a] = [op |-> "persist", policy |-> policy \cup {x}]]
    BY DEF RouteStep, AddCandidate, RemoveCandidate, AssignPortfolio, UpdateCandidate, ChangeCandidate,
           UpdatePolicy, UpdateRiskClass, PersistPolicy, Take, Resume, Idle, Sections
  <2>2. \A x \in Sections : InHand([op |-> "persist", policy |-> policy \cup {x}])
    BY DEF InHand, AdminInv, RowsTyped
  <2>3. \A next : next.op \notin {"store", "persist"} => InHand(next)
    BY DEF InHand
  <2>4. QED
    BY <2>1, <2>2, <2>3
<1>3. ThreadsSound'
  BY <1>1, <1>2, ThreadGoesOn DEF vaultVars
<1>4. policyRow' \in SUBSET Sections
  <2>1. policyRow \in SUBSET Sections /\ InHand(doing[a])
    BY DEF AdminInv, RowsTyped, Database, Databases, ThreadsSound
  <2>2. UNCHANGED policyRow \/ (doing[a].op = "persist" /\ policyRow' \in {policyRow, doing[a].policy})
    BY DEF RouteStep, AddCandidate, RemoveCandidate, AssignPortfolio, UpdateCandidate, ChangeCandidate,
           UpdatePolicy, UpdateRiskClass, PersistPolicy, Resume, routeVars
  <2>3. QED
    BY <2>1, <2>2 DEF InHand
<1>5. RowsTyped'
  BY <1>1, <1>4 DEF AdminInv, RowsTyped, Database, Databases, configVars, vaultVars, fileVars
<1>6. VaultSound' /\ BackupSound' /\ ListsSound'
  BY <1>1, VaultStays, BackupStays, ListsStay DEF fileVars
<1>7. QED
  BY <1>3, <1>5, <1>6 DEF AdminInv

\* ---------------------------------------------------------------- secrets
\* A vault changed by a thread of now is typed, has one row a name and is readable.
LEMMA SecretLookedUp ==
    ASSUME AdminInv, NEW a \in Admins, LookupSecret(a)
    PROVE  AdminInv'
<1>1. PICK n \in Names, v \in 1 .. 2 :
        /\ adminOps' = adminOps + 1
        /\ doing' = [doing EXCEPT ![a] =
              [op |-> "store", known |-> \E s \in vault : s.name = n,
               row |-> [name |-> n, value |-> v, by |-> a, sealedWith |-> masterKey]]]
        /\ UNCHANGED <<configVars, routeVars, vaultVars, hookVars, fileVars>>
  BY DEF LookupSecret, Take
<1> DEFINE next == [op |-> "store", known |-> \E s \in vault : s.name = n,
                    row |-> [name |-> n, value |-> v, by |-> a, sealedWith |-> masterKey]]
<1>2. InHand(next)
  BY DEF InHand, AdminInv, VaultSound, Secrets
<1> HIDE DEF next
<1>3. ThreadsSound'
  BY <1>1, <1>2, ThreadGoesOn DEF vaultVars, next
<1>4. RowsTyped' /\ VaultSound' /\ BackupSound' /\ ListsSound'
  BY <1>1, RowsStay, VaultStays, BackupStays, ListsStay DEF fileVars, vaultVars
<1>5. QED
  BY <1>3, <1>4 DEF AdminInv

LEMMA SecretWritten ==
    ASSUME AdminInv, NEW a \in Admins, WriteSecret(a)
    PROVE  AdminInv'
<1> DEFINE row == doing[a].row
           others == {s \in vault : s.name # row.name}
<1>1. /\ doing[a].op = "store" /\ doing' = [doing EXCEPT ![a] = Idle] /\ UNCHANGED <<adminOps, adminPart>>
      /\ vault' = StoreSecret(row, doing[a].known)
      /\ UNCHANGED <<configVars, routeVars, masterKey, dropped, hookVars, fileVars>>
  BY DEF WriteSecret, Resume
<1>2. row \in Secrets /\ row.sealedWith = masterKey /\ vault \in SUBSET Secrets
  BY <1>1 DEF AdminInv, ThreadsSound, InHand, RowsTyped, Database, Databases
<1>3. vault' = others \cup {row} \/ vault' = vault
  BY <1>1 DEF StoreSecret
<1>4. ThreadsSound'
  <2>1. InHand(Idle)
    BY DEF InHand, Idle
  <2>2. QED
    BY <1>1, <2>1, ThreadGoesOn
<1> HIDE DEF row
<1>5. RowsTyped'
  <2>1. vault' \in SUBSET Secrets
    BY <1>2, <1>3
  <2>2. QED
    BY <1>1, <2>1 DEF AdminInv, RowsTyped, Database, Databases, configVars, routeVars, fileVars
<1>6. VaultSound'
  <2>1. UNCHANGED <<masterKey, dropped, atBackup>> /\ masterKey \in Nat /\ OneSecretPerName /\ SecretsReadable
    BY <1>1 DEF AdminInv, VaultSound, fileVars
  <2>2. OneSecretPerName'
    BY <1>3, <2>1 DEF OneSecretPerName
  <2>3. SecretsReadable'
    BY <1>2, <1>3, <2>1 DEF SecretsReadable
  <2>4. QED
    BY <2>1, <2>2, <2>3 DEF VaultSound
<1>7. BackupSound' /\ ListsSound'
  BY <1>1, BackupStays, ListsStay DEF fileVars
<1>8. QED
  BY <1>4, <1>5, <1>6, <1>7 DEF AdminInv

LEMMA SecretDeleted ==
    ASSUME AdminInv, NEW a \in Admins, DeleteSecret(a)
    PROVE  AdminInv'
<1>1. /\ doing' = [doing EXCEPT ![a] = Idle] /\ adminOps' = adminOps + 1
      /\ vault' \subseteq vault
      /\ UNCHANGED <<configVars, routeVars, masterKey, dropped, hookVars, fileVars>>
  BY DEF DeleteSecret, Take
<1>2. ThreadsSound'
  <2>1. InHand(Idle)
    BY DEF InHand, Idle
  <2>2. QED
    BY <1>1, <2>1, ThreadGoesOn
<1>3. RowsTyped'
  BY <1>1 DEF AdminInv, RowsTyped, Database, Databases, configVars, routeVars, fileVars
<1>4. VaultSound'
  BY <1>1 DEF AdminInv, VaultSound, OneSecretPerName, SecretsReadable, fileVars
<1>5. BackupSound' /\ ListsSound'
  BY <1>1, BackupStays, ListsStay DEF fileVars
<1>6. QED
  BY <1>2, <1>3, <1>4, <1>5 DEF AdminInv

\* No thread holds a sealed row while the keys change: it runs alone.
LEMMA KeyRotated ==
    ASSUME AdminInv, NEW a \in Admins, RotateMasterKey(a)
    PROVE  AdminInv'
<1>1. /\ \A b \in Admins : doing[b] = Idle
      /\ doing' = [doing EXCEPT ![a] = Idle] /\ adminOps' = adminOps + 1
      /\ RotationCommits \/ RotationNotBegun \/ UNCHANGED vaultVars
      /\ UNCHANGED <<configVars, routeVars, hookVars, fileVars>>
  BY DEF RotateMasterKey, Take, Rotated
<1>2. ThreadsSound'
  <2>1. DOMAIN doing' = Admins /\ (\A b \in Admins : doing'[b] = Idle) /\ adminOps' \in Nat
    BY <1>1 DEF AdminInv, ThreadsSound
  <2>2. QED
    BY <2>1 DEF ThreadsSound, InHand, Idle
<1>3. BackupSound' /\ ListsSound'
  BY <1>1, BackupStays, ListsStay DEF fileVars
<1>4. CASE UNCHANGED vaultVars
  <2>1. RowsTyped' /\ VaultSound'
    BY <1>1, <1>4, RowsStay, VaultStays DEF fileVars, vaultVars
  <2>2. QED
    BY <1>2, <1>3, <2>1 DEF AdminInv
<1>5. CASE RotationCommits
  <2>1. vault \in SUBSET Secrets /\ masterKey \in Nat /\ OneSecretPerName /\ masterKey' = masterKey + 1
    BY <1>5 DEF AdminInv, RowsTyped, Database, Databases, VaultSound, RotationCommits
  <2>2. \A s \in vault' : \E o \in vault : s = [o EXCEPT !.sealedWith = masterKey']
    BY <1>5 DEF Resealed, RotationCommits
  <2>3. \A o \in vault : [o EXCEPT !.sealedWith = masterKey'] \in Secrets
                         /\ [o EXCEPT !.sealedWith = masterKey'].name = o.name
                         /\ [o EXCEPT !.sealedWith = masterKey'].sealedWith = masterKey'
    BY <2>1 DEF Secrets
  <2>4. vault' \in SUBSET Secrets /\ \A s \in vault' : s.sealedWith = masterKey'
    BY <2>2, <2>3
  <2>5. OneSecretPerName'
    <3>1. ASSUME NEW s \in vault', NEW t \in vault', s.name = t.name PROVE s = t
      <4>1. PICK o \in vault : s = [o EXCEPT !.sealedWith = masterKey']
        BY <2>2
      <4>2. PICK q \in vault : t = [q EXCEPT !.sealedWith = masterKey']
        BY <2>2
      <4>3. o.name = q.name
        BY <3>1, <4>1, <4>2, <2>3
      <4>4. o = q
        BY <2>1, <4>3 DEF OneSecretPerName
      <4>5. QED
        BY <4>1, <4>2, <4>4
    <3>2. QED
      BY <3>1 DEF OneSecretPerName
  <2>6. VaultSound'
    BY <2>1, <2>4, <2>5 DEF VaultSound, SecretsReadable
  <2>7. RowsTyped'
    BY <1>1, <2>4 DEF AdminInv, RowsTyped, Database, Databases, configVars, routeVars, fileVars
  <2>8. QED
    BY <1>2, <1>3, <2>6, <2>7 DEF AdminInv
<1>6. CASE RotationNotBegun
  <2>1. masterKey' = masterKey + 1 /\ dropped' = dropped \cup {masterKey} /\ UNCHANGED <<vault, atBackup>>
    BY <1>1, <1>6 DEF RotationNotBegun, fileVars
  <2>2. VaultSound'
    BY <2>1 DEF AdminInv, VaultSound, OneSecretPerName, SecretsReadable
  <2>3. RowsTyped'
    BY <1>1, <2>1, RowsStay DEF fileVars
  <2>4. QED
    BY <1>2, <1>3, <2>2, <2>3 DEF AdminInv
<1>7. QED
  BY <1>1, <1>4, <1>5, <1>6

\* ---------------------------------------------------------------- keys and files
LEMMA KeyChanged ==
    ASSUME AdminInv, NEW a \in Admins, CreateApiKey(a) \/ RevokeApiKey(a) \/ RotateApiKey(a) \/ RunBenchmark(a)
    PROVE  /\ AdminInv'
           /\ \A k \in DOMAIN apiKeys : apiKeys[k] = "revoked" => apiKeys'[k] = "revoked"
<1>1. /\ doing' = [doing EXCEPT ![a] = Idle] /\ adminOps' = adminOps + 1
      /\ UNCHANGED <<configVars, routeVars, vaultVars, hookVars, backupFile, atBackup>>
      /\ benchmarks' \in {benchmarks, benchmarks + 1}
      /\ \/ UNCHANGED apiKeys
         \/ apiKeys' = Append(apiKeys, "active")
         \/ \E k \in DOMAIN apiKeys : apiKeys[k] = "active" /\ apiKeys' = [apiKeys EXCEPT ![k] = "revoked"]
         \/ \E k \in DOMAIN apiKeys : apiKeys[k] = "active" /\ apiKeys' = Append([apiKeys EXCEPT ![k] = "revoked"], "active")
  BY DEF CreateApiKey, RevokeApiKey, RotateApiKey, RunBenchmark, Take, Issue
<1>2. apiKeys \in Seq({"active", "revoked"}) /\ benchmarks \in Nat /\ DOMAIN apiKeys = 1 .. Len(apiKeys)
      /\ Len(apiKeys) \in Nat
  BY LenProperties DEF AdminInv, RowsTyped, Database, Databases
<1>3. \A keys \in Seq({"active", "revoked"}) : DOMAIN keys = DOMAIN apiKeys =>
        /\ Append(keys, "active") \in Seq({"active", "revoked"})
        /\ \A k \in DOMAIN apiKeys : Append(keys, "active")[k] = keys[k]
  <2> SUFFICES ASSUME NEW keys \in Seq({"active", "revoked"}), DOMAIN keys = DOMAIN apiKeys
               PROVE  /\ Append(keys, "active") \in Seq({"active", "revoked"})
                      /\ \A k \in DOMAIN apiKeys : Append(keys, "active")[k] = keys[k]
    OBVIOUS
  <2>1. DOMAIN apiKeys = 1 .. Len(keys)
    BY LenProperties
  <2>2. QED
    BY <2>1, AppendProperties
<1>4. \A k \in DOMAIN apiKeys :
        /\ [apiKeys EXCEPT ![k] = "revoked"] \in Seq({"active", "revoked"})
        /\ DOMAIN [apiKeys EXCEPT ![k] = "revoked"] = DOMAIN apiKeys
        /\ \A j \in DOMAIN apiKeys : apiKeys[j] = "revoked" => [apiKeys EXCEPT ![k] = "revoked"][j] = "revoked"
  BY <1>2, ExceptSeq
<1>5. apiKeys' \in Seq({"active", "revoked"})
      /\ \A k \in DOMAIN apiKeys : apiKeys[k] = "revoked" => apiKeys'[k] = "revoked"
  <2>1. CASE UNCHANGED apiKeys
    BY <1>2, <2>1
  <2>2. CASE apiKeys' = Append(apiKeys, "active")
    BY <1>2, <1>3, <2>2
  <2>3. CASE \E k \in DOMAIN apiKeys : apiKeys[k] = "active" /\ apiKeys' = [apiKeys EXCEPT ![k] = "revoked"]
    BY <1>4, <2>3
  <2>4. CASE \E k \in DOMAIN apiKeys : apiKeys[k] = "active" /\ apiKeys' = Append([apiKeys EXCEPT ![k] = "revoked"], "active")
    BY <1>3, <1>4, <2>4
  <2>5. QED
    BY <1>1, <2>1, <2>2, <2>3, <2>4
<1>6. ThreadsSound'
  <2>1. InHand(Idle)
    BY DEF InHand, Idle
  <2>2. QED
    BY <1>1, <2>1, ThreadGoesOn DEF vaultVars
<1>7. RowsTyped'
  <2>1. benchmarks' \in Nat
    BY <1>1, <1>2
  <2>2. QED
    BY <1>1, <1>5, <2>1 DEF AdminInv, RowsTyped, Database, Databases, configVars, routeVars, vaultVars
<1>8. VaultSound' /\ BackupSound' /\ ListsSound'
  BY <1>1, VaultStays, BackupStays, ListsStay
<1>9. QED
  BY <1>5, <1>6, <1>7, <1>8 DEF AdminInv

\* What is backed up is typed and readable: it is the database of now.
LEMMA FileMade ==
    ASSUME AdminInv, NEW a \in Admins, Backup(a) \/ ExportData(a)
    PROVE  AdminInv' /\ UNCHANGED apiKeys
<1>1. /\ doing' = [doing EXCEPT ![a] = Idle] /\ adminOps' = adminOps + 1
      /\ UNCHANGED <<configVars, routeVars, vaultVars, hookVars, apiKeys, benchmarks>>
      /\ \/ backupFile' = [kind |-> "sqlite", rows |-> Database] /\ atBackup' = Database
         \/ backupFile' = [kind |-> "json", rows |-> Database] /\ UNCHANGED atBackup
  BY DEF Backup, ExportData, Take
<1>2. ThreadsSound'
  <2>1. InHand(Idle)
    BY DEF InHand, Idle
  <2>2. QED
    BY <1>1, <2>1, ThreadGoesOn DEF vaultVars
<1>3. RowsTyped' /\ ListsSound'
  BY <1>1, RowsStay, ListsStay DEF vaultVars
<1>4. Database \in Databases /\ Database.vault = vault /\ OnePerName(vault) /\ Database # NoRow
  <2>1. Database \in Databases /\ OnePerName(vault)
    BY DEF AdminInv, RowsTyped, VaultSound, OneSecretPerName, OnePerName
  <2>2. QED
    BY <2>1, AdminAssumption DEF Database
<1>5. BackupSound'
  <2>1. backupFile'.rows = Database
    BY <1>1
  <2>2. backupFile'.kind = "sqlite" => atBackup' = Database
    BY <1>1
  <2>3. backupFile'.rows \in Databases /\ OnePerName(backupFile'.rows.vault)
    BY <1>4, <2>1
  <2>4. QED
    BY <2>1, <2>2, <2>3 DEF BackupSound, OnePerName
<1>6. VaultSound'
  <2>1. CASE UNCHANGED atBackup
    BY <1>1, <2>1, VaultStays
  <2>2. CASE atBackup' = Database
    <3>1. UNCHANGED <<vault, masterKey, dropped>> /\ masterKey \in Nat /\ OneSecretPerName
      BY <1>1 DEF AdminInv, VaultSound, vaultVars
    <3>2. SecretsReadable'
      BY <1>4, <2>2, <3>1 DEF SecretsReadable
    <3>3. QED
      BY <3>1, <3>2 DEF VaultSound, OneSecretPerName
  <2>3. QED
    BY <1>1, <2>1, <2>2
<1>7. QED
  BY <1>1, <1>2, <1>3, <1>5, <1>6 DEF AdminInv

LEMMA DatabaseRestored ==
    ASSUME AdminInv, NEW a \in Admins, Restore(a)
    PROVE  /\ AdminInv'
           /\ UNCHANGED apiKeys \/ (atBackup # NoRow /\ apiKeys' = atBackup.keys)
<1>1. doing' = [doing EXCEPT ![a] = Idle] /\ adminOps' = adminOps + 1
      /\ UNCHANGED <<masterKey, dropped, hookVars, backupFile, atBackup, policy>>
  BY DEF Restore, Take, RestoreRows, hookVars, vaultVars, fileVars, routeVars
<1>2. ThreadsSound'
  <2>1. InHand(Idle)
    BY DEF InHand, Idle
  <2>2. QED
    BY <1>1, <2>1, ThreadGoesOn
<1>3. BackupSound' /\ ListsSound'
  BY <1>1, BackupStays, ListsStay
<1>4. CASE Restorable(backupFile)
  <2> DEFINE rows == backupFile.rows
  <2>1. /\ configRow' = rows.config /\ policyRow' = rows.policy /\ vault' = rows.vault
        /\ apiKeys' = rows.keys /\ benchmarks' = rows.benchmarks
    BY <1>4 DEF Restore, RestoreRows
  <2>2. rows \in Databases /\ OnePerName(rows.vault) /\ atBackup = rows
    BY <1>4 DEF Restorable, AdminInv, BackupSound
  <2>3. atBackup # NoRow /\ masterKey \in Nat /\ policy \subseteq Sections
    BY <2>2, AdminAssumption DEF AdminInv, VaultSound, RowsTyped
  <2> HIDE DEF rows
  <2>4. RowsTyped'
    <3>1. /\ rows.config \in Settings /\ rows.policy \in SUBSET Sections /\ rows.vault \in SUBSET Secrets
          /\ rows.keys \in Seq({"active", "revoked"}) /\ rows.benchmarks \in Nat
      BY <2>2 DEF Databases
    <3>2. QED
      BY <1>1, <2>1, <2>3, <3>1 DEF RowsTyped, Database, Databases
  <2>5. VaultSound'
    BY <1>1, <2>1, <2>2, <2>3 DEF VaultSound, OneSecretPerName, SecretsReadable, OnePerName
  <2>6. QED
    BY <1>2, <1>3, <2>1, <2>2, <2>3, <2>4, <2>5 DEF AdminInv
<1>5. CASE ~Restorable(backupFile)
  <2>1. UNCHANGED <<configVars, routeVars, vaultVars, hookVars, fileVars>>
    BY <1>5 DEF Restore
  <2>2. RowsTyped' /\ VaultSound' /\ UNCHANGED apiKeys
    BY <2>1, RowsStay, VaultStays DEF vaultVars, fileVars
  <2>3. QED
    BY <1>2, <1>3, <2>2 DEF AdminInv
<1>6. QED
  BY <1>4, <1>5

\* ---------------------------------------------------------------- hooks and alerts
Alerts == [id: Nat, acked: BOOLEAN]

\* A step on the lists alone.
LEMMA ListsChanged ==
    ASSUME AdminInv, NEW a \in Admins, NEW next, next.op \notin {"store", "persist"},
           doing' = [doing EXCEPT ![a] = next], adminOps' \in {adminOps, adminOps + 1},
           UNCHANGED <<configVars, routeVars, vaultVars, fileVars>>, ListsSound'
    PROVE  AdminInv'
<1>1. ThreadsSound'
  BY ThreadGoesOn DEF InHand, vaultVars
<1>2. RowsTyped' /\ VaultSound' /\ BackupSound'
  BY RowsStay, VaultStays, BackupStays DEF vaultVars, fileVars
<1>3. QED
  BY <1>1, <1>2 DEF AdminInv

LEMMA HookRegistered ==
    ASSUME AdminInv, NEW a \in Admins, RegisterWebhook(a)
    PROVE  AdminInv'
<1>1. /\ doing' = [doing EXCEPT ![a] = Idle] /\ adminOps' = adminOps + 1
      /\ hooks' = Newest(Append(hooks, adminOps + 1), MaxHooks)
      /\ UNCHANGED <<configVars, routeVars, vaultVars, alerts, raised, fileVars>>
  BY DEF RegisterWebhook, Take
<1>2. hooks \in Seq(Nat) /\ Len(hooks) \in Nat /\ adminOps \in Nat
      /\ (\A i \in 1 .. Len(hooks) : hooks[i] <= adminOps /\ hooks[i] \in Nat)
      /\ \A i, j \in 1 .. Len(hooks) : i < j => hooks[i] < hooks[j]
  BY LenProperties, ElementOfSeq DEF AdminInv, ThreadsSound, ListsSound, NewestKept
<1> DEFINE list == Append(hooks, adminOps + 1)
<1>3. list \in Seq(Nat) /\ Len(list) = Len(hooks) + 1 /\ list[Len(hooks) + 1] = adminOps + 1
      /\ \A i \in 1 .. Len(hooks) : list[i] = hooks[i]
  BY <1>2, AppendProperties
<1> HIDE DEF list
<1>4. \A i \in 1 .. Len(list) : list[i] <= adminOps + 1
  <2> SUFFICES ASSUME NEW i \in 1 .. Len(list) PROVE list[i] <= adminOps + 1
    OBVIOUS
  <2>1. i = Len(hooks) + 1 \/ i \in 1 .. Len(hooks)
    BY <1>2, <1>3
  <2>2. CASE i \in 1 .. Len(hooks)
    <3>1. hooks[i] \in Nat /\ hooks[i] <= adminOps /\ list[i] = hooks[i]
      BY <1>2, <1>3, <2>2
    <3>2. QED
      BY <1>2, <3>1
  <2>3. QED
    BY <1>2, <1>3, <2>1, <2>2
<1>5. \A i, j \in 1 .. Len(list) : i < j => list[i] < list[j]
  <2> SUFFICES ASSUME NEW i \in 1 .. Len(list), NEW j \in 1 .. Len(list), i < j PROVE list[i] < list[j]
    OBVIOUS
  <2>0. Len(hooks) \in Nat /\ Len(list) = Len(hooks) + 1
    BY <1>2, <1>3
  <2>1. i \in 1 .. Len(hooks) /\ (j = Len(hooks) + 1 \/ j \in 1 .. Len(hooks))
    BY <2>0
  <2>2. hooks[i] \in Nat /\ hooks[i] <= adminOps /\ list[i] = hooks[i]
    BY <1>2, <1>3, <2>1
  <2>3. CASE j = Len(hooks) + 1
    BY <1>2, <1>3, <2>2, <2>3
  <2>4. CASE j \in 1 .. Len(hooks)
    BY <1>2, <1>3, <2>1, <2>2, <2>4
  <2>5. QED
    BY <2>1, <2>3, <2>4
<1> DEFINE kept == Newest(list, MaxHooks)
<1>6. /\ kept \in Seq(Nat) /\ Len(kept) <= Len(list) /\ Len(kept) \in Nat
      /\ \A i \in 1 .. Len(kept) : kept[i] = list[Len(list) - Len(kept) + i]
  BY <1>3, AdminAssumption, NewestProperties, LenProperties
<1>7. hooks' = kept
  BY <1>1 DEF list
<1> HIDE DEF kept
<1>8. \A i \in 1 .. Len(kept) : Len(list) - Len(kept) + i \in 1 .. Len(list)
  BY <1>2, <1>3, <1>6
<1>9. \A i \in 1 .. Len(kept) : kept[i] <= adminOps + 1
  BY <1>4, <1>6, <1>8
<1>10. \A i, j \in 1 .. Len(kept) : i < j => kept[i] < kept[j]
  <2>1. \A i, j \in 1 .. Len(kept) : i < j => Len(list) - Len(kept) + i < Len(list) - Len(kept) + j
    BY <1>2, <1>3, <1>6
  <2>2. QED
    BY <1>5, <1>6, <1>8, <2>1
<1>11. ListsSound'
  <2>1. DOMAIN kept = 1 .. Len(kept)
    BY <1>6, LenProperties
  <2>2. QED
    BY <1>1, <1>6, <1>7, <1>9, <1>10, <2>1 DEF AdminInv, ListsSound, NewestKept
<1>12. Idle.op \notin {"store", "persist"}
  BY DEF Idle
<1>13. QED
  BY <1>1, <1>11, <1>12, ListsChanged

LEMMA HookDeleted ==
    ASSUME AdminInv, NEW a \in Admins, DeleteWebhook(a)
    PROVE  AdminInv'
<1>1. PICK k \in DOMAIN hooks :
        /\ doing' = [doing EXCEPT ![a] = Idle] /\ adminOps' = adminOps + 1
        /\ hooks' = Popped(hooks, k)
        /\ UNCHANGED <<configVars, routeVars, vaultVars, alerts, raised, fileVars>>
  BY DEF DeleteWebhook, Take
<1>2. hooks \in Seq(Nat) /\ Len(hooks) \in Nat /\ adminOps \in Nat /\ k \in 1 .. Len(hooks)
      /\ (\A i \in 1 .. Len(hooks) : hooks[i] <= adminOps /\ hooks[i] \in Nat)
      /\ \A i, j \in 1 .. Len(hooks) : i < j => hooks[i] < hooks[j]
  BY LenProperties, ElementOfSeq DEF AdminInv, ThreadsSound, ListsSound, NewestKept
<1>3. /\ hooks' \in Seq(Nat) /\ Len(hooks') = Len(hooks) - 1
      /\ \A j \in 1 .. Len(hooks') : hooks'[j] = IF j < k THEN hooks[j] ELSE hooks[j + 1]
  BY <1>1, <1>2, PoppedProperties
<1>4. \A j \in 1 .. Len(hooks') : hooks'[j] <= adminOps + 1
  <2> SUFFICES ASSUME NEW j \in 1 .. Len(hooks') PROVE hooks'[j] <= adminOps + 1
    OBVIOUS
  <2>1. j \in 1 .. Len(hooks) /\ j + 1 \in 1 .. Len(hooks)
    BY <1>2, <1>3
  <2>2. hooks'[j] = hooks[j] \/ hooks'[j] = hooks[j + 1]
    BY <1>3
  <2>3. hooks'[j] \in Nat /\ hooks'[j] <= adminOps
    BY <1>2, <2>1, <2>2
  <2>4. QED
    BY <1>2, <2>3
<1>5. \A i, j \in 1 .. Len(hooks') : i < j => hooks'[i] < hooks'[j]
  <2> SUFFICES ASSUME NEW i \in 1 .. Len(hooks'), NEW j \in 1 .. Len(hooks'), i < j
               PROVE  hooks'[i] < hooks'[j]
    OBVIOUS
  <2>0. Len(hooks) \in Nat /\ Len(hooks') = Len(hooks) - 1 /\ k \in 1 .. Len(hooks)
    BY <1>2, <1>3
  <2>1. i \in 1 .. Len(hooks) /\ j \in 1 .. Len(hooks) /\ i + 1 \in 1 .. Len(hooks) /\ j + 1 \in 1 .. Len(hooks)
    BY <2>0
  <2>2. hooks'[i] = (IF i < k THEN hooks[i] ELSE hooks[i + 1]) /\ hooks'[j] = (IF j < k THEN hooks[j] ELSE hooks[j + 1])
    BY <1>3
  <2>3. i < j + 1 /\ i + 1 < j + 1 /\ (~(i < k) => ~(j < k))
    BY <2>0
  <2>4. hooks[i] < hooks[j] /\ hooks[i] < hooks[j + 1] /\ hooks[i + 1] < hooks[j + 1]
    BY <1>2, <2>1, <2>3
  <2>5. QED
    BY <2>2, <2>3, <2>4
<1>6. ListsSound'
  <2>1. DOMAIN hooks' = 1 .. Len(hooks')
    BY <1>3, LenProperties
  <2>2. QED
    BY <1>1, <1>3, <1>4, <1>5, <2>1 DEF AdminInv, ListsSound, NewestKept
<1>7. Idle.op \notin {"store", "persist"}
  BY DEF Idle
<1>8. QED
  BY <1>1, <1>6, <1>7, ListsChanged

LEMMA RunCompleted ==
    ASSUME AdminInv, NEW a \in Admins, CompleteRun(a) \/ Deliver(a)
    PROVE  AdminInv'
<1>1. UNCHANGED <<configVars, routeVars, vaultVars, hookVars, fileVars>> /\ adminOps' \in {adminOps, adminOps + 1}
  BY DEF CompleteRun, Deliver, Take, Resume
<1>2. \E next : next.op \notin {"store", "persist"} /\ doing' = [doing EXCEPT ![a] = next]
  <2>1. CASE CompleteRun(a)
    BY <2>1 DEF CompleteRun, Take
  <2>2. CASE Deliver(a)
    <3>1. doing[a].op = "deliver" /\ doing' = [doing EXCEPT ![a] = [doing[a] EXCEPT !.to = Tail(@)]]
      BY <2>2 DEF Deliver, Resume
    <3> DEFINE next == [doing[a] EXCEPT !.to = Tail(@)]
    <3>2. next.op = "deliver"
      BY <3>1
    <3>3. QED
      BY <3>1, <3>2
  <2>3. QED
    BY <2>1, <2>2
<1>3. ListsSound'
  BY <1>1, ListsStay
<1>4. QED
  BY <1>1, <1>2, <1>3, ListsChanged

LEMMA AlertTriggered ==
    ASSUME AdminInv, NEW a \in Admins, TriggerAlert(a)
    PROVE  AdminInv'
<1> DEFINE alert == [id |-> raised + 1, acked |-> FALSE]
           list == Append(alerts, alert)
           kept == Newest(list, MaxAlerts)
<1>1. /\ UNCHANGED <<configVars, routeVars, vaultVars, hooks, fileVars, adminOps>>
      /\ UNCHANGED <<alerts, raised>> \/ (alerts' = kept /\ raised' = raised + 1)
  BY DEF TriggerAlert, Resume
<1>2. \E next : next.op \notin {"store", "persist"} /\ doing' = [doing EXCEPT ![a] = next]
  <2>1. /\ doing[a].op = "deliver"
        /\ \/ doing' = [doing EXCEPT ![a] = Idle]
           \/ doing' = [doing EXCEPT ![a] = [doing[a] EXCEPT !.alerts = doing[a].alerts - 1]]
    BY DEF TriggerAlert, Resume
  <2> DEFINE next == [doing[a] EXCEPT !.alerts = doing[a].alerts - 1]
  <2>2. next.op = "deliver" /\ Idle.op = "idle"
    BY <2>1 DEF Idle
  <2>3. QED
    BY <2>1, <2>2
<1>3. alerts \in Seq(Alerts) /\ Len(alerts) \in Nat /\ raised \in Nat /\ DOMAIN alerts = 1 .. Len(alerts)
      /\ \A i \in 1 .. Len(alerts) : alerts[i].id = raised - Len(alerts) + i
  BY LenProperties DEF AdminInv, ListsSound, NewestKept, Alerts
<1>4. CASE UNCHANGED <<alerts, raised>>
  <2>1. ListsSound'
    BY <1>1, <1>4, ListsStay DEF hookVars
  <2>2. QED
    BY <1>1, <1>2, <2>1, ListsChanged
<1>5. CASE alerts' = kept /\ raised' = raised + 1
  <2>1. alert \in Alerts /\ alert.id = raised + 1
    BY <1>3 DEF Alerts
  <2> HIDE DEF alert
  <2>2. list \in Seq(Alerts) /\ Len(list) = Len(alerts) + 1 /\ list[Len(alerts) + 1] = alert /\ list # <<>>
        /\ \A i \in 1 .. Len(alerts) : list[i] = alerts[i]
    BY <1>3, <2>1, AppendProperties
  <2> HIDE DEF list
  <2>3. \A i \in 1 .. Len(list) : list[i].id = raised + 1 - Len(list) + i
    <3> SUFFICES ASSUME NEW i \in 1 .. Len(list) PROVE list[i].id = raised + 1 - Len(list) + i
      OBVIOUS
    <3>1. i = Len(alerts) + 1 \/ i \in 1 .. Len(alerts)
      BY <1>3, <2>2
    <3>2. CASE i = Len(alerts) + 1
      BY <1>3, <2>1, <2>2, <3>2
    <3>3. CASE i \in 1 .. Len(alerts)
      <4>1. list[i].id = raised - Len(alerts) + i
        BY <1>3, <2>2, <3>3
      <4>2. QED
        BY <1>3, <2>2, <3>3, <4>1
    <3>4. QED
      BY <3>1, <3>2, <3>3
  <2>4. /\ kept \in Seq(Alerts) /\ Len(kept) <= Len(list) /\ kept # <<>> /\ Len(kept) \in Nat
        /\ \A i \in 1 .. Len(kept) : kept[i] = list[Len(list) - Len(kept) + i]
    <3>1. MaxAlerts \in Nat \ {0} /\ list \in Seq(Alerts) /\ list # <<>>
      BY <2>2, AdminAssumption
    <3>2. /\ kept \in Seq(Alerts) /\ Len(kept) <= Len(list) /\ kept # <<>>
          /\ \A i \in 1 .. Len(kept) : kept[i] = list[Len(list) - Len(kept) + i]
      BY <3>1, NewestProperties
    <3> HIDE DEF kept
    <3>3. Len(kept) \in Nat
      BY <3>2, LenProperties
    <3>4. QED
      BY <3>2, <3>3
  <2> HIDE DEF kept
  <2>5. \A i \in 1 .. Len(kept) : kept[i].id = raised + 1 - Len(kept) + i
    <3> SUFFICES ASSUME NEW i \in 1 .. Len(kept) PROVE kept[i].id = raised + 1 - Len(kept) + i
      OBVIOUS
    <3>1. Len(list) \in Nat /\ Len(kept) \in Nat /\ Len(kept) <= Len(list)
      BY <1>3, <2>2, <2>4
    <3>2. Len(list) - Len(kept) + i \in 1 .. Len(list)
      BY <3>1
    <3>3. kept[i].id = raised + 1 - Len(list) + (Len(list) - Len(kept) + i)
      BY <2>3, <2>4, <3>2
    <3>4. QED
      BY <1>3, <3>1, <3>3
  <2>6. ListsSound'
    <3>1. DOMAIN kept = 1 .. Len(kept)
      BY <2>4, LenProperties
    <3>2. NewestKept'
      BY <1>1, <1>5, <2>4, <2>5, <3>1 DEF AdminInv, ListsSound, NewestKept
    <3>3. raised' \in Nat /\ alerts' \in Seq([id: Nat, acked: BOOLEAN])
      BY <1>3, <1>5, <2>4 DEF Alerts
    <3>4. QED
      BY <1>1, <3>2, <3>3 DEF AdminInv, ListsSound
  <2>7. QED
    BY <1>1, <1>2, <2>6, ListsChanged
<1>6. QED
  BY <1>1, <1>4, <1>5

LEMMA AlertAcknowledged ==
    ASSUME AdminInv, NEW a \in Admins, AcknowledgeAlert(a)
    PROVE  AdminInv'
<1>1. PICK k \in DOMAIN alerts :
        /\ doing' = [doing EXCEPT ![a] = Idle] /\ adminOps' = adminOps + 1
        /\ alerts' = [alerts EXCEPT ![k] = [alerts[k] EXCEPT !.acked = TRUE]]
        /\ UNCHANGED <<configVars, routeVars, vaultVars, hooks, raised, fileVars>>
  BY DEF AcknowledgeAlert, Take
<1>2. alerts \in Seq(Alerts) /\ DOMAIN alerts = 1 .. Len(alerts) /\ Len(alerts) \in Nat
  BY LenProperties DEF AdminInv, ListsSound, Alerts
<1> DEFINE alert == [alerts[k] EXCEPT !.acked = TRUE]
<1>3. alert \in Alerts /\ alert.id = alerts[k].id
  <2>1. alerts[k] \in Alerts
    BY <1>2, ElementOfSeq
  <2>2. QED
    BY <2>1 DEF Alerts
<1> HIDE DEF alert
<1>4. alerts' = [alerts EXCEPT ![k] = alert]
  BY <1>1 DEF alert
<1>5. alerts' \in Seq(Alerts) /\ Len(alerts') = Len(alerts)
      /\ \A i \in 1 .. Len(alerts) : alerts'[i] = IF i = k THEN alert ELSE alerts[i]
  BY <1>2, <1>3, <1>4, ExceptSeq
<1>6. \A i \in 1 .. Len(alerts) : alerts'[i].id = alerts[i].id
  BY <1>3, <1>5
<1>7. NewestKept'
  <2>1. DOMAIN alerts' = 1 .. Len(alerts) /\ (alerts # <<>> => alerts' # <<>>)
    BY <1>2, <1>5, LenProperties, EmptySeq
  <2>2. NewestKept /\ UNCHANGED <<hooks, raised>>
    BY <1>1 DEF AdminInv, ListsSound
  <2>3. \A i \in DOMAIN alerts' : alerts'[i].id = raised' - Len(alerts') + i
    BY <1>2, <1>5, <1>6, <2>1, <2>2 DEF NewestKept
  <2>4. QED
    BY <2>1, <2>2, <2>3 DEF NewestKept
<1>8. ListsSound'
  <2>1. hooks \in Seq(Nat) /\ Len(hooks) \in Nat /\ adminOps \in Nat /\ raised \in Nat
        /\ \A i \in 1 .. Len(hooks) : hooks[i] <= adminOps /\ hooks[i] \in Nat
    BY LenProperties, ElementOfSeq DEF AdminInv, ThreadsSound, ListsSound
  <2>2. \A i \in 1 .. Len(hooks) : hooks[i] <= adminOps + 1
    BY <2>1
  <2>3. QED
    BY <1>1, <1>5, <1>7, <2>1, <2>2 DEF ListsSound, Alerts
<1>9. Idle.op \notin {"store", "persist"}
  BY DEF Idle
<1>10. QED
  BY <1>1, <1>8, <1>9, ListsChanged

\* ---------------------------------------------------------------- theorem
LEMMA AdminInitially == AdminInit => AdminInv
<1> SUFFICES ASSUME AdminInit PROVE AdminInv
  OBVIOUS
<1>1. ThreadsSound
  BY DEF AdminInit, ThreadsSound, InHand, Idle
<1>2. RowsTyped
  <2>1. <<"active">> \in Seq({"active", "revoked"})
    BY SMT
  <2>2. QED
    BY <2>1 DEF AdminInit, RowsTyped, Database, Databases
<1>3. VaultSound
  BY DEF AdminInit, VaultSound, OneSecretPerName, SecretsReadable
<1>4. BackupSound
  BY DEF AdminInit, BackupSound
<1>5. ListsSound
  BY EmptySeq DEF AdminInit, ListsSound, NewestKept
<1>6. QED
  BY <1>1, <1>2, <1>3, <1>4, <1>5 DEF AdminInv

FileStep(a) ==
    \/ CreateApiKey(a) \/ RevokeApiKey(a) \/ RotateApiKey(a) \/ RunBenchmark(a)
    \/ Backup(a) \/ ExportData(a) \/ Restore(a)
OtherStep(a) ==
    \/ LookupSecret(a) \/ WriteSecret(a) \/ DeleteSecret(a) \/ RotateMasterKey(a)
    \/ RegisterWebhook(a) \/ DeleteWebhook(a) \/ CompleteRun(a) \/ Deliver(a) \/ TriggerAlert(a) \/ AcknowledgeAlert(a)

LEMMA AdminSteps == AdminNext => \E a \in Admins : ConfigStep(a) \/ RouteStep(a) \/ FileStep(a) \/ OtherStep(a)
BY DEF AdminNext, ConfigStep, RouteStep, FileStep, OtherStep

LEMMA OtherStepSound ==
    ASSUME AdminInv, NEW a \in Admins, OtherStep(a)
    PROVE  AdminInv' /\ UNCHANGED apiKeys
<1>1. AdminInv'
  BY SecretLookedUp, SecretWritten, SecretDeleted, KeyRotated, HookRegistered, HookDeleted, RunCompleted,
     AlertTriggered, AlertAcknowledged DEF OtherStep
<1>2. UNCHANGED fileVars
  BY DEF OtherStep, LookupSecret, WriteSecret, DeleteSecret, RotateMasterKey, RegisterWebhook, DeleteWebhook,
         CompleteRun, Deliver, TriggerAlert, AcknowledgeAlert
<1>3. QED
  BY <1>1, <1>2 DEF fileVars

RevokedNow ==
    \A k \in DOMAIN apiKeys : apiKeys[k] = "revoked" /\ k \in DOMAIN apiKeys' /\ apiKeys'[k] = "active"
         => atBackup # NoRow /\ k \in DOMAIN atBackup.keys /\ atBackup.keys[k] = "active"

LEMMA AdminStepSound ==
    ASSUME AdminInv, [AdminNext]_adminVars
    PROVE  AdminInv' /\ RevokedNow
<1>1. CASE UNCHANGED adminVars
  <2>1. UNCHANGED <<configVars, routeVars, vaultVars, hookVars, fileVars, doing, adminOps>>
    BY <1>1 DEF adminVars
  <2>2. ThreadsSound'
    BY <2>1 DEF AdminInv, ThreadsSound, InHand, vaultVars
  <2>3. RowsTyped' /\ VaultSound' /\ BackupSound' /\ ListsSound' /\ UNCHANGED apiKeys
    BY <2>1, RowsStay, VaultStays, BackupStays, ListsStay DEF fileVars, vaultVars
  <2>4. QED
    BY <2>2, <2>3 DEF AdminInv, RevokedNow
<1>2. CASE AdminNext
  <2>1. PICK a \in Admins : ConfigStep(a) \/ RouteStep(a) \/ FileStep(a) \/ OtherStep(a)
    BY <1>2, AdminSteps
  <2>2. CASE ConfigStep(a) \/ RouteStep(a)
    <3>1. UNCHANGED fileVars
      BY <2>2 DEF ConfigStep, GetConfig, FillConfig, SetConfig, CacheConfig, TellListeners, GetAllConfig, HotReload,
           ReplaceConfig, RouteStep, AddCandidate, RemoveCandidate, AssignPortfolio, UpdateCandidate,
           ChangeCandidate, UpdatePolicy, UpdateRiskClass, PersistPolicy
    <3>2. QED
      BY <2>2, <3>1, ConfigStepSound, RouteStepSound DEF fileVars, RevokedNow
  <2>3. CASE FileStep(a)
    <3>1. CASE CreateApiKey(a) \/ RevokeApiKey(a) \/ RotateApiKey(a) \/ RunBenchmark(a)
      BY <3>1, KeyChanged DEF RevokedNow
    <3>2. CASE Backup(a) \/ ExportData(a)
      BY <3>2, FileMade DEF RevokedNow
    <3>3. CASE Restore(a)
      BY <3>3, DatabaseRestored DEF RevokedNow
    <3>4. QED
      BY <2>3, <3>1, <3>2, <3>3 DEF FileStep
  <2>4. CASE OtherStep(a)
    BY <2>4, OtherStepSound DEF RevokedNow
  <2>5. QED
    BY <2>1, <2>2, <2>3, <2>4
<1>3. QED
  BY <1>1, <1>2

\* For any number of threads and any limits: one secret per name, each readable
\* under the master key of now or of the backup that brought it back; full lists
\* keep their newest entries in order; and only a restore revives a revoked key
\* (SecretManager, AlertManager, WebhookManager, SQLiteDatabase.restore).
THEOREM AdminKeepsSound == AdminSpec => AdminSound
<1>1. AdminInv => OneSecretPerName /\ SecretsReadable /\ NewestKept
  BY DEF AdminInv, VaultSound, ListsSound
<1>2. AdminInv /\ [AdminNext]_adminVars => AdminInv'
  BY AdminStepSound
<1>3. AdminInv /\ [AdminNext]_adminVars => [RevokedNow]_adminVars
  BY AdminStepSound
<1>4. AdminSpec => []AdminInv
  BY <1>2, AdminInitially, PTL DEF AdminSpec
<1>5. AdminSpec => [](OneSecretPerName /\ SecretsReadable /\ NewestKept)
  BY <1>1, <1>4, PTL
<1>6. AdminSpec => [][RevokedNow]_adminVars
  BY <1>3, <1>4, PTL DEF AdminSpec
<1>7. AdminSpec => RevokedStays
  BY <1>6 DEF RevokedNow, RevokedStays
<1>8. QED
  BY <1>5, <1>7 DEF AdminSound

-----------------------------------------------------------------------------
(* ---- the portfolio optimizer.  A finite field has a greatest score, and a  *)
(* benchmark that beats another outscores it.                                *)
LEMMA FiniteGreatest ==
    ASSUME NEW S \in SUBSET Int, IsFiniteSet(S), S # {}
    PROVE  Greatest(S) \in S /\ \A y \in S : y <= Greatest(S)
BY HasGreatest DEF Greatest

LEMMA PercentMonotone ==
    ASSUME NEW v \in Nat, NEW w \in Nat, v <= w, NEW most \in Nat \ {0}
    PROVE  Percent(v, most) \in Nat /\ Percent(w, most) \in Nat /\ Percent(v, most) <= Percent(w, most)
<1> DEFINE p == (100 * v) \div most
           q == (100 * w) \div most
<1>1. p \in Int /\ q \in Int
  OBVIOUS
<1>2. most * p <= 100 * v /\ 100 * v < most * p + most
  OBVIOUS
<1>3. most * q <= 100 * w /\ 100 * w < most * q + most
  OBVIOUS
<1> HIDE DEF p, q
<1>4. p >= 0 /\ q >= 0 /\ p <= q
  <2>1. \A k \in Int : k < 0 => most * k + most <= 0
    <3>1. \A k \in Int : k < 0 => most * (k + 1) <= 0
      OBVIOUS
    <3>2. QED
      BY <3>1
  <2>2. p >= 0 /\ q >= 0
    BY <1>1, <1>2, <1>3, <2>1
  <2>3. q < p => most * q + most <= most * p
    <3>1. q < p => most * (q + 1) <= most * p
      BY <1>1
    <3>2. most * (q + 1) = most * q + most
      BY <1>1
    <3>3. QED
      BY <3>1, <3>2
  <2>4. most * p \in Int /\ most * q \in Int
    BY <1>1
  <2>5. QED
    BY <1>1, <1>2, <1>3, <2>2, <2>3, <2>4
<1>5. QED
  BY <1>1, <1>4 DEF Percent, p, q

Figures(b) == b.accuracy \in Int /\ b.latency \in Nat /\ b.cost \in Nat /\ b.unsafe \in Nat

BenchInv ==
    /\ IsFiniteSet(benched) /\ \A b \in benched : Figures(b)
    /\ onDisk \subseteq {benched}
    /\ portfolios # None => onDisk # {} /\ portfolios = Report(benched)

LEMMA PercentTypes ==
    /\ \A part, whole \in Nat : Percent(part, whole) \in Nat
    /\ \A part \in Int, whole \in Nat : Percent(part, whole) \in Int
<1>1. \A part, whole \in Nat : Percent(part, whole) \in Nat
  <2> SUFFICES ASSUME NEW part \in Nat, NEW whole \in Nat PROVE Percent(part, whole) \in Nat
    OBVIOUS
  <2>1. CASE whole = 0
    BY <2>1 DEF Percent
  <2>2. CASE whole # 0
    BY <2>2, PercentMonotone
  <2>3. QED
    BY <2>1, <2>2
<1>2. \A part \in Int, whole \in Nat : Percent(part, whole) \in Int
  BY DEF Percent
<1>3. QED
  BY <1>1, <1>2

\* The figures of a benchmark are numbers, whatever calls failed.
LEMMA BenchmarkFigures ==
    ASSUME NEW m \in BenchModels, NEW c \in BenchCohorts, NEW replies, NEW latency \in Latencies
    PROVE  Figures(BenchmarkOf(m, c, replies, latency))
<1> DEFINE valid == {k \in c.cases : replies[k] # "error"}
           wrong == {k \in valid : ~JudgeCase(c, replies[k]).right}
           n == Cardinality(valid)
           slow == IF n = 0 THEN 0 ELSE latency
           b == BenchmarkOf(m, c, replies, latency)
<1>1. IsFiniteSet(valid) /\ IsFiniteSet(wrong)
  <2>1. IsFiniteSet(c.cases) /\ valid \subseteq c.cases /\ wrong \subseteq valid
    BY BenchAssumption
  <2>2. QED
    BY <2>1, FS_Subset
<1>2. n \in Nat /\ Cardinality(wrong) \in Nat
  BY <1>1, FS_CardinalityType
<1>3. b.accuracy = Percent(n - Cardinality(wrong), n) /\ b.latency = slow /\ b.cost = EstimatedCost(m, slow, n)
      /\ b.unsafe = (IF c.name = "safety-tasks" THEN Percent(Cardinality(wrong), n) ELSE 0)
  BY DEF BenchmarkOf
<1> HIDE DEF n, wrong, b
<1>4. slow \in Nat /\ m.price \in Nat
  BY <1>2, BenchAssumption
<1>5. b.accuracy \in Int
  BY <1>2, <1>3, PercentTypes
<1>6. b.unsafe \in Nat
  BY <1>2, <1>3, PercentTypes
<1>7. b.cost \in Nat
  <2>1. \A x, y \in Nat : x * y \in Nat
    OBVIOUS
  <2>2. m.price * n \in Nat /\ slow * n \in Nat
    BY <1>2, <1>4, <2>1
  <2> HIDE DEF slow
  <2>3. QED
    BY <1>3, <2>2 DEF EstimatedCost
<1>8. QED
  BY <1>3, <1>4, <1>5, <1>6, <1>7 DEF Figures, b

LEMMA BenchInvariant == BenchSpec => []BenchInv
<1>1. BenchInit => BenchInv
  BY FS_EmptySet DEF BenchInit, BenchInv
<1>2. BenchInv /\ [BenchNext]_benchVars => BenchInv'
  <2> SUFFICES ASSUME BenchInv, [BenchNext]_benchVars PROVE BenchInv'
    OBVIOUS
  <2>1. ASSUME NEW m \in BenchModels, NEW c \in BenchCohorts, Benchmark(m, c) PROVE BenchInv'
    <3>1. PICK replies \in [c.cases -> {"error", "nothing", "wrong", "right"}], latency \in Latencies :
             benched' = benched \cup {BenchmarkOf(m, c, replies, latency)}
      BY <2>1 DEF Benchmark
    <3>2. onDisk = {} /\ UNCHANGED <<onDisk, portfolios>>
      BY <2>1 DEF Benchmark
    <3>3. IsFiniteSet(benched') /\ \A b \in benched' : Figures(b)
      BY <3>1, BenchmarkFigures, FS_AddElement DEF BenchInv
    <3>4. QED
      BY <3>2, <3>3 DEF BenchInv
  <2>2. ASSUME SaveResults PROVE BenchInv'
    BY <2>2 DEF SaveResults, BenchInv, Report, Portfolio, Local, Cloud
  <2>3. ASSUME ReportFromDisk PROVE BenchInv'
    BY <2>3 DEF ReportFromDisk, BenchInv
  <2>4. ASSUME UNCHANGED benchVars PROVE BenchInv'
    BY <2>4 DEF benchVars, BenchInv
  <2>5. QED
    BY <2>1, <2>2, <2>3, <2>4 DEF BenchNext
<1>3. QED
  BY <1>1, <1>2, PTL DEF BenchSpec

\* The better of two benchmarks has the higher score, whatever the field.
LEMMA BetterScores ==
    ASSUME NEW b, NEW c, Figures(b), Figures(c), Beats(b, c),
           NEW slowest \in Nat, NEW dearest \in Nat, c.latency <= slowest, c.cost <= dearest
    PROVE  /\ BenchScore(b, slowest, dearest) \in Int /\ BenchScore(c, slowest, dearest) \in Int
           /\ BenchScore(c, slowest, dearest) < BenchScore(b, slowest, dearest)
<1>1. ASSUME NEW v \in Nat, NEW w \in Nat, v <= w, NEW most \in Nat, w <= most
      PROVE  Efficiency(v, most) \in Int /\ Efficiency(w, most) \in Int /\ Efficiency(w, most) <= Efficiency(v, most)
  <2>1. CASE most = 0
    BY <2>1 DEF Efficiency
  <2>2. CASE most # 0
    <3>1. Percent(v, most) \in Nat /\ Percent(w, most) \in Nat /\ Percent(v, most) <= Percent(w, most)
      BY <1>1, <2>2, PercentMonotone
    <3>2. QED
      BY <2>2, <3>1 DEF Efficiency
  <2>3. QED
    BY <2>1, <2>2
<1> DEFINE safe(u) == IF 10 * u > 100 THEN 0 ELSE 100 - 10 * u
<1>2. safe(b.unsafe) \in Int /\ safe(c.unsafe) \in Int /\ safe(c.unsafe) <= safe(b.unsafe)
  BY DEF Figures, Beats
<1> HIDE DEF safe
<1>3. b.accuracy \in Int /\ c.accuracy \in Int /\ c.accuracy < b.accuracy
      /\ b.latency \in Nat /\ c.latency \in Nat /\ b.latency <= c.latency
      /\ b.cost \in Nat /\ c.cost \in Nat /\ b.cost <= c.cost
  BY DEF Figures, Beats
<1>4. Efficiency(b.latency, slowest) \in Int /\ Efficiency(c.latency, slowest) \in Int
      /\ Efficiency(c.latency, slowest) <= Efficiency(b.latency, slowest)
  BY <1>1, <1>3
<1>5. Efficiency(b.cost, dearest) \in Int /\ Efficiency(c.cost, dearest) \in Int
      /\ Efficiency(c.cost, dearest) <= Efficiency(b.cost, dearest)
  BY <1>1, <1>3
<1>6. \A x : BenchScore(x, slowest, dearest) =
             50 * x.accuracy + 20 * Efficiency(x.latency, slowest) + 15 * Efficiency(x.cost, dearest) + 15 * safe(x.unsafe)
  BY DEF BenchScore, safe
<1>7. QED
  BY <1>2, <1>3, <1>4, <1>5, <1>6

LEMMA ScoreTyped ==
    ASSUME NEW b, Figures(b), NEW slowest \in Nat, NEW dearest \in Nat
    PROVE  BenchScore(b, slowest, dearest) \in Int
<1>1. \A v, most \in Nat : Efficiency(v, most) \in Int
  <2>1. \A v, most \in Nat : Percent(v, most) \in Nat
    BY PercentTypes
  <2>2. QED
    BY <2>1 DEF Efficiency
<1>2. b.accuracy \in Int /\ Efficiency(b.latency, slowest) \in Int /\ Efficiency(b.cost, dearest) \in Int /\ b.unsafe \in Nat
  BY <1>1 DEF Figures
<1>3. QED
  BY <1>2 DEF BenchScore

\* The entry of a field is of the field, and nothing in the field beats it.
LEMMA EntryUnbeaten ==
    ASSUME NEW field, IsFiniteSet(field), field # {}, \A b \in field : Figures(b)
    PROVE  \A b \in field : ~Beats(b, Entry(field).best)
<1> DEFINE slowest == Greatest({b.latency : b \in field})
           dearest == Greatest({b.cost : b \in field})
           score(b) == BenchScore(b, slowest, dearest)
           first == CHOOSE b \in field : \A c \in field : score(c) <= score(b)
<1>1. Entry(field).best = first
  BY DEF Entry
<1>2. slowest \in Nat /\ \A b \in field : b.latency <= slowest
  <2> DEFINE S == {b.latency : b \in field}
             f == [b \in field |-> b.latency]
  <2>1. S \in SUBSET Int /\ S \in SUBSET Nat /\ S # {} /\ \A b \in field : b.latency \in S
    BY DEF Figures
  <2>2. IsFiniteSet(S)
    <3>1. S = {f[b] : b \in field}
      OBVIOUS
    <3> HIDE DEF S, f
    <3>2. QED
      BY <3>1, ImageFinite
  <2>3. Greatest(S) \in S /\ \A y \in S : y <= Greatest(S)
    BY <2>1, <2>2, FiniteGreatest
  <2>4. QED
    BY <2>1, <2>3
<1>3. dearest \in Nat /\ \A b \in field : b.cost <= dearest
  <2> DEFINE S == {b.cost : b \in field}
             f == [b \in field |-> b.cost]
  <2>1. S \in SUBSET Int /\ S \in SUBSET Nat /\ S # {} /\ \A b \in field : b.cost \in S
    BY DEF Figures
  <2>2. IsFiniteSet(S)
    <3>1. S = {f[b] : b \in field}
      OBVIOUS
    <3> HIDE DEF S, f
    <3>2. QED
      BY <3>1, ImageFinite
  <2>3. Greatest(S) \in S /\ \A y \in S : y <= Greatest(S)
    BY <2>1, <2>2, FiniteGreatest
  <2>4. QED
    BY <2>1, <2>3
<1> HIDE DEF slowest, dearest
<1>4. \A b \in field : score(b) \in Int
  BY <1>2, <1>3, ScoreTyped
<1> HIDE DEF score
<1>5. first \in field /\ \A c \in field : score(c) <= score(first)
  <2> DEFINE S == {score(b) : b \in field}
             f == [b \in field |-> score(b)]
  <2>1. S \in SUBSET Int /\ S # {} /\ \A b \in field : score(b) \in S
    BY <1>4
  <2>2. IsFiniteSet(S)
    <3>1. S = {f[b] : b \in field}
      OBVIOUS
    <3> HIDE DEF S, f
    <3>2. QED
      BY <3>1, ImageFinite
  <2>3. Greatest(S) \in S /\ \A y \in S : y <= Greatest(S)
    BY <2>1, <2>2, FiniteGreatest
  <2>4. \E b \in field : \A c \in field : score(c) <= score(b)
    BY <2>1, <2>3
  <2>5. QED
    BY <2>4
<1> HIDE DEF first
<1>6. ASSUME NEW b \in field, Beats(b, first) PROVE FALSE
  <2>1. score(first) < score(b) /\ score(first) \in Int /\ score(b) \in Int
    BY <1>2, <1>3, <1>5, <1>6, BetterScores DEF score
  <2>2. score(b) <= score(first)
    BY <1>5
  <2>3. QED
    BY <2>1, <2>2
<1>7. QED
  BY <1>1, <1>6

LEMMA PortfolioUnbeaten ==
    ASSUME NEW S, IsFiniteSet(S), \A b \in S : Figures(b), NEW c \in DOMAIN Portfolio(S),
           NEW b \in S, b.cohort = c
    PROVE  ~Beats(b, Portfolio(S)[c].best)
<1> DEFINE field == {x \in S : x.cohort = c}
<1>1. Portfolio(S)[c] = Entry(field)
  BY DEF Portfolio
<1>2. b \in field /\ IsFiniteSet(field) /\ \A x \in field : Figures(x)
  BY FS_Subset
<1>3. QED
  BY <1>1, <1>2, EntryUnbeaten

\* For any models, cohorts and answers: what _build_portfolio reports as best for
\* a cohort is beaten on accuracy by no model of its field that is no slower, no
\* dearer and no less safe.
THEOREM BestIsUnbeaten == BenchSpec => []BestUnbeaten
<1>1. BenchInv => BestUnbeaten
  <2> SUFFICES ASSUME BenchInv, portfolios # None
               PROVE  /\ \A c \in DOMAIN portfolios.hybrid : \A b \in benched :
                            b.cohort = c => ~Beats(b, portfolios.hybrid[c].best)
                      /\ \A c \in DOMAIN portfolios.local : \A b \in Local(benched) :
                            b.cohort = c => ~Beats(b, portfolios.local[c].best)
    BY DEF BestUnbeaten
  <2>1. portfolios.hybrid = Portfolio(benched) /\ portfolios.local = Portfolio(Local(benched))
    BY DEF BenchInv, Report
  <2>2. IsFiniteSet(benched) /\ \A b \in benched : Figures(b)
    BY DEF BenchInv
  <2>3. IsFiniteSet(Local(benched)) /\ \A b \in Local(benched) : Figures(b)
    BY <2>2, FS_Subset DEF Local
  <2>4. QED
    BY <2>1, <2>2, <2>3, PortfolioUnbeaten
<1>2. QED
  BY <1>1, BenchInvariant, PTL

(* ---- the model fleet.  A model that was measured has a cost.               *)
LEMMA MeanTyped ==
    ASSUME NEW s \in Seq(Measured), s # <<>>, NEW f \in BenchmarkFields
    PROVE  Mean(s, f) \in Nat
<1> DEFINE terms == [i \in DOMAIN s |-> s[i][f]]
<1>1. DOMAIN s = 1 .. Len(s) /\ Len(s) \in Nat /\ Len(s) # 0
  OBVIOUS
<1>2. \A i \in DOMAIN s : s[i] \in [BenchmarkFields -> Nat]
  BY <1>1, FleetAssumption
<1>3. \A i \in DOMAIN s : terms[i] \in Nat
  BY <1>2
<1>4. IsFiniteSet(DOMAIN s)
  BY <1>1, FS_Interval
<1>5. DOMAIN terms = DOMAIN s
  OBVIOUS
<1> HIDE DEF terms
<1>6. SumFunctionOnSet(terms, DOMAIN s) \in Nat
  BY <1>3, <1>4, SumType
<1>7. SumFunction(terms) \in Nat
  BY <1>5, <1>6, SumOfDomain
<1>8. Total(s, f) \in Nat
  BY <1>7 DEF Total, terms
<1> QED
  BY <1>1, <1>8 DEF Mean

HistoriesTyped == history \in [ModelNames -> Seq(Measured)]

LEMMA CaseCostTyped ==
    ASSUME NEW s, s.cost \in Nat, s.tokens \in Nat, s.latency \in Nat, s.rework \in Nat, s.human \in Nat, s.escalation \in Nat
    PROVE  CaseCost(s) \in Nat
<1>1. DirectCost(s) \in Nat
  BY DEF DirectCost
<1>2. ReworkCost(s) \in Nat
  BY DEF ReworkCost
<1>3. HumanCost(s) \in Nat
  BY DEF HumanCost
<1>4. EscalationCost(s) \in Nat
  BY DEF EscalationCost
<1>5. LatencyCost(s) \in Nat
  BY DEF LatencyCost
<1> QED
  BY <1>1, <1>2, <1>3, <1>4, <1>5 DEF CaseCost

LEMMA CostTyped ==
    ASSUME HistoriesTyped, NEW m \in ModelNames, history[m] # <<>>
    PROVE  CostOf(m) \in Nat
<1>1. \A f \in BenchmarkFields : Mean(history[m], f) \in Nat
  BY MeanTyped DEF HistoriesTyped
<1>2. /\ Mean(history[m], "accuracy") \in Nat /\ Mean(history[m], "cost") \in Nat
      /\ Mean(history[m], "tokens") \in Nat /\ Mean(history[m], "latency") \in Nat
      /\ Mean(history[m], "rework") \in Nat /\ Mean(history[m], "human") \in Nat
      /\ Mean(history[m], "escalation") \in Nat
  BY <1>1 DEF BenchmarkFields
<1> DEFINE s == ModelStats(m)
<1>3. /\ s.accuracy \in Nat /\ s.cost \in Nat /\ s.tokens \in Nat /\ s.latency \in Nat
      /\ s.rework \in Nat /\ s.human \in Nat /\ s.escalation \in Nat
  BY <1>2 DEF ModelStats
<1> HIDE DEF s
<1>4. CaseCost(s) \in Nat
  BY <1>3, CaseCostTyped
<1>5. CostPerCorrect(s) \in Nat
  <2>1. CASE s.accuracy = 0
    BY <2>1 DEF CostPerCorrect, Infinite
  <2>2. CASE s.accuracy # 0
    <3>1. s.accuracy \in Nat \ {0} /\ CaseCost(s) * 100 \in Nat
      BY <1>3, <1>4, <2>2
    <3>2. (CaseCost(s) * 100) \div s.accuracy \in Nat
      BY <3>1, DivisionBelow
    <3> QED
      BY <2>2, <3>2 DEF CostPerCorrect
  <2> QED
    BY <2>1, <2>2
<1> QED
  BY <1>5 DEF CostOf, s

\* A model is ranked below the first only behind one that costs no more, and
\* for what else is said against it the rank does not count.
LEMMA FairAdvice ==
    ASSUME HistoriesTyped, pulled \in SUBSET ModelNames,
           NEW m \in Benchmarked(pulled), NEW position \in Positions(m, pulled), Removable(m, position, pulled)
    PROVE  /\ m \in pulled /\ Len(history[m]) >= MinRuns
           /\ \/ \E n \in pulled \ {m} : history[n] # <<>> /\ CostOf(n) <= CostOf(m)
              \/ Reasons(m, 1, pulled) # {}
<1>1. m \in pulled /\ Len(history[m]) >= MinRuns /\ Reasons(m, position, pulled) # {}
  BY DEF Benchmarked, Removable
<1>2. \A n \in Benchmarked(pulled) : n \in pulled /\ history[n] # <<>> /\ CostOf(n) \in Nat
  BY CostTyped DEF Benchmarked
<1>3. CASE Cheaper(m, pulled) # {}
  <2>1. PICK n \in Cheaper(m, pulled) : TRUE
    BY <1>3
  <2>2. n \in Benchmarked(pulled) /\ CostOf(n) < CostOf(m)
    BY <2>1 DEF Cheaper
  <2>3. n # m /\ CostOf(n) <= CostOf(m)
    BY <1>2, <2>2
  <2> QED
    BY <1>1, <1>2, <2>2, <2>3
<1>4. CASE Ties(m, pulled) # {}
  <2>1. PICK n \in Ties(m, pulled) : TRUE
    BY <1>4
  <2>2. n \in Benchmarked(pulled) /\ n # m /\ CostOf(n) = CostOf(m)
    BY <2>1 DEF Ties
  <2>3. CostOf(n) <= CostOf(m)
    BY <1>2, <2>2
  <2> QED
    BY <1>1, <1>2, <2>2, <2>3
<1>5. CASE Cheaper(m, pulled) = {} /\ Ties(m, pulled) = {}
  <2>1. Cardinality(Cheaper(m, pulled)) = 0 /\ Cardinality(Ties(m, pulled)) = 0
    BY <1>5, FS_EmptySet
  <2>2. position = 1
    BY <2>1 DEF Positions
  <2> QED
    BY <1>1, <2>2
<1> QED
  BY <1>3, <1>4, <1>5

\* What is said of the models changes only with their histories and the fleet.
LEMMA SameFigures ==
    ASSUME history' = history, pulled' = pulled
    PROVE  /\ \A n : CostOf(n)' = CostOf(n)
           /\ \A m : Reasons(m, 1, pulled)' = Reasons(m, 1, pulled)
<1>1. \A n : CostOf(n)' = CostOf(n) /\ ModelStats(n)' = ModelStats(n)
  BY DEF CostOf, ModelStats, Mean, Total
<1>2. Benchmarked(pulled)' = Benchmarked(pulled)
  BY DEF Benchmarked
<1>3. [n \in Benchmarked(pulled) |-> ModelStats(n).cost]' = [n \in Benchmarked(pulled) |-> ModelStats(n).cost]
  BY <1>1, <1>2
<1>4. [n \in Benchmarked(pulled) |-> ModelStats(n).tokens]' = [n \in Benchmarked(pulled) |-> ModelStats(n).tokens]
  BY <1>1, <1>2
<1>5. [n \in Benchmarked(pulled) |-> CostOf(n)]' = [n \in Benchmarked(pulled) |-> CostOf(n)]
  BY <1>1, <1>2
<1>6. \A m : Faults(m, pulled)' = Faults(m, pulled)
  BY <1>1, <1>3, <1>4, <1>5 DEF Faults
<1>7. \A m : Reasons(m, 1, pulled)' = Reasons(m, 1, pulled)
  BY <1>2, <1>6 DEF Reasons
<1> QED
  BY <1>1, <1>7

FleetInv ==
    /\ HistoriesTyped
    /\ pulled \in SUBSET ModelNames
    /\ RemovalsAreFair
    /\ ProductionEarned

LEMMA FleetInvariant == FleetSpec => []FleetInv
<1>1. FleetInit => FleetInv
  BY DEF FleetInit, FleetInv, HistoriesTyped, RemovalsAreFair, ProductionEarned, Silent, ModelNames
<1>2. FleetInv /\ [FleetNext]_fleetVars => FleetInv'
  <2> SUFFICES ASSUME FleetInv, [FleetNext]_fleetVars PROVE FleetInv'
    OBVIOUS
  <2> USE DEF FleetInv
  <2>1. ASSUME NEW m \in ModelNames, NEW r \in Measured, RecordBenchmark(m, r) PROVE FleetInv'
    <3>1. HistoriesTyped'
      BY <2>1 DEF RecordBenchmark, HistoriesTyped
    <3>2. RemovalsAreFair'
      BY <2>1 DEF RecordBenchmark, RemovalsAreFair, Silent
    <3> QED
      BY <2>1, <3>1, <3>2 DEF RecordBenchmark, ProductionEarned
  <2>2. CASE RecommendRemovals
    <3>1. UNCHANGED <<pulled, history, production, canaries, grounds>>
      BY <2>2 DEF RecommendRemovals
    <3>2. PICK place \in [Benchmarked(pulled) -> 1 .. Cardinality(pulled)] :
            /\ \A m \in DOMAIN place : place[m] \in Positions(m, pulled)
            /\ advice' = [about |-> "removals", models |-> {m \in DOMAIN place : Removable(m, place[m], pulled)}]
      BY <2>2 DEF RecommendRemovals
    <3>3. ASSUME NEW m \in advice'.models
          PROVE  /\ m \in pulled /\ Len(history[m]) >= MinRuns
                 /\ \/ \E n \in pulled \ {m} : history[n] # <<>> /\ CostOf(n) <= CostOf(m)
                    \/ Reasons(m, 1, pulled) # {}
      <4>1. m \in Benchmarked(pulled) /\ place[m] \in Positions(m, pulled) /\ Removable(m, place[m], pulled)
        BY <3>2
      <4> QED
        BY <4>1, FairAdvice
    <3>4. /\ \A n : CostOf(n)' = CostOf(n)
          /\ \A m : Reasons(m, 1, pulled)' = Reasons(m, 1, pulled)
      BY <3>1, SameFigures
    <3>5. RemovalsAreFair'
      BY <3>1, <3>3, <3>4, Zenon DEF RemovalsAreFair
    <3> QED
      BY <3>1, <3>5 DEF HistoriesTyped, ProductionEarned
  <2>3. CASE RecommendDownloads \/ RecommendCloud \/ RecommendWithoutHistory \/ RankWithoutHistory
    <3>1. UNCHANGED <<pulled, history, production, canaries, grounds>> /\ advice'.about # "removals"
      <4>1. CASE RecommendDownloads
        BY <4>1 DEF RecommendDownloads
      <4>2. CASE RecommendCloud
        BY <4>2 DEF RecommendCloud
      <4>3. CASE RecommendWithoutHistory \/ RankWithoutHistory
        BY <4>3 DEF RecommendWithoutHistory, RankWithoutHistory
      <4> QED
        BY <2>3, <4>1, <4>2, <4>3
    <3> QED
      BY <3>1 DEF HistoriesTyped, ProductionEarned, RemovalsAreFair
  <2>4. ASSUME NEW m \in ModelNames, PullModel(m) \/ RemoveModel(m) PROVE FleetInv'
    <3>1. UNCHANGED <<history, production, canaries, grounds>> /\ advice'.about # "removals"
      BY <2>4 DEF PullModel, RemoveModel
    <3>2. pulled' \in SUBSET ModelNames
      BY <2>4 DEF PullModel, RemoveModel, Pulled
    <3> QED
      BY <3>1, <3>2 DEF HistoriesTyped, ProductionEarned, RemovalsAreFair
  <2>5. ASSUME NEW v \in Versions, RegisterCanary(v) PROVE FleetInv'
    <3>1. UNCHANGED <<pulled, history, production, grounds>> /\ canaries \subseteq canaries'
          /\ advice'.about # "removals"
      BY <2>5 DEF RegisterCanary, Silent
    <3> QED
      BY <3>1 DEF HistoriesTyped, ProductionEarned, RemovalsAreFair
  <2>6. ASSUME NEW v \in Versions, NEW e \in Evidence, PromoteCanary(v, e) PROVE FleetInv'
    <3>1. UNCHANGED <<pulled, history, canaries>> /\ production' = v /\ grounds' = e /\ v \in canaries /\ e.signed
          /\ advice'.about # "removals"
      BY <2>6 DEF PromoteCanary, Silent
    <3>2. ASSUME NEW g \in GlobalGates
          PROVE  /\ \A c \in DOMAIN e.cohorts : g \in DOMAIN e.cohorts[c] => e.cohorts[c][g] <= 100
                 /\ \/ \E c \in DOMAIN e.cohorts : g \in DOMAIN e.cohorts[c]
                    \/ DOMAIN e.cohorts = {} /\ g \in DOMAIN e.flat /\ e.flat[g] <= 100
      <4> SUFFICES ASSUME DOMAIN e.cohorts # {}
                   PROVE  /\ \E c \in DOMAIN e.cohorts : g \in DOMAIN e.cohorts[c]
                          /\ \A c \in DOMAIN e.cohorts : g \in DOMAIN e.cohorts[c] => e.cohorts[c][g] <= 100
        <5>1. DOMAIN e.cohorts = {} => ~FlatFails(e)
          BY <2>6 DEF PromoteCanary, GatesFail
        <5>2. \A x \in DOMAIN e.flat : e.flat[x] \in Nat
          BY FleetAssumption
        <5> QED
          BY <5>1, <5>2 DEF FlatFails
      <4>1. Reported(e, g) # {} /\ ~\E x \in Reported(e, g) : x > 100
        BY <2>6, Zenon DEF PromoteCanary, GatesFail, GlobalFails
      <4>2. \A c \in DOMAIN e.cohorts : g \in DOMAIN e.cohorts[c] => e.cohorts[c][g] \in Reported(e, g)
        BY DEF Reported
      <4>3. \E c \in DOMAIN e.cohorts : g \in DOMAIN e.cohorts[c]
        BY <4>1 DEF Reported
      <4>4. \A c \in DOMAIN e.cohorts : g \in DOMAIN e.cohorts[c] => e.cohorts[c][g] \in Nat
        BY FleetAssumption
      <4> QED
        BY <4>1, <4>2, <4>3, <4>4
    <3>4. ASSUME NEW c \in DOMAIN e.cohorts, NEW g \in CohortGates(c)
          PROVE  g \in DOMAIN e.cohorts[c] /\ e.cohorts[c][g] <= 100
      <4>1. DOMAIN e.cohorts # {}
        OBVIOUS
      <4>2. ~CohortFails(e)
        BY <2>6, <4>1, Zenon DEF PromoteCanary, GatesFail
      <4>3. \A x \in DOMAIN e.cohorts[c] : e.cohorts[c][x] \in Nat
        BY FleetAssumption
      <4> QED
        BY <4>2, <4>3 DEF CohortFails
    <3>3. ProductionEarned'
      BY <3>1, <3>2, <3>4 DEF ProductionEarned
    <3> QED
      BY <3>1, <3>3 DEF HistoriesTyped, RemovalsAreFair
  <2>7. CASE UNCHANGED fleetVars
    <3>1. UNCHANGED <<pulled, history, advice, production, canaries, grounds>>
      BY <2>7 DEF fleetVars
    <3>2. /\ \A n : CostOf(n)' = CostOf(n)
          /\ \A m : Reasons(m, 1, pulled)' = Reasons(m, 1, pulled)
      BY <3>1, SameFigures
    <3> QED
      BY <3>1, <3>2 DEF HistoriesTyped, ProductionEarned, RemovalsAreFair
  <2> QED
    BY <2>1, <2>2, <2>3, <2>4, <2>5, <2>6, <2>7 DEF FleetNext
<1> QED
  BY <1>1, <1>2, PTL DEF FleetSpec

(* A model is advised against only when it is installed, was measured often *)
(* enough and is beaten on money per correct answer or has a fault of its   *)
(* own, and the policy version in production is a canary whose signed       *)
(* evidence met every gate, by cohorts or by flat gates: whatever was       *)
(* measured, pulled, deleted and registered in between (model_lifecycle.py  *)
(* recommend_removals, online_learning.py promote_canary).                  *)
THEOREM FleetIsEarned == FleetSpec => []FleetEarned
<1>1. FleetInv => FleetEarned
  BY DEF FleetInv, FleetEarned
<1> QED
  BY <1>1, FleetInvariant, PTL

(* ---- epistemic state.                                                     *)
LEMMA PercentsFinite ==
    ASSUME NEW S \in SUBSET (0 .. 100), S # {}
    PROVE  /\ \E x \in S : \A y \in S : y <= x
           /\ \E x \in S : \A y \in S : x <= y
<1>1. IsFiniteSet(S) /\ S \in SUBSET Int
  <2>1. IsFiniteSet(0 .. 100)
    <3>1. 0 \in Int /\ 100 \in Int
      OBVIOUS
    <3> QED
      BY <3>1, FS_Interval, Zenon
  <2>2. IsFiniteSet(S)
    BY <2>1, FS_Subset
  <2> QED
    BY <2>2
<1>2. \E x \in S : \A y \in S : y <= x
  BY <1>1, FiniteGreatest
<1> DEFINE f == [x \in S |-> 100 - x]
           T == {f[x] : x \in S}
<1>3. T \in SUBSET Int /\ T # {} /\ IsFiniteSet(T)
  <2>1. T \in SUBSET Int /\ T # {}
    <3>1. \A x \in S : f[x] \in Int
      OBVIOUS
    <3> HIDE DEF f
    <3> QED
      BY <3>1
  <2> HIDE DEF f
  <2>2. IsFiniteSet(T)
    BY <1>1, ImageFinite
  <2> QED
    BY <2>1, <2>2
<1>4. PICK z \in T : \A y \in T : y <= z
  <2> HIDE DEF T
  <2> QED
    BY <1>3, FiniteGreatest
<1>5. PICK x \in S : z = 100 - x
  BY <1>4
<1>6. \A y \in S : 100 - y <= 100 - x
  BY <1>4, <1>5
<1>7. \A y \in S : x <= y
  BY <1>6
<1> QED
  BY <1>2, <1>7

LEMMA LatestAbout ==
    ASSUME NEW events, NEW n \in Nat, NEW c, About(events, n, c) # {}
    PROVE  /\ AtLeast(About(events, n, c)) \in About(events, n, c)
           /\ \A k \in About(events, n, c) : k <= AtLeast(About(events, n, c))
<1> DEFINE S == About(events, n, c)
<1>1. IsFiniteSet(S) /\ S \in SUBSET Int
  <2>1. S \in SUBSET (1 .. n)
    BY DEF About
  <2>2. IsFiniteSet(1 .. n)
    BY FS_Interval
  <2> QED
    BY <2>1, <2>2, FS_Subset
<1>2. \E x \in S : \A y \in S : y <= x
  <2> HIDE DEF S
  <2> QED
    BY <1>1, FiniteGreatest DEF S
<1> QED
  BY <1>2, Zenon DEF AtLeast

\* What was told stays told when the sequence grows.
LEMMA ToldBefore ==
    ASSUME NEW events, NEW longer, NEW n \in Nat, \A k \in 1 .. n : longer[k] = events[k], NEW c
    PROVE  Told(longer, n, c) = Told(events, n, c)
<1>1. About(longer, n, c) = About(events, n, c)
  BY DEF About
<1>2. CASE About(events, n, c) = {}
  BY <1>1, <1>2 DEF Told
<1>3. CASE About(events, n, c) # {}
  <2>1. AtLeast(About(events, n, c)) \in 1 .. n
    BY <1>3, LatestAbout DEF About
  <2> QED
    BY <1>1, <1>3, <2>1 DEF Told
<1> QED
  BY <1>2, <1>3

\* The next transition tells of its own claim and of no other.
LEMMA ToldNext ==
    ASSUME NEW events, NEW n \in Nat, NEW c
    PROVE  Told(events, n + 1, c) = IF events[n + 1].claim = c THEN events[n + 1].new ELSE Told(events, n, c)
<1>1. CASE events[n + 1].claim = c
  <2>1. n + 1 \in About(events, n + 1, c)
    BY <1>1 DEF About
  <2> DEFINE last == AtLeast(About(events, n + 1, c))
  <2>2. last \in About(events, n + 1, c) /\ n + 1 <= last
    BY <2>1, LatestAbout
  <2>3. last \in 1 .. (n + 1)
    BY <2>2 DEF About
  <2>4. last = n + 1
    BY <2>2, <2>3
  <2> QED
    BY <1>1, <2>1, <2>4 DEF Told
<1>2. CASE events[n + 1].claim # c
  <2>1. About(events, n + 1, c) = About(events, n, c)
    BY <1>2 DEF About
  <2> QED
    BY <1>2, <2>1 DEF Told
<1> QED
  BY <1>1, <1>2

Transitions == [claim : ClaimIds, old : ClaimStatuses, new : ClaimStatuses, evidence : SUBSET EvidenceIds]
Events == ledgered \o flushing \o waiting

EpistemicInv ==
    /\ known \in [EvidenceIds -> Grades \cup {Unasked}]
    /\ held \in [ClaimIds -> ClaimRecords \cup {Unasked}]
    /\ \A c \in Claims : held[c].evidence \subseteq EvidenceEvents
    /\ ledgered \in Seq(Transitions) /\ flushing \in Seq(Transitions) /\ waiting \in Seq(Transitions)
    /\ outcomes \in Seq([predicted : Predictions, actual : BOOLEAN])
    /\ TransitionsReplay
    /\ PackageClosed

\* A claim that is made is one, whatever evidence it rests on.
LEMMA StrengthsTyped ==
    ASSUME EpistemicInv, NEW e \in EvidenceEvents
    PROVE  known[e].strength \in 0 .. 100 /\ 100 - known[e].strength \in 0 .. 100
<1>1. known[e] \in Grades
  BY DEF EpistemicInv, EvidenceEvents
<1>2. known[e] \in [kind : STRING, strength : 0 .. 100]
  BY <1>1, EpistemicAssumption
<1>3. known[e].strength \in 0 .. 100
  BY <1>2
<1> QED
  BY <1>3

LEMMA AtLeastTyped == ASSUME NEW S \in SUBSET (0 .. 100) PROVE AtLeast(S) \in 0 .. 100
<1>1. CASE S = {}
  BY <1>1 DEF AtLeast
<1>2. CASE S # {}
  <2>1. \E x \in S : \A y \in S : y <= x
    BY <1>2, PercentsFinite
  <2>2. AtLeast(S) \in S
    BY <1>2, <2>1 DEF AtLeast
  <2> QED
    BY <2>2
<1> QED
  BY <1>1, <1>2

LEMMA AtMostTyped == ASSUME NEW S \in SUBSET (0 .. 100), S # {} PROVE AtMost(S) \in 0 .. 100
<1>1. \E x \in S : \A y \in S : x <= y
  BY PercentsFinite
<1>2. AtMost(S) \in S
  BY <1>1 DEF AtMost
<1> QED
  BY <1>2

LEMMA ClaimFromTyped ==
    ASSUME EpistemicInv, NEW ids \in SUBSET EvidenceIds, ids \subseteq EvidenceEvents
    PROVE  ClaimFrom(ids) \in ClaimRecords /\ ClaimFrom(ids).evidence = ids
<1> DEFINE supporting == {e \in ids : known[e].strength > 50}
           refuting == {e \in ids : known[e].strength < 50}
           support == AtLeast({known[e].strength : e \in supporting})
           refutation == AtLeast({100 - known[e].strength : e \in refuting})
<1>1. {known[e].strength : e \in supporting} \in SUBSET (0 .. 100)
  BY StrengthsTyped
<1>2. {100 - known[e].strength : e \in refuting} \in SUBSET (0 .. 100)
  BY StrengthsTyped
<1>3. support \in 0 .. 100 /\ refutation \in 0 .. 100
  BY <1>1, <1>2, AtLeastTyped
<1>4. Adjudicated(support, refutation) \in ClaimStatuses
  BY DEF Adjudicated, ClaimStatuses
<1> DEFINE status == ClaimFrom(ids).status
<1>5. status \in ClaimStatuses
  <2>1. status \in {"unknown", Adjudicated(support, refutation)}
    BY DEF ClaimFrom
  <2> QED
    BY <1>4, <2>1 DEF ClaimStatuses
<1>6. ClaimFrom(ids) = [status |-> status, support |-> support, refutation |-> refutation, evidence |-> ids, derived |-> FALSE]
  BY DEF ClaimFrom
<1> HIDE DEF status, support, refutation
<1> QED
  BY <1>3, <1>5, <1>6 DEF ClaimRecords

LEMMA DerivedFromTyped ==
    ASSUME EpistemicInv, NEW ids \in SUBSET EvidenceIds, ids \subseteq EvidenceEvents, ids # {}
    PROVE  DerivedFrom(ids) \in ClaimRecords /\ DerivedFrom(ids).evidence = ids
<1> DEFINE strengths == {known[e].strength : e \in ids}
           weakest == AtMost(strengths)
           refuted == \E e \in ids : known[e].strength < 50
<1>1. strengths \in SUBSET (0 .. 100) /\ strengths # {}
  BY StrengthsTyped
<1>2. weakest \in 0 .. 100
  BY <1>1, AtMostTyped
<1>3. DerivedFrom(ids) =
        [status |-> IF refuted THEN "refuted" ELSE IF weakest >= Threshold THEN "supported" ELSE "unknown",
         support |-> IF refuted THEN 0 ELSE weakest, refutation |-> IF refuted THEN 100 ELSE 0,
         evidence |-> ids, derived |-> TRUE]
  BY DEF DerivedFrom
<1> HIDE DEF weakest, refuted
<1> QED
  BY <1>2, <1>3 DEF ClaimRecords, ClaimStatuses

\* A claim that is held anew adds the transition from what was told of it.
LEMMA HoldsClaim ==
    ASSUME EpistemicInv, NEW c \in ClaimIds, NEW claim \in ClaimRecords, NEW ids \in SUBSET EvidenceIds,
           claim.evidence \subseteq EvidenceEvents, Hold(c, claim, ids)
    PROVE  EpistemicInv'
<1> USE DEF EpistemicInv
<1>1. /\ waiting' = waiting \o Transition(c, claim.status, ids)
      /\ held' = [held EXCEPT ![c] = claim]
      /\ UNCHANGED <<known, flushing, package, ledgered, outcomes>>
  BY DEF Hold, contextVars, recordVars
<1>2. claim # Unasked /\ claim.status \in ClaimStatuses
  BY EpistemicAssumption DEF ClaimRecords
<1>3. StatusOf(held[c]) \in ClaimStatuses
  BY DEF StatusOf, ClaimRecords, ClaimStatuses
<1>4. held' \in [ClaimIds -> ClaimRecords \cup {Unasked}]
  BY <1>1
<1>5. (\A d \in Claims : held[d].evidence \subseteq EvidenceEvents)'
  <2>1. EvidenceEvents' = EvidenceEvents
    BY <1>1 DEF EvidenceEvents
  <2>2. \A d \in Claims' : held'[d] = claim \/ (d \in Claims /\ held'[d] = held[d])
    BY <1>1 DEF Claims
  <2> QED
    BY <2>1, <2>2
<1>6. PackageClosed'
  BY <1>1 DEF PackageClosed
<1>7. \A d \in ClaimIds : StatusOf(held'[d]) = IF d = c THEN claim.status ELSE StatusOf(held[d])
  BY <1>1, <1>2 DEF StatusOf
<1>8. Events \in Seq(Transitions) /\ Len(Events) \in Nat
  BY ConcatProperties DEF Events
<1>9. CASE StatusOf(held[c]) = claim.status
  <2>1. waiting' = waiting
    BY <1>1, <1>9, ConcatEmptySeq DEF Transition
  <2>2. TransitionsReplay'
    BY <1>1, <1>7, <1>9, <2>1 DEF TransitionsReplay
  <2> QED
    BY <1>1, <1>4, <1>5, <1>6, <2>1, <2>2
<1>10. CASE StatusOf(held[c]) # claim.status
  <2> DEFINE t == [claim |-> c, old |-> StatusOf(held[c]), new |-> claim.status, evidence |-> ids]
             n == Len(Events)
  <2>1. t \in Transitions
    BY <1>2, <1>3 DEF Transitions
  <2>2. waiting' = waiting \o <<t>>
    BY <1>1, <1>10 DEF Transition
  <2>3. /\ t.claim = c /\ t.old = StatusOf(held[c]) /\ t.new = claim.status
    OBVIOUS
  <2> HIDE DEF t
  <2>4. waiting' \in Seq(Transitions)
    BY <2>1, <2>2
  <2>5. Events' = Events \o <<t>>
    <3>1. (ledgered \o flushing) \in Seq(Transitions)
      BY ConcatProperties
    <3> QED
      BY <1>1, <2>1, <2>2, <3>1, ConcatAssociative DEF Events
  <2>6. Len(Events') = n + 1 /\ (\A k \in 1 .. n : Events'[k] = Events[k]) /\ Events'[n + 1] = t
    BY <1>8, <2>1, <2>5
  <2> HIDE DEF n
  <2>7. n \in Nat /\ DOMAIN Events = 1 .. n /\ DOMAIN Events' = 1 .. (n + 1)
    <3>1. Events' \in Seq(Transitions)
      BY <1>8, <2>1, <2>5
    <3> QED
      BY <1>8, <2>6, <3>1 DEF n
  <2>8. /\ \A k \in 1 .. n : Events[k].old = Told(Events, k - 1, Events[k].claim)
        /\ \A d \in ClaimIds : StatusOf(held[d]) = Told(Events, n, d)
    BY <2>7 DEF TransitionsReplay, Events, n
  <2>9. \A k \in 0 .. n : \A d : Told(Events', k, d) = Told(Events, k, d)
    <3> TAKE k \in 0 .. n
    <3>1. \A j \in 1 .. k : Events'[j] = Events[j]
      BY <2>6, <2>7
    <3>2. k \in Nat
      BY <2>7
    <3> QED
      BY <3>1, <3>2, ToldBefore
  <2>10. \A k \in 1 .. (n + 1) : Events'[k].old = Told(Events', k - 1, Events'[k].claim)
    <3> TAKE k \in 1 .. (n + 1)
    <3>1. CASE k \in 1 .. n
      <4>1. k - 1 \in 0 .. n
        BY <3>1, <2>7
      <4> QED
        BY <2>6, <2>8, <2>9, <3>1, <4>1
    <3>2. CASE k = n + 1
      <4>1. k - 1 = n /\ n \in 0 .. n
        BY <3>2, <2>7
      <4> QED
        BY <2>3, <2>6, <2>8, <2>9, <3>2, <4>1
    <3> QED
      BY <2>7, <3>1, <3>2
  <2>11. \A d \in ClaimIds : StatusOf(held'[d]) = Told(Events', n + 1, d)
    <3> TAKE d \in ClaimIds
    <3>1. Told(Events', n + 1, d) = IF t.claim = d THEN t.new ELSE Told(Events', n, d)
      BY <2>6, <2>7, ToldNext
    <3>2. Told(Events', n, d) = Told(Events, n, d)
      BY <2>7, <2>9
    <3> QED
      BY <1>7, <2>3, <2>8, <3>1, <3>2
  <2>12. TransitionsReplay'
    <3>1. TransitionsReplay' = (/\ \A k \in DOMAIN Events' : Events'[k].old = Told(Events', k - 1, Events'[k].claim)
                                /\ \A d \in ClaimIds : StatusOf(held'[d]) = Told(Events', Len(Events'), d))
      BY DEF TransitionsReplay, Events
    <3> QED
      BY <2>6, <2>7, <2>10, <2>11, <3>1
  <2> QED
    BY <1>1, <1>4, <1>5, <1>6, <2>4, <2>12
<1> QED
  BY <1>9, <1>10

LEMMA EpistemicInvariant == EpistemicSpec => []EpistemicInv
<1>1. EpistemicInit => EpistemicInv
  <2> SUFFICES ASSUME EpistemicInit PROVE EpistemicInv
    OBVIOUS
  <2> USE DEF EpistemicInit
  <2>1. ledgered \o flushing \o waiting = <<>>
    OBVIOUS
  <2>2. \A c : Told(<<>>, 0, c) = "unknown"
    BY DEF Told, About
  <2>3. TransitionsReplay
    BY <2>1, <2>2 DEF TransitionsReplay, StatusOf
  <2>4. Claims = {}
    BY DEF Claims
  <2> QED
    BY <2>3, <2>4 DEF EpistemicInv, PackageClosed
<1>2. EpistemicInv /\ [EpistemicNext]_epistemicVars => EpistemicInv'
  <2> SUFFICES ASSUME EpistemicInv, [EpistemicNext]_epistemicVars PROVE EpistemicInv'
    OBVIOUS
  <2> USE DEF EpistemicInv
  <2>1. ASSUME NEW e \in EvidenceIds, NEW grade \in Grades, AddEvidence(e, grade) PROVE EpistemicInv'
    <3>1. known' = [known EXCEPT ![e] = grade]
          /\ UNCHANGED <<held, waiting, flushing, package, ledgered, outcomes>>
      BY <2>1 DEF AddEvidence, contextVars, recordVars
    <3>2. known' \in [EvidenceIds -> Grades \cup {Unasked}]
      BY <3>1
    <3>3. EvidenceEvents \subseteq EvidenceEvents'
      BY <3>1, EpistemicAssumption DEF EvidenceEvents
    <3>4. (\A c \in Claims : held[c].evidence \subseteq EvidenceEvents)'
      BY <3>1, <3>3 DEF Claims
    <3> QED
      BY <3>1, <3>2, <3>4 DEF TransitionsReplay, PackageClosed
  <2>2. ASSUME NEW c \in ClaimIds, NEW ids \in SUBSET EvidenceIds, AddClaim(c, ids) PROVE EpistemicInv'
    <3>1. ids \subseteq EvidenceEvents /\ Hold(c, ClaimFrom(ids), ids)
      BY <2>2 DEF AddClaim
    <3> QED
      BY <3>1, ClaimFromTyped, HoldsClaim
  <2>3. ASSUME NEW c \in ClaimIds, NEW ids \in SUBSET EvidenceIds, AddDerivedClaim(c, ids) PROVE EpistemicInv'
    <3>1. ids \subseteq EvidenceEvents /\ ids # {} /\ Hold(c, DerivedFrom(ids), ids)
      BY <2>3 DEF AddDerivedClaim
    <3> QED
      BY <3>1, DerivedFromTyped, HoldsClaim
  <2>4. ASSUME NEW failed \in SUBSET CriterionIds, EnrichVerification(failed) PROVE EpistemicInv'
    <3>1. /\ flushing = <<>> /\ flushing' = waiting /\ waiting' = <<>>
          /\ UNCHANGED <<known, held, package, ledgered, outcomes>>
      BY <2>4 DEF EnrichVerification, Step, contextVars
    <3>2. flushing' \in Seq(Transitions) /\ waiting' \in Seq(Transitions)
      BY <3>1
    <3>3. ledgered' \o flushing' \o waiting' = ledgered \o flushing \o waiting
      <4>1. ledgered \o flushing = ledgered
        BY <3>1, ConcatEmptySeq
      <4>2. (ledgered \o waiting) \o <<>> = ledgered \o waiting
        BY ConcatProperties, ConcatEmptySeq
      <4> QED
        BY <3>1, <4>1, <4>2
    <3>4. TransitionsReplay'
      BY <3>1, <3>3 DEF TransitionsReplay
    <3>5. (\A c \in Claims : held[c].evidence \subseteq EvidenceEvents)'
      BY <3>1 DEF Claims, EvidenceEvents
    <3> QED
      BY <3>1, <3>2, <3>4, <3>5 DEF PackageClosed
  <2>9. ASSUME EnrichClaimTransition PROVE EpistemicInv'
    <3>1. /\ flushing # <<>> /\ ledgered' = Append(ledgered, flushing[1]) /\ flushing' = Tail(flushing)
          /\ UNCHANGED <<known, held, waiting, package, outcomes>>
      BY <2>9 DEF EnrichClaimTransition, contextVars
    <3>2. ledgered' \in Seq(Transitions) /\ flushing' \in Seq(Transitions) /\ flushing[1] \in Transitions
      BY <3>1
    <3>3. ledgered' \o flushing' = ledgered \o flushing
      BY <3>1, <3>2
    <3>4. TransitionsReplay'
      BY <3>1, <3>3 DEF TransitionsReplay
    <3>5. (\A c \in Claims : held[c].evidence \subseteq EvidenceEvents)'
      BY <3>1 DEF Claims, EvidenceEvents
    <3> QED
      BY <3>1, <3>2, <3>4, <3>5 DEF PackageClosed
  <2>5. CASE \/ EnrichRouteSelection \/ EnrichOutcome \/ EnrichHumanReview \/ EnrichFallback \/ EnrichContextCompressed
             \/ Compact
    <3>1. UNCHANGED <<known, held, waiting, flushing, package, ledgered, outcomes>>
      BY <2>5 DEF EnrichRouteSelection, EnrichOutcome, EnrichHumanReview, EnrichFallback, EnrichContextCompressed,
                  Compact, Enrich, beliefVars, contextVars, recordVars
    <3> QED
      BY <3>1 DEF TransitionsReplay, PackageClosed, Claims, EvidenceEvents
  <2>6. ASSUME NEW predicted \in Predictions, NEW actual \in BOOLEAN, RecordOutcome(predicted, actual) PROVE EpistemicInv'
    <3>1. outcomes' = Append(outcomes, [predicted |-> predicted, actual |-> actual])
          /\ UNCHANGED <<known, held, waiting, flushing, package, ledgered>>
      BY <2>6 DEF RecordOutcome, beliefVars, contextVars
    <3>2. outcomes' \in Seq([predicted : Predictions, actual : BOOLEAN])
      BY <3>1
    <3> QED
      BY <3>1, <3>2 DEF TransitionsReplay, PackageClosed, Claims, EvidenceEvents
  <2>7. CASE CompileContext
    <3>1. UNCHANGED <<known, held, waiting, flushing, ledgered, outcomes>>
          /\ package' \in {Packed(Claims, EvidenceEvents), Packed(ReachedClaims, ReachedEvidence)}
      BY <2>7 DEF CompileContext, beliefVars, recordVars
    <3> DEFINE rest == UNION {held[c].evidence : c \in ReachedClaims}
    <3>2. \A c \in ReachedClaims : held[c].evidence \subseteq ReachedEvidence
      <4>1. \A c \in ReachedClaims : held[c].evidence \subseteq EvidenceEvents /\ held[c].evidence \subseteq rest
        BY DEF ReachedClaims
      <4>2. ReachedEvidence = (Reached \cap EvidenceEvents) \cup (rest \cap EvidenceEvents)
        BY DEF ReachedEvidence
      <4> HIDE DEF rest
      <4> QED
        BY <4>1, <4>2
    <3>3. PackageClosed'
      <4>2. \A C \in SUBSET Claims : \A E : (\A c \in C : held[c].evidence \subseteq E)
                => \A c \in DOMAIN Packed(C, E).claims : Packed(C, E).claims[c].evidence \subseteq Packed(C, E).evidence
        BY DEF Packed
      <4>3. ReachedClaims \subseteq Claims /\ \A c \in Claims : held[c].evidence \subseteq EvidenceEvents
        BY DEF ReachedClaims
      <4>1. \A c \in DOMAIN package'.claims : package'.claims[c].evidence \subseteq package'.evidence
        BY <3>1, <3>2, <4>2, <4>3
      <4> QED
        BY <4>1 DEF PackageClosed
    <3> QED
      BY <3>1, <3>3 DEF TransitionsReplay, Claims, EvidenceEvents
  <2>8. CASE UNCHANGED epistemicVars
    BY <2>8 DEF epistemicVars, TransitionsReplay, PackageClosed, Claims, EvidenceEvents
  <2> QED
    BY <2>1, <2>2, <2>3, <2>4, <2>5, <2>6, <2>7, <2>8, <2>9 DEF EpistemicNext
<1> QED
  BY <1>1, <1>2, PTL DEF EpistemicSpec

(* The calibration: sums over the records, and over the records by bins.     *)
LEMMA OutcomesTyped ==
    ASSUME EpistemicInv
    PROVE  /\ IsFiniteSet(DOMAIN outcomes)
           /\ \A i \in DOMAIN outcomes : Confidence[i] \in 0 .. 100 /\ Bin(outcomes[i]) \in 0 .. 9
           /\ DOMAIN Confidence = DOMAIN outcomes
<1>1. outcomes \in Seq([predicted : Predictions, actual : BOOLEAN])
  BY DEF EpistemicInv
<1>2. DOMAIN outcomes = 1 .. Len(outcomes) /\ Len(outcomes) \in Nat
  BY <1>1
<1>3. IsFiniteSet(DOMAIN outcomes)
  BY <1>2, FS_Interval
<1>4. \A i \in DOMAIN outcomes : outcomes[i].predicted \in 0 .. 100
  <2> TAKE i \in DOMAIN outcomes
  <2> DEFINE Records == [predicted : Predictions, actual : BOOLEAN]
  <2>1. outcomes \in Seq(Records)
    BY <1>1
  <2> HIDE DEF Records
  <2>2. outcomes[i] \in Records
    BY <1>2, <2>1, ElementOfSeq
  <2>3. outcomes[i].predicted \in Predictions
    BY <2>2 DEF Records
  <2> QED
    BY <2>3, EpistemicAssumption
<1>5. \A p \in 0 .. 100 : p # 100 => p \div 10 \in 0 .. 9
  OBVIOUS
<1>6. \A i \in DOMAIN outcomes : Bin(outcomes[i]) \in 0 .. 9
  BY <1>4, <1>5 DEF Bin
<1> QED
  BY <1>3, <1>4, <1>6 DEF Confidence

\* The records whose bin is one of some bins.
InBins(B) == {i \in DOMAIN outcomes : Bin(outcomes[i]) \in B}
SumIn(B) == SumFunctionOnSet(Confidence, InBins(B))
RightIn(B) == Cardinality(RightRecords \cap InBins(B))
Gaps == [b \in 0 .. 9 |-> BinGap(b)]

LEMMA SumsTyped ==
    ASSUME EpistemicInv, NEW B
    PROVE  /\ SumIn(B) \in Nat /\ RightIn(B) \in Nat
           /\ IsFiniteSet(InBins(B)) /\ IsFiniteSet(RightRecords \cap InBins(B))
<1>1. InBins(B) \subseteq DOMAIN outcomes /\ RightRecords \cap InBins(B) \subseteq DOMAIN outcomes
  BY DEF InBins
<1>2. IsFiniteSet(InBins(B)) /\ IsFiniteSet(RightRecords \cap InBins(B))
  BY <1>1, OutcomesTyped, FS_Subset
<1>3. \A i \in InBins(B) : Confidence[i] \in Nat
  BY <1>1, OutcomesTyped
<1> QED
  BY <1>2, <1>3, SumType, FS_CardinalityType DEF SumIn, RightIn

\* The error over some bins is no more than what they are off by together.
LEMMA ErrorBounded ==
    ASSUME EpistemicInv, NEW B \in SUBSET (0 .. 9)
    PROVE  /\ SumFunctionOnSet(Gaps, B) \in Nat
           /\ Magnitude(SumIn(B) - 100 * RightIn(B)) <= SumFunctionOnSet(Gaps, B)
<1> DEFINE Off(S) == Magnitude(SumIn(S) - 100 * RightIn(S))
           Bad == {S \in SUBSET B : ~(Off(S) <= SumFunctionOnSet(Gaps, S))}
<1>0. IsFiniteSet(B)
  <2>1. IsFiniteSet(0 .. 9)
    <3>1. 0 \in Int /\ 9 \in Int
      OBVIOUS
    <3> QED
      BY <3>1, FS_Interval, Zenon
  <2> QED
    BY <2>1, FS_Subset
<1>1. \A b \in 0 .. 9 : InBin(b) = InBins({b}) /\ BinGap(b) = Off({b}) /\ Gaps[b] = Off({b})
  BY DEF InBin, InBins, BinGap, SumIn, RightIn, Gaps
<1>2. \A S : Off(S) \in Nat
  <2> TAKE S
  <2>1. SumIn(S) \in Nat /\ RightIn(S) \in Nat
    BY SumsTyped
  <2> QED
    BY <2>1 DEF Magnitude
<1>3. \A b \in B : Gaps[b] \in Nat
  BY <1>1, <1>2
<1>4. \A S \in SUBSET B : SumFunctionOnSet(Gaps, S) \in Nat /\ IsFiniteSet(S)
  <2> TAKE S \in SUBSET B
  <2>1. IsFiniteSet(S)
    BY <1>0, FS_Subset
  <2> QED
    BY <1>3, <2>1, SumType
<1>5. Bad = {}
  <2> SUFFICES ASSUME Bad # {} PROVE FALSE
    OBVIOUS
  <2>1. Bad \in SUBSET (SUBSET B)
    OBVIOUS
  <2> HIDE DEF Bad
  <2>2. PICK S \in Bad : \A R \in SUBSET S : R # S => R \notin Bad
    BY <1>0, <2>1, MinimalSubset
  <2>3. S \in SUBSET B /\ ~(Off(S) <= SumFunctionOnSet(Gaps, S))
    BY <2>2 DEF Bad
  <2>4. S # {}
    <3>1. ASSUME S = {} PROVE FALSE
      <4>1. InBins(S) = {} /\ RightRecords \cap InBins(S) = {}
        BY <3>1 DEF InBins
      <4>2. SumIn(S) = 0 /\ RightIn(S) = 0 /\ SumFunctionOnSet(Gaps, S) = 0
        BY <3>1, <4>1, SumEmpty, FS_EmptySet DEF SumIn, RightIn
      <4> QED
        BY <2>3, <4>2 DEF Magnitude
    <3> QED
      BY <3>1
  <2> DEFINE c == Chosen(S)
             rest == S \ {c}
  <2>5. c \in S /\ rest \in SUBSET B /\ rest \in SUBSET S /\ rest # S
    BY <2>3, <2>4, ChosenIn
  <2>6. Off(rest) <= SumFunctionOnSet(Gaps, rest)
    BY <2>2, <2>5 DEF Bad
  <2>7. SumFunctionOnSet(Gaps, S) = Gaps[c] + SumFunctionOnSet(Gaps, rest)
    BY <1>4, <2>3, <2>4, SumUnfold
  <2> HIDE DEF c
  <2>8. /\ InBins(S) = InBins({c}) \cup InBins(rest) /\ InBins({c}) \cap InBins(rest) = {}
    BY <2>5 DEF InBins
  <2> HIDE DEF rest
  <2>9. SumIn(S) = SumIn({c}) + SumIn(rest)
    <3>1. /\ IsFiniteSet(InBins({c})) /\ IsFiniteSet(InBins(rest))
      BY SumsTyped
    <3>2. \A i \in InBins({c}) \cup InBins(rest) : Confidence[i] \in Nat
      BY OutcomesTyped DEF InBins
    <3>3. SumFunctionOnSet(Confidence, InBins({c}) \cup InBins(rest))
            = SumFunctionOnSet(Confidence, InBins({c})) + SumFunctionOnSet(Confidence, InBins(rest))
      <4> DEFINE P == InBins({c})
                 Q == InBins(rest)
      <4>1. IsFiniteSet(P) /\ IsFiniteSet(Q) /\ P \cap Q = {} /\ \A i \in P \cup Q : Confidence[i] \in Nat
        BY <2>8, <3>1, <3>2
      <4> HIDE DEF P, Q
      <4>2. SumFunctionOnSet(Confidence, P \cup Q) = SumFunctionOnSet(Confidence, P) + SumFunctionOnSet(Confidence, Q)
        BY <4>1, SumUnion
      <4> QED
        BY <4>2 DEF P, Q
    <3> QED
      BY <2>8, <3>3 DEF SumIn
  <2>10. RightIn(S) = RightIn({c}) + RightIn(rest)
    <3>1. /\ RightRecords \cap InBins(S) = (RightRecords \cap InBins({c})) \cup (RightRecords \cap InBins(rest))
          /\ (RightRecords \cap InBins({c})) \cap (RightRecords \cap InBins(rest)) = {}
      BY <2>8
    <3>2. IsFiniteSet(RightRecords \cap InBins({c})) /\ IsFiniteSet(RightRecords \cap InBins(rest))
      BY SumsTyped
    <3>3. Cardinality((RightRecords \cap InBins({c})) \cup (RightRecords \cap InBins(rest)))
            = Cardinality(RightRecords \cap InBins({c})) + Cardinality(RightRecords \cap InBins(rest))
      <4> DEFINE P == RightRecords \cap InBins({c})
                 Q == RightRecords \cap InBins(rest)
      <4>1. IsFiniteSet(P) /\ IsFiniteSet(Q) /\ P \cap Q = {}
        BY <3>1, <3>2
      <4> HIDE DEF P, Q
      <4>2. Cardinality(P \cup Q) = Cardinality(P) + Cardinality(Q) - Cardinality(P \cap Q)
        BY <4>1, FS_Union
      <4>3. Cardinality(P \cap Q) = 0 /\ Cardinality(P) \in Nat /\ Cardinality(Q) \in Nat
        BY <4>1, FS_CardinalityType, FS_EmptySet
      <4> QED
        BY <4>2, <4>3 DEF P, Q
    <3> QED
      BY <3>1, <3>3 DEF RightIn
  <2>11. Gaps[c] = Off({c}) /\ SumFunctionOnSet(Gaps, rest) \in Nat
    BY <1>1, <1>4, <2>3, <2>5
  <2>12. /\ SumIn({c}) \in Nat /\ SumIn(rest) \in Nat /\ RightIn({c}) \in Nat /\ RightIn(rest) \in Nat
    BY SumsTyped
  <2>13. Off(S) <= Off({c}) + Off(rest)
    BY <2>9, <2>10, <2>12 DEF Magnitude
  <2>14. Off(S) \in Nat /\ Off({c}) \in Nat /\ Off(rest) \in Nat
    BY <1>2
  <2> HIDE DEF Off
  <2> QED
    BY <2>3, <2>6, <2>7, <2>11, <2>13, <2>14
<1> QED
  BY <1>4, <1>5

LEMMA DiscountsHonestly == EpistemicInv => CalibrationHonest
<1> SUFFICES ASSUME EpistemicInv PROVE CalibrationHonest
  OBVIOUS
<1> DEFINE S == SumPredicted
           R == Right
           q == (100 * 100 * R) \div S
<1>1. InBins(0 .. 9) = DOMAIN outcomes /\ RightRecords \cap InBins(0 .. 9) = RightRecords
  BY OutcomesTyped DEF InBins, RightRecords
<1>2. S = SumIn(0 .. 9) /\ R = RightIn(0 .. 9)
  BY <1>1, OutcomesTyped, SumOfDomain DEF SumPredicted, Right, SumIn, RightIn
<1>3. S \in Nat /\ R \in Nat
  BY <1>2, SumsTyped
<1>4. /\ CalibrationFactor \in 0 .. 100
      /\ Calibrated => CalibrationFactor * S <= 100 * 100 * R \/ S = 0
  <2>1. CASE ~Calibrated \/ S = 0
    <3>1. CalibrationFactor = 100
      BY <2>1 DEF CalibrationFactor
    <3> QED
      BY <2>1, <3>1
  <2>2. CASE Calibrated /\ S # 0
    <3>1. q \in Nat /\ q * S <= 100 * 100 * R
      <4>1. 100 * 100 * R \in Nat /\ S \in Nat \ {0}
        BY <1>3, <2>2
      <4> QED
        BY <4>1, DivisionBelow
    <3>2. CalibrationFactor = IF q > 100 THEN 100 ELSE q
      BY <2>2 DEF CalibrationFactor
    <3> HIDE DEF q
    <3>3. CASE q > 100
      <4>1. 100 * S <= q * S
        BY <1>3, <3>1, <3>3
      <4> QED
        BY <1>3, <3>1, <3>2, <3>3, <4>1
    <3>4. CASE ~(q > 100)
      BY <3>1, <3>2, <3>4
    <3> QED
      BY <3>3, <3>4
  <2> QED
    BY <2>1, <2>2
<1>5. Calibrated => CalibrationFactor * S <= 100 * 100 * R
  BY <1>3, <1>4
<1>6. \A raw \in Predictions : CalibratedConfidence(raw) <= raw
  <2> TAKE raw \in Predictions
  <2> DEFINE factor == IF Calibrated THEN CalibrationFactor ELSE 50
  <2>1. factor \in 0 .. 100 /\ raw \in 0 .. 100
    BY <1>4, EpistemicAssumption
  <2>2. CalibratedConfidence(raw) = (raw * factor) \div 100
    BY DEF CalibratedConfidence
  <2> HIDE DEF factor
  <2>3. raw * factor \in Nat /\ raw * factor <= raw * 100
    BY <2>1
  <2> QED
    BY <2>1, <2>2, <2>3
<1>7. IsCalibrated => Magnitude(S - 100 * R) <= 4 * Len(outcomes)
  <2> SUFFICES ASSUME IsCalibrated PROVE Magnitude(S - 100 * R) <= 4 * Len(outcomes)
    OBVIOUS
  <2>1. ComputeEce = SumFunction(Gaps) /\ ComputeEce <= 4 * Len(outcomes)
    BY DEF IsCalibrated, ComputeEce, Gaps
  <2>2. SumFunction(Gaps) = SumFunctionOnSet(Gaps, 0 .. 9)
    BY SumOfDomain DEF Gaps
  <2>3. /\ SumFunctionOnSet(Gaps, 0 .. 9) \in Nat
        /\ Magnitude(S - 100 * R) <= SumFunctionOnSet(Gaps, 0 .. 9)
    BY <1>2, ErrorBounded
  <2>4. Magnitude(S - 100 * R) \in Nat /\ 4 * Len(outcomes) \in Nat
    BY <1>3 DEF Magnitude, EpistemicInv
  <2> QED
    BY <2>1, <2>2, <2>3, <2>4
<1> QED
  BY <1>5, <1>6, <1>7 DEF CalibrationHonest

(* The transitions of claims replay without a gap to what each claim is,    *)
(* a packed claim comes with the evidence it rests on, and calibration      *)
(* never raises a confidence nor, past its gate, hides an error beyond its  *)
(* threshold (epistemic.py add_claim and CalibrationStore, context.py       *)
(* ContextCompiler.compile).                                                *)
THEOREM BelievesSoundly == EpistemicSpec => []BeliefsSound
<1>1. EpistemicInv => BeliefsSound
  BY DiscountsHonestly DEF EpistemicInv, BeliefsSound
<1> QED
  BY <1>1, EpistemicInvariant, PTL

(* ---- evaluation.  The given from the worst to the best.                *)
Outcomes == {"block", "gather_evidence", "iterate", "clarify", "warn", "pass"}

LEMMA Ranked ==
    /\ \A i \in 1 .. 6 : StrictPrecedence[i] \in Outcomes /\ Rank(StrictPrecedence[i]) = i
    /\ \A o \in Outcomes : Rank(o) \in 1 .. 6 /\ StrictPrecedence[Rank(o)] = o
<1>1. \A i \in 1 .. 6 : i \in {1, 2, 3, 4, 5, 6}
  OBVIOUS
<1>2. /\ StrictPrecedence[1] = "block" /\ StrictPrecedence[2] = "gather_evidence" /\ StrictPrecedence[3] = "iterate"
      /\ StrictPrecedence[4] = "clarify" /\ StrictPrecedence[5] = "warn" /\ StrictPrecedence[6] = "pass"
  BY DEF StrictPrecedence
<1>3. \A i \in 1 .. 6 : StrictPrecedence[i] \in Outcomes
  BY <1>1, <1>2 DEF Outcomes
<1>4. \A i, j \in 1 .. 6 : StrictPrecedence[i] = StrictPrecedence[j] => i = j
  BY <1>1, <1>2
<1>5. \A o \in Outcomes : \E i \in 1 .. 6 : StrictPrecedence[i] = o
  BY <1>2 DEF Outcomes
<1>6. \A o \in Outcomes : Rank(o) \in 1 .. 6 /\ StrictPrecedence[Rank(o)] = o
  BY <1>5 DEF Rank
<1>7. \A i \in 1 .. 6 : Rank(StrictPrecedence[i]) = i
  BY <1>3, <1>4, <1>6
<1> QED
  BY <1>3, <1>6, <1>7

LEMMA Severity ==
    ASSUME NEW S \in SUBSET Outcomes, S # {}
    PROVE  /\ MostSevere(S) \in S /\ \A o \in S : Rank(MostSevere(S)) <= Rank(o)
           /\ LeastSevere(S) \in S
<1> DEFINE R == {i \in 1 .. 6 : StrictPrecedence[i] \in S}
<1>1. PICK s \in S : s \in Outcomes
  OBVIOUS
<1>2. Rank(s) \in R
  BY <1>1, Ranked
<1>3. R \in SUBSET (0 .. 100) /\ R # {}
  <2>1. \A i \in R : i \in 0 .. 100
    OBVIOUS
  <2> QED
    BY <1>2, <2>1
<1>4. (\E x \in R : \A y \in R : y <= x) /\ (\E x \in R : \A y \in R : x <= y)
  <2> HIDE DEF R
  <2> QED
    BY <1>3, PercentsFinite
<1>5. \A o \in S : Rank(o) \in R
  BY Ranked
<1>6. \E i \in 1 .. 6 : StrictPrecedence[i] \in S /\ \A o \in S : Rank(o) >= i
  BY <1>4, <1>5
<1>7. \E i \in 1 .. 6 : StrictPrecedence[i] \in S /\ \A o \in S : Rank(o) <= i
  BY <1>4, <1>5
<1>8. MostSevere(S) \in S /\ \A o \in S : Rank(MostSevere(S)) <= Rank(o)
  <2> DEFINE i == CHOOSE i \in 1 .. 6 : StrictPrecedence[i] \in S /\ \A o \in S : Rank(o) >= i
  <2>1. i \in 1 .. 6 /\ StrictPrecedence[i] \in S /\ \A o \in S : Rank(o) >= i
    BY <1>6
  <2>2. MostSevere(S) = StrictPrecedence[i]
    BY DEF MostSevere
  <2> HIDE DEF i
  <2> QED
    BY <2>1, <2>2, Ranked
<1>9. LeastSevere(S) \in S
  BY <1>7 DEF LeastSevere
<1> QED
  BY <1>8, <1>9

\* The composition of results: its outcome is one of theirs, the worst of them
\* under the strict strategy, one that most of them have under the majority.
LEMMA Composition ==
    ASSUME NEW own, IsFiniteSet(own), own # {}, \A r \in own : r.outcome \in Outcomes
    PROVE  LET outcome == ResolveOutcome(own) IN
           /\ \E r \in own : r.outcome = outcome
           /\ strategy = "strict" => \A r \in own : Rank(outcome) <= Rank(r.outcome)
           /\ strategy = "majority" => \A r \in own : Supporters(own, outcome) >= Supporters(own, r.outcome)
<1> DEFINE given == {r.outcome : r \in own}
           votes == [o \in given |-> Supporters(own, o)]
           counts == {votes[o] : o \in given}
<1>1. given \in SUBSET Outcomes /\ given # {}
  OBVIOUS
<1>2. IsFiniteSet(given)
  <2> DEFINE f == [r \in own |-> r.outcome]
  <2>1. given = {f[r] : r \in own}
    OBVIOUS
  <2> HIDE DEF f, given
  <2> QED
    BY <2>1, ImageFinite
<1>3. \A o : Supporters(own, o) \in Nat
  <2> TAKE o
  <2>1. IsFiniteSet({r \in own : r.outcome = o})
    BY FS_Subset
  <2> QED
    BY <2>1, FS_CardinalityType DEF Supporters
<1>4. MostCommon(own, given) \in SUBSET given /\ MostCommon(own, given) # {}
  <2>1. counts \in SUBSET Int /\ counts # {}
    <3>1. \A o \in given : votes[o] \in Int
      BY <1>3
    <3> HIDE DEF votes, given
    <3> QED
      BY <1>1, <3>1
  <2>2. IsFiniteSet(counts)
    <3> HIDE DEF votes, given
    <3> QED
      BY <1>2, ImageFinite
  <2>3. Greatest(counts) \in counts /\ \A y \in counts : y <= Greatest(counts)
    <3> HIDE DEF counts
    <3> QED
      BY <2>1, <2>2, FiniteGreatest
  <2>4. PICK o \in given : votes[o] = Greatest(counts)
    <3> HIDE DEF votes, given
    <3> QED
      BY <2>3
  <2>5. \A p \in given : votes[p] <= votes[o]
    <3> HIDE DEF votes, given
    <3> QED
      BY <2>3, <2>4
  <2>6. \A p \in given : Supporters(own, o) >= Supporters(own, p)
    <3> HIDE DEF given
    <3> QED
      BY <1>3, <2>5
  <2> HIDE DEF given
  <2> QED
    BY <2>6 DEF MostCommon
<1>5. ResolveOutcome(own) = IF strategy = "majority" THEN MostSevere(MostCommon(own, given))
                            ELSE IF strategy = "optimistic" THEN LeastSevere(given) ELSE MostSevere(given)
  BY DEF ResolveOutcome
<1>6. \A o \in given : \E r \in own : r.outcome = o
  OBVIOUS
<1>7. \A r \in own : r.outcome \in given
  OBVIOUS
<1> HIDE DEF given
<1>8. /\ MostSevere(given) \in given /\ LeastSevere(given) \in given
      /\ \A o \in given : Rank(MostSevere(given)) <= Rank(o)
  BY <1>1, Severity
<1>9. MostSevere(MostCommon(own, given)) \in MostCommon(own, given)
  <2>1. MostCommon(own, given) \in SUBSET Outcomes
    BY <1>1, <1>4
  <2> QED
    BY <1>4, <2>1, Severity
<1>10. CASE strategy = "majority"
  <2>1. ResolveOutcome(own) \in given /\ \A p \in given : Supporters(own, ResolveOutcome(own)) >= Supporters(own, p)
    BY <1>5, <1>9, <1>10 DEF MostCommon
  <2> QED
    BY <1>6, <1>7, <1>10, <2>1
<1>11. CASE strategy # "majority"
  <2>1. ResolveOutcome(own) \in given
    BY <1>5, <1>8, <1>11
  <2>2. strategy = "strict" => ResolveOutcome(own) = MostSevere(given)
    BY <1>5, <1>11
  <2> QED
    BY <1>6, <1>7, <1>8, <1>11, <2>1, <2>2
<1> QED
  BY <1>10, <1>11

\* The tiers cost more the higher they are, and within the budget one is chosen
\* that the budget pays if it pays any.
Tiers == {"budget", "standard", "premium"}

LEMMA TiersDearer ==
    ASSUME NEW phase \in {"plan", "implement"}
    PROVE  /\ \A t \in Tiers : Cost(phase, t) \in Nat
           /\ Cost(phase, "budget") <= Cost(phase, "standard") /\ Cost(phase, "standard") <= Cost(phase, "premium")
<1>1. CASE phase = "plan"
  <2>1. Cost(phase, "budget") = 59 /\ Cost(phase, "standard") = 792 /\ Cost(phase, "premium") = 2970
    BY <1>1 DEF Cost, Tokens
  <2> QED
    BY <2>1 DEF Tiers
<1>2. CASE phase = "implement"
  <2>1. Cost(phase, "budget") = 99 /\ Cost(phase, "standard") = 1320 /\ Cost(phase, "premium") = 5280
    BY <1>2 DEF Cost, Tokens
  <2> QED
    BY <2>1 DEF Tiers
<1> QED
  BY <1>1, <1>2

LEMMA BudgetPays ==
    ASSUME NEW phase \in {"plan", "implement"}, NEW tier \in Tiers, budget \in Nat, budget # None,
           NEW t \in Tiers, Cost(phase, t) <= budget
    PROVE  Cost(phase, WithinBudget(phase, tier)) <= budget
<1> DEFINE lower == Downgrades(tier)
           paid == {i \in DOMAIN lower : Cost(phase, lower[i]) <= budget}
<1>1. Cost(phase, "budget") <= budget
  BY TiersDearer DEF Tiers
<1>2. CASE Cost(phase, tier) <= budget
  BY <1>2 DEF WithinBudget
<1>3. CASE ~(Cost(phase, tier) <= budget)
  <2>1. WithinBudget(phase, tier) = IF paid = {} THEN "budget" ELSE lower[CHOOSE i \in paid : \A j \in paid : i <= j]
    BY <1>3 DEF WithinBudget
  <2>2. DOMAIN lower \subseteq {1, 2}
    BY DEF Downgrades, Tiers
  <2>3. paid \subseteq {1, 2} /\ \A i \in paid : Cost(phase, lower[i]) <= budget
    BY <2>2
  <2> HIDE DEF paid, lower
  <2>4. CASE paid = {}
    BY <1>1, <2>1, <2>4
  <2>5. CASE paid # {}
    <3> DEFINE i == CHOOSE i \in paid : \A j \in paid : i <= j
    <3>1. \E k \in paid : \A j \in paid : k <= j
      <4>1. paid \in SUBSET (0 .. 100)
        BY <2>3
      <4> QED
        BY <2>5, <4>1, PercentsFinite
    <3>2. i \in paid
      BY <3>1
    <3>3. WithinBudget(phase, tier) = lower[i]
      BY <2>1, <2>5
    <3> HIDE DEF i
    <3> QED
      BY <2>3, <3>2, <3>3
  <2> QED
    BY <2>4, <2>5
<1> QED
  BY <1>2, <1>3

OwnFiles == {f \in resultFiles : ~f.composed}

EvalInv ==
    /\ budget \in Budgets /\ toRun \in SUBSET Cohorts
    /\ IsFiniteSet(resultFiles)
    /\ \A f \in OwnFiles :
        /\ f.result.outcome \in Outcomes
        /\ \/ f.result.phase = "after_implement" /\ \E c \in Cohorts \ toRun : f.result.by = {c.name}
           \/ f.result.phase = "after_plan" /\ f.result.by = {"plan"}
    /\ \A f, g \in OwnFiles : f.result.phase = g.result.phase /\ f.result.by = g.result.by => f = g
    /\ \A f \in resultFiles : f.composed =>
        \E S \in SUBSET OwnResults(f.result.phase) : f.result = ComposeResults(S, f.result.phase)
    /\ routing # None =>
        \E phase \in {"plan", "implement"}, tier \in Tiers :
            routing.phase = phase /\ routing.cost = Cost(phase, WithinBudget(phase, tier))

\* A composition that names all evaluators is of all their results.
LEMMA ComposesAll ==
    ASSUME EvalInv, NEW phase, NEW S \in SUBSET OwnResults(phase),
           UNION {r.by : r \in S} = UNION {r.by : r \in OwnResults(phase)}
    PROVE  S = OwnResults(phase)
<1> SUFFICES ASSUME NEW r \in OwnResults(phase) PROVE r \in S
  OBVIOUS
<1>1. \A s \in OwnResults(phase) : \E f \in OwnFiles : f.result = s /\ s.phase = phase
  BY DEF OwnResults, OwnFiles
<1>2. \A s \in OwnResults(phase) : \E n : s.by = {n}
  <2> TAKE s \in OwnResults(phase)
  <2>1. PICK f \in OwnFiles : f.result = s
    BY <1>1
  <2>2. (\E c \in Cohorts \ toRun : f.result.by = {c.name}) \/ f.result.by = {"plan"}
    BY DEF EvalInv
  <2> QED
    BY <2>1, <2>2
<1>3. PICK n : r.by = {n}
  BY <1>2
<1>4. n \in UNION {s.by : s \in S}
  BY <1>3
<1>5. PICK s \in S : n \in s.by
  BY <1>4
<1>6. s.by = r.by
  BY <1>2, <1>3, <1>5
<1>7. PICK f \in OwnFiles : f.result = s /\ s.phase = phase
  BY <1>1
<1>8. PICK g \in OwnFiles : g.result = r /\ r.phase = phase
  BY <1>1
<1>9. f = g
  BY <1>6, <1>7, <1>8 DEF EvalInv
<1> QED
  BY <1>5, <1>7, <1>8, <1>9

LEMMA OwnResultsFinite ==
    ASSUME IsFiniteSet(resultFiles), NEW phase
    PROVE  IsFiniteSet(OwnResults(phase))
<1> DEFINE T == {g \in resultFiles : ~g.composed /\ g.whole /\ g.result.phase = phase}
           result == [f \in T |-> f.result]
<1>1. IsFiniteSet(T)
  BY FS_Subset
<1>2. OwnResults(phase) = {result[f] : f \in T}
  BY DEF OwnResults
<1> HIDE DEF T, result
<1> QED
  BY <1>1, <1>2, ImageFinite

\* A file that is added to the directory, and what is kept of those before.
LEMMA FilesGrow ==
    ASSUME EvalInv, NEW new, resultFiles' = resultFiles \cup {new}, strategy' = strategy
    PROVE  /\ IsFiniteSet(resultFiles')
           /\ \A phase : OwnResults(phase) \subseteq OwnResults(phase)'
           /\ \A S, phase : ComposeResults(S, phase)' = ComposeResults(S, phase)
           /\ OwnFiles' = OwnFiles \cup (IF new.composed THEN {} ELSE {new})
<1>1. IsFiniteSet(resultFiles')
  BY FS_AddElement DEF EvalInv
<1>2. \A phase : OwnResults(phase) \subseteq OwnResults(phase)'
  BY DEF OwnResults
<1>3. \A S, phase : ComposeResults(S, phase)' = ComposeResults(S, phase)
  BY DEF ComposeResults, ResolveOutcome, MostCommon
<1>4. OwnFiles' = OwnFiles \cup (IF new.composed THEN {} ELSE {new})
  BY DEF OwnFiles
<1> QED
  BY <1>1, <1>2, <1>3, <1>4

LEMMA WritesOwn ==
    ASSUME EvalInv, NEW new, ~new.composed, resultFiles' = resultFiles \cup {new}, toRun' \in SUBSET toRun,
           UNCHANGED <<strategy, budget, routing>>,
           new.result.outcome \in Outcomes,
           \/ new.result.phase = "after_implement" /\ \E c \in Cohorts \ toRun' : new.result.by = {c.name}
           \/ new.result.phase = "after_plan" /\ new.result.by = {"plan"},
           \A f \in OwnFiles : f.result.phase = new.result.phase => f.result.by # new.result.by
    PROVE  EvalInv'
<1> USE DEF EvalInv
<1>1. /\ IsFiniteSet(resultFiles')
      /\ \A phase : OwnResults(phase) \subseteq OwnResults(phase)'
      /\ \A S, phase : ComposeResults(S, phase)' = ComposeResults(S, phase)
      /\ OwnFiles' = OwnFiles \cup {new}
  BY FilesGrow
<1>2. \A f \in OwnFiles' :
        /\ f.result.outcome \in Outcomes
        /\ \/ f.result.phase = "after_implement" /\ \E c \in Cohorts \ toRun' : f.result.by = {c.name}
           \/ f.result.phase = "after_plan" /\ f.result.by = {"plan"}
  BY <1>1
<1>3. \A f, g \in OwnFiles' : f.result.phase = g.result.phase /\ f.result.by = g.result.by => f = g
  BY <1>1
<1>4. \A f \in resultFiles' : f.composed =>
        \E S \in SUBSET OwnResults(f.result.phase)' : f.result = ComposeResults(S, f.result.phase)'
  BY <1>1
<1>5. \A phase, tier : WithinBudget(phase, tier)' = WithinBudget(phase, tier)
  BY DEF WithinBudget
<1> QED
  BY <1>1, <1>2, <1>3, <1>4, <1>5

LEMMA EvalInvariant == EvalSpec => []EvalInv
<1>1. EvalInit => EvalInv
  BY FS_EmptySet DEF EvalInit, EvalInv, OwnFiles
<1>2. EvalInv /\ [EvalNext]_evalVars => EvalInv'
  <2> SUFFICES ASSUME EvalInv, [EvalNext]_evalVars PROVE EvalInv'
    OBVIOUS
  <2>1. ASSUME NEW c \in Cohorts, RunCohort(c) PROVE EvalInv'
    <3>1. PICK answers \in [c.cases -> Answers], whole \in BOOLEAN :
            resultFiles' = resultFiles \cup
                {[composed |-> FALSE, whole |-> whole, result |-> MakeResult(c.name, "after_implement", Findings(c, answers))]}
      BY <2>1 DEF RunCohort
    <3> DEFINE findings == Findings(c, answers)
               new == [composed |-> FALSE, whole |-> whole, result |-> MakeResult(c.name, "after_implement", findings)]
    <3>2. c \in toRun /\ toRun' = toRun \ {c} /\ UNCHANGED <<strategy, budget, routing>>
      BY <2>1 DEF RunCohort
    <3>3. /\ ~new.composed /\ new.result.phase = "after_implement" /\ new.result.by = {c.name}
          /\ new.result.outcome \in Outcomes
      BY DEF MakeResult, DeriveOutcome, Outcomes
    <3>4. \A f \in OwnFiles : f.result.phase = new.result.phase => f.result.by # new.result.by
      BY <3>2, <3>3, EvalAssumption DEF EvalInv
    <3>5. resultFiles' = resultFiles \cup {new}
      BY <3>1
    <3> HIDE DEF new
    <3>6. c \in Cohorts \ toRun' /\ toRun' \in SUBSET toRun
      BY <3>2 DEF EvalInv
    <3> QED
      BY <3>2, <3>3, <3>4, <3>5, <3>6, WritesOwn
  <2>2. CASE OtherEvaluator
    <3>1. /\ \A f \in resultFiles : f.composed \/ f.result.phase # "after_plan"
          /\ UNCHANGED <<strategy, budget, toRun, routing>>
      BY <2>2 DEF OtherEvaluator
    <3>2. PICK severity \in {"medium", "info"}, whole \in BOOLEAN :
            resultFiles' = resultFiles \cup
                {[composed |-> FALSE, whole |-> whole,
                  result |-> MakeResult("plan", "after_plan", {Finding(0, severity = "info", severity, "unverified_assertion")})]}
      BY <2>2 DEF OtherEvaluator
    <3> DEFINE new == [composed |-> FALSE, whole |-> whole,
                       result |-> MakeResult("plan", "after_plan", {Finding(0, severity = "info", severity, "unverified_assertion")})]
    <3>3. /\ ~new.composed /\ new.result.phase = "after_plan" /\ new.result.by = {"plan"}
          /\ new.result.outcome \in Outcomes
      BY DEF MakeResult, DeriveOutcome, Outcomes
    <3>4. resultFiles' = resultFiles \cup {new}
      BY <3>2
    <3> HIDE DEF new
    <3>5. \A f \in OwnFiles : f.result.phase = new.result.phase => f.result.by # new.result.by
      BY <3>1, <3>3 DEF OwnFiles
    <3> QED
      BY <3>1, <3>3, <3>4, <3>5, WritesOwn DEF EvalInv
  <2>3. ASSUME NEW phase \in {"after_implement", "after_plan"}, Compose(phase) PROVE EvalInv'
    <3> DEFINE new == [composed |-> TRUE, whole |-> TRUE, result |-> composed']
    <3>1. /\ composed' = ComposeResults(Contributors(phase), phase)
          /\ resultFiles' = resultFiles \cup {new} /\ UNCHANGED <<strategy, budget, toRun, routing>>
      BY <2>3 DEF Compose
    <3>2. Contributors(phase) = OwnResults(phase)
      BY DEF Contributors, OwnResults, Readable
    <3>3. new.composed /\ new.result.phase = phase /\ new.result = ComposeResults(OwnResults(phase), phase)
      BY <3>1, <3>2 DEF ComposeResults
    <3> HIDE DEF new
    <3>4. /\ IsFiniteSet(resultFiles')
          /\ \A p : OwnResults(p) \subseteq OwnResults(p)'
          /\ \A S, p : ComposeResults(S, p)' = ComposeResults(S, p)
          /\ OwnFiles' = OwnFiles
      BY <3>1, <3>3, FilesGrow
    <3>5. \A f \in resultFiles' : f.composed =>
            \E S \in SUBSET OwnResults(f.result.phase)' : f.result = ComposeResults(S, f.result.phase)'
      BY <3>1, <3>3, <3>4 DEF EvalInv
    <3>6. \A p, tier : WithinBudget(p, tier)' = WithinBudget(p, tier)
      BY <3>1 DEF WithinBudget
    <3> QED
      BY <3>1, <3>4, <3>5, <3>6 DEF EvalInv
  <2>4. ASSUME NEW phase \in {"plan", "implement"}, Recommend(phase) PROVE EvalInv'
    <3>1. routing' = RecommendRoute(composed, phase) /\ UNCHANGED <<strategy, budget, toRun, resultFiles>>
      BY <2>4 DEF Recommend
    <3> DEFINE tier == TierOf(CappedRisk(composed.findings, phase))
    <3>2. tier \in Tiers
      BY DEF TierOf, Tiers
    <3>3. routing'.phase = phase /\ routing'.cost = Cost(phase, WithinBudget(phase, tier))
      BY <3>1 DEF RecommendRoute
    <3> HIDE DEF tier
    <3>4. \A p, t : WithinBudget(p, t)' = WithinBudget(p, t)
      BY <3>1 DEF WithinBudget
    <3>5. /\ \A p : OwnResults(p)' = OwnResults(p)
          /\ \A S, p : ComposeResults(S, p)' = ComposeResults(S, p)
          /\ OwnFiles' = OwnFiles
      BY <3>1 DEF OwnResults, ComposeResults, ResolveOutcome, MostCommon, OwnFiles
    <3> QED
      BY <3>1, <3>2, <3>3, <3>4, <3>5 DEF EvalInv
  <2>5. CASE UNCHANGED evalVars
    <3>1. UNCHANGED <<strategy, budget, toRun, resultFiles, routing>>
      BY <2>5 DEF evalVars
    <3>2. \A p, t : WithinBudget(p, t)' = WithinBudget(p, t)
      BY <3>1 DEF WithinBudget
    <3>3. /\ \A p : OwnResults(p)' = OwnResults(p)
          /\ \A S, p : ComposeResults(S, p)' = ComposeResults(S, p)
          /\ OwnFiles' = OwnFiles
      BY <3>1 DEF OwnResults, ComposeResults, ResolveOutcome, MostCommon, OwnFiles
    <3> QED
      BY <3>1, <3>2, <3>3 DEF EvalInv
  <2> QED
    BY <2>1, <2>2, <2>3, <2>4, <2>5 DEF EvalNext
<1> QED
  BY <1>1, <1>2, PTL DEF EvalSpec

LEMMA SpeaksTruly == EvalInv => SpeaksForEvaluators
<1> SUFFICES ASSUME EvalInv,
                    NEW f \in resultFiles, f.composed, f.result.by = UNION {r.by : r \in OwnResults(f.result.phase)},
                    OwnResults(f.result.phase) # {}
             PROVE  LET own == OwnResults(f.result.phase) IN
                    /\ \E r \in own : r.outcome = f.result.outcome
                    /\ strategy = "strict" => \A r \in own : Rank(f.result.outcome) <= Rank(r.outcome)
                    /\ strategy = "majority" => \A r \in own : Supporters(own, f.result.outcome) >= Supporters(own, r.outcome)
  BY DEF SpeaksForEvaluators
<1> DEFINE own == OwnResults(f.result.phase)
<1>1. PICK S \in SUBSET own : f.result = ComposeResults(S, f.result.phase)
  BY DEF EvalInv
<1>2. f.result.by = UNION {r.by : r \in S} /\ f.result.outcome = ResolveOutcome(S)
  BY <1>1 DEF ComposeResults
<1>3. S = own
  <2> DEFINE phase == f.result.phase
  <2>1. UNION {r.by : r \in S} = UNION {r.by : r \in OwnResults(phase)}
    BY <1>2
  <2>2. S \in SUBSET OwnResults(phase)
    BY <1>1
  <2> HIDE DEF phase
  <2>3. S = OwnResults(phase)
    BY <2>1, <2>2, ComposesAll
  <2> QED
    BY <2>3 DEF phase
<1>4. IsFiniteSet(own)
  BY OwnResultsFinite DEF EvalInv
<1>5. \A r \in own : r.outcome \in Outcomes
  BY DEF EvalInv, OwnResults, OwnFiles
<1> HIDE DEF own
<1>6. own # {}
  BY DEF own
<1>7. /\ \E r \in own : r.outcome = ResolveOutcome(own)
      /\ strategy = "strict" => \A r \in own : Rank(ResolveOutcome(own)) <= Rank(r.outcome)
      /\ strategy = "majority" => \A r \in own : Supporters(own, ResolveOutcome(own)) >= Supporters(own, r.outcome)
  BY <1>4, <1>5, <1>6, Composition
<1> QED
  BY <1>2, <1>3, <1>7 DEF own

(* A composed result speaks for the evaluators it names, and the tier that  *)
(* is recommended from it is paid by the budget if any is: however the      *)
(* cohorts were answered, files cut short, and results composed again and   *)
(* again in the directory they are read from (evaluator_compose.py          *)
(* compose_from_directory, evaluator_route.py recommend_route).             *)
THEOREM ReportsSoundly == EvalSpec => []ReportsSound
<1>1. EvalInv => RoutePaid
  <2> SUFFICES ASSUME EvalInv, routing # None, budget # None,
                      NEW t \in Tiers, Cost(routing.phase, t) <= budget
               PROVE  routing.cost <= budget
    BY DEF RoutePaid, Tiers
  <2>1. PICK phase \in {"plan", "implement"}, tier \in Tiers :
          routing.phase = phase /\ routing.cost = Cost(phase, WithinBudget(phase, tier))
    BY DEF EvalInv
  <2>2. budget \in Nat
    BY EvalAssumption DEF EvalInv
  <2> QED
    BY <2>1, <2>2, BudgetPays
<1>2. EvalInv => ReportsSound
  BY <1>1, SpeaksTruly DEF ReportsSound
<1> QED
  BY <1>2, EvalInvariant, PTL

(* ---- the self-improvement loop.                                          *)
\* What is left of a list of proposals: actions of it, no two alike.
LEMMA UniqueActions ==
    ASSUME NEW actions, NEW A, DOMAIN actions \in SUBSET Int, IsFiniteSet(DOMAIN actions),
           \A p \in DOMAIN actions : actions[p] \in A
    PROVE  /\ Unique(actions) \in Seq(A)
           /\ \A k, l \in DOMAIN Unique(actions) : k # l =>
                \/ Unique(actions)[k].category # Unique(actions)[l].category
                \/ Unique(actions)[k].target # Unique(actions)[l].target
<1> DEFINE F == Firsts(actions)
           n == Cardinality(F)
<1>1. F \in SUBSET (DOMAIN actions)
  BY DEF Firsts
<1>2. IsFiniteSet(F) /\ F \in SUBSET Int
  BY <1>1, FS_Subset
<1>3. n \in Nat
  BY <1>2, FS_CardinalityType
<1>4. \A p, q \in F : q < p => actions[q].category # actions[p].category \/ actions[q].target # actions[p].target
  BY <1>1 DEF Firsts
<1>5. Unique(actions) = [k \in 1 .. n |-> actions[InOrder(F, k)]]
  BY DEF Unique, Picked
<1> HIDE DEF F
<1>6. \A k \in 1 .. n : InOrder(F, k) \in F /\ Cardinality({q \in F : q <= InOrder(F, k)}) = k
  BY <1>2, PlaceInOrder
<1>7. \A k, l \in 1 .. n : k # l => InOrder(F, k) # InOrder(F, l)
  BY <1>6
<1>8. \A k \in 1 .. n : actions[InOrder(F, k)] \in A
  BY <1>1, <1>6
<1> HIDE DEF n
<1>9. Unique(actions) \in Seq(A)
  <2>1. Unique(actions) \in [1 .. n -> A]
    BY <1>5, <1>8
  <2> QED
    BY <1>3, <2>1, SeqDef
<1>10. ASSUME NEW k \in 1 .. n, NEW l \in 1 .. n, k # l
       PROVE  \/ Unique(actions)[k].category # Unique(actions)[l].category
              \/ Unique(actions)[k].target # Unique(actions)[l].target
  <2> DEFINE p == InOrder(F, k)
             q == InOrder(F, l)
  <2>1. p \in F /\ q \in F /\ p # q /\ p \in Int /\ q \in Int
    BY <1>2, <1>6, <1>7, <1>10
  <2>2. Unique(actions)[k] = actions[p] /\ Unique(actions)[l] = actions[q]
    BY <1>5
  <2> HIDE DEF p, q
  <2>3. p < q \/ q < p
    BY <2>1
  <2> QED
    BY <1>4, <2>1, <2>2, <2>3
<1>11. DOMAIN Unique(actions) = 1 .. n
  BY <1>5
<1> QED
  BY <1>9, <1>10, <1>11

\* All that may be proposed; what an action does says where it is done.
Subjects == {Cohort(Suite[i]) : i \in DOMAIN Suite} \cup {Case(Suite[i]) : i \in DOMAIN Suite}
Proposals == {Fixes(c)[j] : c \in Subjects, j \in 1 .. 5} \cup {ServiceFix(s) : s \in Services}

LEMMA WhatSaysWhere ==
    ASSUME NEW a \in Proposals, NEW b \in Proposals, a.what = b.what
    PROVE  a.category = b.category /\ a.target = b.target
<1> DEFINE Kind(x, category, verb, subject, target) ==
        x.category = category /\ x.what = <<verb, subject>> /\ x.target = target
<1>1. ASSUME NEW x \in Proposals
      PROVE  \E s : \/ Kind(x, "config_tune", "cloud_fallback", s, <<"CLOUD_FALLBACK_ALLOWED", Shared>>)
                    \/ Kind(x, "config_tune", "smaller_context", s, <<"CONTEXT_BUDGET_TOKENS", Shared>>)
                    \/ Kind(x, "model_swap", "faster_model", s, <<"primary_model", s>>)
                    \/ Kind(x, "config_tune", "verify_independently", s, <<"independent_verification", s>>)
                    \/ Kind(x, "config_tune", "verify_safety", s, <<"safety_verification", s>>)
                    \/ Kind(x, "restart_service", "restart", s, s)
  <2>1. CASE \E c \in Subjects : \E j \in 1 .. 5 : x = Fixes(c)[j]
    <3>1. PICK c \in Subjects, j \in 1 .. 5 : x = Fixes(c)[j]
      BY <2>1
    <3>2. x \in {ModelUpgrade(c), SmallerContext(c), FasterModel(c), ReworkFix(c), SafetyFix(c)}
      <4>1. j \in {1, 2, 3, 4, 5}
        OBVIOUS
      <4> QED
        BY <3>1, <4>1 DEF Fixes
    <3> QED
      BY <3>2 DEF ModelUpgrade, SmallerContext, FasterModel, ReworkFix, SafetyFix, Action
  <2>2. CASE \E s \in Services : x = ServiceFix(s)
    BY <2>2 DEF ServiceFix, Action
  <2> QED
    BY <2>1, <2>2 DEF Proposals
<1>2. PICK s :
        \/ Kind(a, "config_tune", "cloud_fallback", s, <<"CLOUD_FALLBACK_ALLOWED", Shared>>)
        \/ Kind(a, "config_tune", "smaller_context", s, <<"CONTEXT_BUDGET_TOKENS", Shared>>)
        \/ Kind(a, "model_swap", "faster_model", s, <<"primary_model", s>>)
        \/ Kind(a, "config_tune", "verify_independently", s, <<"independent_verification", s>>)
        \/ Kind(a, "config_tune", "verify_safety", s, <<"safety_verification", s>>)
        \/ Kind(a, "restart_service", "restart", s, s)
  BY <1>1
<1>3. PICK t :
        \/ Kind(b, "config_tune", "cloud_fallback", t, <<"CLOUD_FALLBACK_ALLOWED", Shared>>)
        \/ Kind(b, "config_tune", "smaller_context", t, <<"CONTEXT_BUDGET_TOKENS", Shared>>)
        \/ Kind(b, "model_swap", "faster_model", t, <<"primary_model", t>>)
        \/ Kind(b, "config_tune", "verify_independently", t, <<"independent_verification", t>>)
        \/ Kind(b, "config_tune", "verify_safety", t, <<"safety_verification", t>>)
        \/ Kind(b, "restart_service", "restart", t, t)
  BY <1>1
<1>4. /\ a.what[1] = b.what[1] /\ a.what[2] = b.what[2]
      /\ a.what[2] = s /\ b.what[2] = t
  BY <1>2, <1>3
<1>5. s = t
  BY <1>4
<1> QED
  BY <1>2, <1>3, <1>5

LEMMA SomeOrder ==
    ASSUME NEW S, IsFiniteSet(S)
    PROVE  SetToSeq(S) \in [1 .. Cardinality(S) -> S]
<1>1. PICK f : f \in Bijection(1 .. Cardinality(S), S)
  BY FS_CardinalityType, Zenon DEF ExistsBijection
<1>2. f \in [1 .. Cardinality(S) -> S] /\ IsInjective(f)
  BY <1>1 DEF Bijection, Injection, IsInjective
<1> QED
  BY <1>2 DEF SetToSeq

Whole(reports) == reports \in [DOMAIN Suite -> CohortReports \cup {None}]
Shape(s) == s \in SUBSET Services \/ s = None

LEMMA ActionsApart ==
    ASSUME NEW reports, NEW health, Shape(health)
    PROVE  /\ Actions(reports, health) \in Seq(Proposals)
           /\ \A k, l \in DOMAIN Actions(reports, health) :
                k # l => Actions(reports, health)[k].what # Actions(reports, health)[l].what
<1> DEFINE down == IF health = None THEN {} ELSE health
           fixes == {p \in 1 .. FixesEnd : Fix(p) \in Wanted(Metrics(reports, Subject(p)))}
           proposed == Proposed(reports, health)
<1>1. Len(Suite) \in Nat /\ DOMAIN Suite = 1 .. Len(Suite) /\ FixesEnd \in Nat
  BY ImproveAssumption DEF FixesEnd
<1>2. down \in SUBSET Services
  BY DEF Shape
<1>3. IsFiniteSet(down)
  BY <1>2, ImproveAssumption, FS_Subset
<1> HIDE DEF down
<1>4. Cardinality(down) \in Nat /\ SetToSeq(down) \in [1 .. Cardinality(down) -> down]
  BY <1>3, FS_CardinalityType, SomeOrder
<1>5. proposed = [p \in fixes \cup ((FixesEnd + 1) .. (FixesEnd + Cardinality(down))) |->
                    IF p <= FixesEnd THEN Fixes(Subject(p))[Fix(p)] ELSE ServiceFix(SetToSeq(down)[p - FixesEnd])]
  BY DEF Proposed, down
<1>6. \A p \in 1 .. FixesEnd : Fix(p) \in 1 .. 5 /\ Subject(p) \in Subjects
  <2> TAKE p \in 1 .. FixesEnd
  <2> DEFINE i == ((p - 1) \div 5) + 1
  <2>1. p \in Int /\ 1 <= p /\ p <= 10 * Len(Suite)
    BY <1>1 DEF FixesEnd
  <2>2. Fix(p) \in 1 .. 5
    BY <2>1 DEF Fix
  <2>3. i \in 1 .. (2 * Len(Suite))
    BY <1>1, <2>1
  <2>4. Subject(p) = IF i <= Len(Suite) THEN Cohort(Suite[i]) ELSE Case(Suite[i - Len(Suite)])
    BY DEF Subject
  <2> HIDE DEF i
  <2>5. CASE i <= Len(Suite)
    <3>1. i \in DOMAIN Suite
      BY <1>1, <2>3, <2>5
    <3> QED
      BY <2>2, <2>4, <2>5, <3>1 DEF Subjects
  <2>6. CASE ~(i <= Len(Suite))
    <3>1. i - Len(Suite) \in DOMAIN Suite
      BY <1>1, <2>3, <2>6
    <3> QED
      BY <2>2, <2>4, <2>6, <3>1 DEF Subjects
  <2> QED
    BY <2>5, <2>6
<1>7. fixes \in SUBSET (1 .. FixesEnd)
  OBVIOUS
<1> HIDE DEF fixes
<1>15. DOMAIN proposed = fixes \cup ((FixesEnd + 1) .. (FixesEnd + Cardinality(down)))
  BY <1>5
<1>8. \A p \in DOMAIN proposed : proposed[p] \in Proposals
  <2> TAKE p \in DOMAIN proposed
  <2>1. CASE p <= FixesEnd
    <3>1. p \in 1 .. FixesEnd
      BY <1>1, <1>4, <1>7, <1>15, <2>1
    <3>2. proposed[p] = Fixes(Subject(p))[Fix(p)]
      BY <1>5, <2>1
    <3> QED
      BY <1>6, <3>1, <3>2 DEF Proposals
  <2>2. CASE ~(p <= FixesEnd)
    <3>1. p \in (FixesEnd + 1) .. (FixesEnd + Cardinality(down))
      <4> HIDE DEF proposed
      <4>1. p \in 1 .. FixesEnd \/ p \in (FixesEnd + 1) .. (FixesEnd + Cardinality(down))
        BY <1>7, <1>15
      <4>2. ~(p \in 1 .. FixesEnd)
        BY <1>1, <2>2
      <4> QED
        BY <4>1, <4>2
    <3>2. p - FixesEnd \in 1 .. Cardinality(down)
      BY <1>1, <1>4, <3>1
    <3>3. SetToSeq(down)[p - FixesEnd] \in Services
      BY <1>2, <1>4, <3>2
    <3>4. proposed[p] = ServiceFix(SetToSeq(down)[p - FixesEnd])
      BY <1>5, <2>2
    <3> QED
      BY <3>3, <3>4 DEF Proposals
  <2> QED
    BY <2>1, <2>2
<1>9. DOMAIN proposed \in SUBSET Int /\ IsFiniteSet(DOMAIN proposed)
  <2>1. DOMAIN proposed \in SUBSET (1 .. (FixesEnd + Cardinality(down)))
    <3>1. \A p \in DOMAIN proposed : p \in 1 .. (FixesEnd + Cardinality(down))
      <4> HIDE DEF proposed
      <4> TAKE p \in DOMAIN proposed
      <4>1. p \in 1 .. FixesEnd \/ p \in (FixesEnd + 1) .. (FixesEnd + Cardinality(down))
        BY <1>7, <1>15
      <4> QED
        BY <1>1, <1>4, <4>1
    <3> QED
      BY <3>1
  <2>2. IsFiniteSet(1 .. (FixesEnd + Cardinality(down)))
    BY <1>1, <1>4, FS_Interval
  <2>3. IsFiniteSet(DOMAIN proposed)
    BY <2>1, <2>2, FS_Subset
  <2> QED
    BY <2>1, <2>3
<1> HIDE DEF proposed
<1>10. /\ Unique(proposed) \in Seq(Proposals)
       /\ \A k, l \in DOMAIN Unique(proposed) : k # l =>
            \/ Unique(proposed)[k].category # Unique(proposed)[l].category
            \/ Unique(proposed)[k].target # Unique(proposed)[l].target
  BY <1>8, <1>9, UniqueActions
<1> DEFINE u == Unique(proposed)
<1>11. Actions(reports, health) = u
  BY DEF Actions, proposed
<1> HIDE DEF u
<1>12. u \in Seq(Proposals) /\ \A k, l \in DOMAIN u : k # l => u[k].category # u[l].category \/ u[k].target # u[l].target
  BY <1>10 DEF u
<1>13. \A k \in DOMAIN u : u[k] \in Proposals
  BY <1>12
<1>14. \A k, l \in DOMAIN u : k # l => u[k].what # u[l].what
  BY <1>12, <1>13, WhatSaysWhere
<1> QED
  BY <1>11, <1>12, <1>14

\* A score is a number, the baseline's too.
LEMMA CycleScoreTyped ==
    ASSUME NEW reports, Whole(reports) \/ reports = None
    PROVE  CompositeScore(reports) \in Nat
<1>1. CASE reports = None \/ TotalWeight(reports) = 0
  BY <1>1 DEF CompositeScore
<1>2. CASE reports # None /\ TotalWeight(reports) # 0
  <2> DEFINE R == Ran(reports)
             weights == [i \in R |-> Suite[i].weight]
             worths == [i \in R |-> Suite[i].weight * Worth(reports[i])]
  <2>1. Len(Suite) \in Nat /\ DOMAIN Suite = 1 .. Len(Suite)
    BY ImproveAssumption
  <2>2. IsFiniteSet(R) /\ R \in SUBSET (DOMAIN Suite)
    <3>1. R \in SUBSET (DOMAIN Suite)
      BY DEF Ran
    <3>2. IsFiniteSet(1 .. Len(Suite))
      BY <2>1, FS_Interval
    <3>3. IsFiniteSet(R)
      BY <2>1, <3>1, <3>2, FS_Subset
    <3> QED
      BY <3>1, <3>3
  <2>3. \A i \in R : Suite[i].weight \in Nat
    <3> TAKE i \in R
    <3> DEFINE C == [name : STRING, weight : Nat, minimum : Nat]
    <3>1. Suite \in Seq(C)
      BY ImproveAssumption
    <3> HIDE DEF C
    <3>2. Suite[i] \in C
      BY <2>1, <2>2, <3>1, ElementOfSeq
    <3> QED
      BY <3>2 DEF C
  <2>4. \A i \in R : Worth(reports[i]) \in Nat
    <3> TAKE i \in R
    <3>1. reports[i] \in CohortReports
      BY <1>2, <2>2 DEF Ran, Whole
    <3>2. /\ reports[i].accuracy \in Nat /\ reports[i].rework \in Nat /\ reports[i].escalation \in Nat
          /\ reports[i].unsafe \in Nat
      <4>1. reports[i] \in [accuracy : Nat, rework : Nat, escalation : Nat, unsafe : Nat, slow : BOOLEAN]
        BY <3>1, ImproveAssumption
      <4> QED
        BY <4>1
    <3>3. CostEfficiency(reports[i]) \in Nat /\ Safety(reports[i]) \in Nat
      BY <3>2 DEF CostEfficiency, Safety, Least
    <3> QED
      BY <3>2, <3>3 DEF Worth
  <2> HIDE DEF R
  <2>5. (\A i \in R : weights[i] \in Nat) /\ (\A i \in R : worths[i] \in Nat)
    BY <2>3, <2>4
  <2>6. DOMAIN weights = R /\ DOMAIN worths = R
    OBVIOUS
  <2>7. TotalWeight(reports) = SumFunction(weights) /\ WeightedWorth(reports) = SumFunction(worths)
    BY DEF TotalWeight, WeightedWorth, R
  <2> HIDE DEF weights, worths
  <2>8. TotalWeight(reports) \in Nat /\ WeightedWorth(reports) \in Nat
    BY <2>2, <2>5, <2>6, <2>7, SumOfDomain, SumType
  <2>9. (25 * WeightedWorth(reports)) \div TotalWeight(reports) \in Nat
    BY <1>2, <2>8, DivisionBelow
  <2> QED
    BY <1>2, <2>9 DEF CompositeScore
<1> QED
  BY <1>1, <1>2

\* How often a thing was done, and that it is so once more.
Often(done, w) == Cardinality({i \in DOMAIN done : done[i] = w})

LEMMA OftenFinite ==
    ASSUME NEW W, NEW done \in Seq(W), NEW w
    PROVE  IsFiniteSet({i \in DOMAIN done : done[i] = w}) /\ Often(done, w) \in Nat
<1> DEFINE S == {i \in DOMAIN done : done[i] = w}
<1>1. Len(done) \in Nat /\ DOMAIN done = 1 .. Len(done)
  OBVIOUS
<1>2. S \in SUBSET (1 .. Len(done))
  BY <1>1
<1>3. IsFiniteSet(1 .. Len(done))
  BY <1>1, FS_Interval
<1>4. IsFiniteSet(S)
  BY <1>2, <1>3, FS_Subset
<1> QED
  BY <1>4, FS_CardinalityType DEF Often

LEMMA OnceMore ==
    ASSUME NEW W, NEW done \in Seq(W), NEW x \in W, NEW w
    PROVE  Often(Append(done, x), w) = Often(done, w) + (IF x = w THEN 1 ELSE 0)
<1> DEFINE S == {i \in DOMAIN done : done[i] = w}
           n == Len(done)
           T == {i \in DOMAIN Append(done, x) : Append(done, x)[i] = w}
<1>1. n \in Nat /\ DOMAIN done = 1 .. n
  OBVIOUS
<1>2. IsFiniteSet(S) /\ Cardinality(S) \in Nat
  BY OftenFinite DEF Often
<1>3. n + 1 \notin S
  BY <1>1
<1>4. /\ DOMAIN Append(done, x) = 1 .. (n + 1)
      /\ \A i \in 1 .. (n + 1) : Append(done, x)[i] = IF i = n + 1 THEN x ELSE done[i]
  BY <1>1
<1>5. T = IF x = w THEN S \cup {n + 1} ELSE S
  BY <1>1, <1>4
<1> HIDE DEF S, T, n
<1>6. CASE x = w
  <2>1. T = S \cup {n + 1}
    BY <1>5, <1>6
  <2>2. Cardinality(S \cup {n + 1}) = Cardinality(S) + 1
    BY <1>2, <1>3, FS_AddElement
  <2>3. Cardinality(T) = Cardinality(S) + 1
    BY <2>1, <2>2
  <2> QED
    BY <1>6, <2>3 DEF S, T, Often
<1>7. CASE x # w
  <2>1. Cardinality(T) = Cardinality(S)
    BY <1>5, <1>7
  <2>2. Cardinality(T) = Cardinality(S) + 0
    BY <1>2, <2>1
  <2> QED
    BY <1>7, <2>2 DEF S, T, Often
<1> QED
  BY <1>6, <1>7

LEMMA TimesOften == \A w : Times(w) = Often(executed, w)
BY DEF Times, Often

Whats == {a.what : a \in Proposals}
CycleStages == {"down", "probe", "bench", "baseline", "truncate", "save", "analyze", "apply", "check"}
CycleTyped ==
    /\ cycleOf \in [stage : CycleStages, cycle : Nat, health : (SUBSET Services) \cup {None},
                    reports : [DOMAIN Suite -> CohortReports \cup {None}] \cup {None},
                    actions : Seq(Proposals), applied : SUBSET Whats]
    /\ orch \in [cycle : Nat, converged : BOOLEAN, scores : Seq(Nat), applied : SUBSET Whats]
    /\ executed \in Seq(Whats) /\ lost \in Nat
    /\ boot.stage # "off" => improveMode.boot
\* The actions left are apart from each other and from what the cycle has done.
ActionsLeft ==
    /\ \A k, l \in DOMAIN cycleOf.actions : k # l => cycleOf.actions[k].what # cycleOf.actions[l].what
    /\ \A k \in DOMAIN cycleOf.actions : cycleOf.actions[k].what \notin cycleOf.applied
\* Only a cycle that applies has done something; it is recorded before the check.
DoneBy ==
    /\ ~(cycleOf.stage \in {"apply", "check"}) => cycleOf.applied = {}
    /\ cycleOf.stage = "check" => cycleOf.applied \subseteq orch.applied
\* What neither the state file nor the running cycle knows of was done by lost cycles only.
LostOnly ==
    ~improveMode.boot => \A w \in Whats :
        Times(w) <= lost + (IF w \in orch.applied \cup cycleOf.applied THEN 1 ELSE 0)
BestSoFar ==
    /\ finished \in SUBSET Nat /\ archived \in SUBSET Nat /\ baseline \in Nat \cup {None, HalfWritten}
    /\ baseline = None => finished \cup archived = {}
    /\ BaselineIsBest
\* In the update: the old baseline is copied before its file is emptied, and
\* what will be written over it is no worse than anything before.
Saving ==
    /\ cycleOf.stage = "truncate" =>
          baseline # HalfWritten /\ Better(Score) /\ (baseline # None => baseline \in archived)
    /\ cycleOf.stage = "save" => \A s \in finished \cup archived : s <= Score
CycleInv == CycleTyped /\ ActionsLeft /\ DoneBy /\ LostOnly /\ BestSoFar /\ Saving

LEMMA DownTyped ==
    /\ Down \in [stage : CycleStages, cycle : Nat, health : (SUBSET Services) \cup {None},
                 reports : [DOMAIN Suite -> CohortReports \cup {None}] \cup {None},
                 actions : Seq(Proposals), applied : SUBSET Whats]
    /\ Down.actions = <<>> /\ Down.applied = {} /\ Down.stage = "down"
    /\ \A n \in Nat :
        /\ Cycle(n) \in [stage : CycleStages, cycle : Nat, health : (SUBSET Services) \cup {None},
                         reports : [DOMAIN Suite -> CohortReports \cup {None}] \cup {None},
                         actions : Seq(Proposals), applied : SUBSET Whats]
        /\ Cycle(n).actions = <<>> /\ Cycle(n).applied = {} /\ Cycle(n).stage = "probe"
<1> DEFINE reportsOf == [DOMAIN Suite -> CohortReports \cup {None}] \cup {None}
           healthOf == (SUBSET Services) \cup {None}
<1>1. None \in reportsOf /\ None \in healthOf /\ <<>> \in Seq(Proposals) /\ {} \in SUBSET Whats
  OBVIOUS
<1> HIDE DEF reportsOf, healthOf
<1>2. Down \in [stage : CycleStages, cycle : Nat, health : healthOf, reports : reportsOf,
                actions : Seq(Proposals), applied : SUBSET Whats]
  BY <1>1 DEF Down, CycleStages
<1>3. \A n \in Nat : Cycle(n) \in [stage : CycleStages, cycle : Nat, health : healthOf, reports : reportsOf,
                                    actions : Seq(Proposals), applied : SUBSET Whats]
  BY <1>1 DEF Down, Cycle, CycleStages
<1>4. /\ Down.actions = <<>> /\ Down.applied = {} /\ Down.stage = "down"
      /\ \A n \in Nat : Cycle(n).actions = <<>> /\ Cycle(n).applied = {} /\ Cycle(n).stage = "probe"
  BY DEF Down, Cycle
<1> QED
  BY <1>2, <1>3, <1>4 DEF reportsOf, healthOf

LEMMA CycleInvStarts == ImproveInit => CycleInv
<1> SUFFICES ASSUME ImproveInit PROVE CycleInv
  OBVIOUS
<1> USE DEF ImproveInit
<1>1. CycleTyped
  BY DownTyped DEF CycleTyped, FreshState
<1>2. ActionsLeft /\ DoneBy
  BY DownTyped DEF ActionsLeft, DoneBy
<1>3. LostOnly
  <2>1. {i \in DOMAIN executed : TRUE} = {}
    OBVIOUS
  <2>2. \A w : {i \in DOMAIN executed : executed[i] = w} = {}
    BY <2>1
  <2>3. \A w : Times(w) = 0
    BY <2>2, FS_EmptySet DEF Times
  <2> QED
    BY <2>3 DEF LostOnly
<1>4. BestSoFar
  BY DEF BestSoFar, BaselineIsBest, Baselines
<1>5. Saving
  BY DownTyped DEF Saving
<1> QED
  BY <1>1, <1>2, <1>3, <1>4, <1>5 DEF CycleInv

\* A step that drops the running cycle, and has lost one if it was not recorded.
LEMMA CycleDropped ==
    ASSUME CycleInv, cycleOf' = Down \/ \E n \in Nat : cycleOf' = Cycle(n),
           orch'.applied = orch.applied, orch' \in [cycle : Nat, converged : BOOLEAN, scores : Seq(Nat), applied : SUBSET Whats],
           \/ lost' = lost + 1
           \/ lost' = lost /\ cycleOf.applied \subseteq orch.applied
           \/ lost' = lost /\ improveMode.boot,
           UNCHANGED <<improveMode, executed, baseline, archived, finished>>, boot' = boot \/ improveMode.boot
    PROVE  CycleInv'
<1>1. CycleTyped /\ LostOnly /\ BestSoFar
  BY DEF CycleInv
<1>2. CycleTyped'
  <2>1. lost' \in Nat
    BY <1>1 DEF CycleTyped
  <2>2. executed' \in Seq(Whats)
    BY <1>1 DEF CycleTyped
  <2>3. boot'.stage # "off" => improveMode'.boot
    BY <1>1 DEF CycleTyped
  <2> QED
    BY <2>1, <2>2, <2>3, DownTyped DEF CycleTyped
<1>3. cycleOf'.actions = <<>> /\ cycleOf'.applied = {} /\ cycleOf'.stage \notin {"apply", "check"}
  BY DownTyped
<1>4. ActionsLeft' /\ DoneBy'
  BY <1>3 DEF ActionsLeft, DoneBy
<1>5. LostOnly'
  <2> SUFFICES ASSUME ~improveMode.boot, NEW w \in Whats
               PROVE  Times(w) <= lost' + (IF w \in orch.applied THEN 1 ELSE 0)
    BY <1>3 DEF LostOnly, Times
  <2>1. Times(w) \in Nat /\ lost \in Nat
    <3>1. executed \in Seq(Whats) /\ lost \in Nat
      BY <1>1 DEF CycleTyped
    <3>2. Times(w) \in Nat
      BY <3>1, OftenFinite, TimesOften
    <3> QED
      BY <3>1, <3>2
  <2>2. Times(w) <= lost + (IF w \in orch.applied \cup cycleOf.applied THEN 1 ELSE 0)
    BY <1>1 DEF LostOnly
  <2>3. lost' = lost + 1 \/ (lost' = lost /\ cycleOf.applied \subseteq orch.applied)
    OBVIOUS
  <2> HIDE DEF Times
  <2> QED
    BY <2>1, <2>2, <2>3
<1>6. BestSoFar'
  BY <1>1 DEF BestSoFar, BaselineIsBest, Baselines
<1>7. Saving'
  BY DownTyped DEF Saving
<1> QED
  BY <1>2, <1>4, <1>5, <1>6, <1>7 DEF CycleInv

\* A step that neither touches the baseline nor goes into its update.
LEMMA NotSaving ==
    ASSUME cycleOf'.stage \notin {"truncate", "save"} PROVE Saving'
BY DEF Saving

\* What every step of the update keeps: it does nothing but go on.
LEMMA UpdateGoesOn ==
    ASSUME CycleInv, cycleOf.stage \in {"baseline", "truncate", "save"},
           NEW next \in {"truncate", "save", "analyze"},
           NEW reports \in [DOMAIN Suite -> CohortReports \cup {None}] \cup {None},
           cycleOf' = [cycleOf EXCEPT !.stage = next, !.reports = reports],
           UNCHANGED <<improveMode, orch, starts, boot, executed, lost, lastSeen>>
    PROVE  CycleTyped' /\ ActionsLeft' /\ DoneBy' /\ LostOnly'
<1>1. CycleTyped /\ ActionsLeft /\ DoneBy /\ LostOnly
  BY DEF CycleInv
<1>2. CycleTyped'
  BY <1>1 DEF CycleTyped, CycleStages
<1>3. cycleOf'.actions = cycleOf.actions /\ cycleOf'.applied = cycleOf.applied /\ cycleOf'.stage = next
  BY <1>1 DEF CycleTyped
<1>4. cycleOf.applied = {}
  BY <1>1 DEF DoneBy
<1>5. ActionsLeft' /\ DoneBy'
  BY <1>1, <1>3, <1>4 DEF ActionsLeft, DoneBy
<1>6. LostOnly'
  BY <1>1, <1>3 DEF LostOnly, Times
<1> QED
  BY <1>2, <1>5, <1>6

LEMMA UpdateKeeps ==
    ASSUME CycleInv, KeepBaseline \/ ArchiveBaseline \/ TruncateBaseline \/ SaveBaseline \/ BenchmarkRaises
    PROVE  CycleInv'
<1>1. CycleTyped /\ BestSoFar /\ Saving
  BY DEF CycleInv
<1>2. Score \in Nat
  BY <1>1, CycleScoreTyped DEF CycleTyped, Whole, Score
<1>3. cycleOf = [cycleOf EXCEPT !.reports = cycleOf.reports]
      /\ cycleOf.reports \in [DOMAIN Suite -> CohortReports \cup {None}] \cup {None}
  BY <1>1 DEF CycleTyped
<1>4. /\ finished \in SUBSET Nat /\ archived \in SUBSET Nat /\ baseline \in Nat \cup {None, HalfWritten}
      /\ baseline = None => finished \cup archived = {}
      /\ \A b \in Baselines, s \in finished \cup archived : s <= b
      /\ finished # {} => \E best \in Baselines \cup archived : \A s \in finished : s <= best
  BY <1>1 DEF BestSoFar, BaselineIsBest
<1>5. None \notin Nat /\ HalfWritten \notin Nat /\ HalfWritten # None
  BY ImproveAssumption DEF HalfWritten
<1>6. baseline \in Nat => Baselines = {baseline}
  BY <1>5 DEF Baselines
<1>7. baseline \in {None, HalfWritten} => Baselines = {}
  BY DEF Baselines
<1>8. CASE KeepBaseline
  <2>1. /\ cycleOf.stage = "baseline" /\ cycleOf' = [cycleOf EXCEPT !.stage = "analyze", !.reports = cycleOf.reports]
        /\ UNCHANGED <<improveMode, orch, starts, baseline, archived, boot, executed, lost, lastSeen>>
        /\ finished' = finished \cup {Score} /\ baseline # HalfWritten /\ baseline # None /\ ~(Score > baseline)
    BY <1>1, <1>8 DEF KeepBaseline, ImproveAt, Better, CycleTyped
  <2>2. baseline \in Nat /\ Score <= baseline /\ Baselines' = Baselines
    BY <1>2, <1>4, <2>1 DEF Baselines
  <2>3. BaselineIsBest'
    BY <1>2, <1>4, <1>6, <2>1, <2>2 DEF BaselineIsBest
  <2>4. BestSoFar'
    BY <1>2, <1>4, <2>1, <2>3 DEF BestSoFar
  <2>5. CycleTyped' /\ ActionsLeft' /\ DoneBy' /\ LostOnly'
    BY <1>3, <2>1, UpdateGoesOn
  <2>6. Saving'
    BY <1>1, <2>1, NotSaving DEF CycleTyped
  <2> QED
    BY <2>4, <2>5, <2>6 DEF CycleInv
<1>9. CASE ArchiveBaseline
  <2>1. /\ cycleOf.stage = "baseline" /\ cycleOf' = [cycleOf EXCEPT !.stage = "truncate", !.reports = cycleOf.reports]
        /\ UNCHANGED <<improveMode, orch, starts, baseline, boot, finished, executed, lost, lastSeen>>
        /\ archived' = archived \cup ({baseline} \ {None}) /\ baseline # HalfWritten /\ (baseline = None \/ Score > baseline)
    BY <1>1, <1>9 DEF ArchiveBaseline, ImproveAt, Better, CycleTyped
  <2>2. Baselines' = Baselines /\ cycleOf'.stage = "truncate" /\ Score' = Score
    BY <1>1, <2>1 DEF Baselines, Score, CycleTyped
  <2>3. BestSoFar'
    <3>1. CASE baseline = None
      <4>1. archived' = archived
        BY <2>1, <3>1
      <4> QED
        BY <1>4, <2>1, <2>2, <4>1 DEF BestSoFar, BaselineIsBest
    <3>2. CASE baseline # None
      <4>1. baseline \in Nat /\ archived' = archived \cup {baseline}
        BY <1>4, <2>1, <3>2
      <4>2. BaselineIsBest'
        BY <1>4, <1>6, <2>1, <2>2, <4>1 DEF BaselineIsBest
      <4> QED
        BY <1>4, <2>1, <3>2, <4>1, <4>2 DEF BestSoFar
    <3> QED
      BY <3>1, <3>2
  <2>4. Saving'
    <3>1. baseline # None => baseline \in archived'
      BY <2>1
    <3> QED
      BY <2>1, <2>2, <3>1 DEF Saving, Better
  <2>5. CycleTyped' /\ ActionsLeft' /\ DoneBy' /\ LostOnly'
    BY <1>3, <2>1, UpdateGoesOn
  <2> QED
    BY <2>3, <2>4, <2>5 DEF CycleInv
<1>10. CASE TruncateBaseline
  <2>1. /\ cycleOf.stage = "truncate" /\ cycleOf' = [cycleOf EXCEPT !.stage = "save", !.reports = cycleOf.reports]
        /\ UNCHANGED <<improveMode, orch, starts, archived, boot, finished, executed, lost, lastSeen>>
        /\ baseline' = HalfWritten
    BY <1>1, <1>10 DEF TruncateBaseline, ImproveAt, CycleTyped
  <2>2. /\ Baselines' = {} /\ cycleOf'.stage = "save" /\ Score' = Score
    BY <1>1, <2>1 DEF Baselines, Score, CycleTyped
  <2>3. /\ baseline # HalfWritten /\ (baseline = None \/ Score > baseline) /\ (baseline # None => baseline \in archived)
    BY <1>1, <2>1 DEF Saving, Better
  <2>4. (\A s \in finished \cup archived : s <= Score) /\ (finished # {} => \E best \in archived : \A s \in finished : s <= best)
    <3>1. CASE baseline = None
      BY <1>4, <3>1
    <3>2. CASE baseline # None
      <4>1. baseline \in Nat /\ baseline \in archived /\ Score > baseline
        BY <1>4, <2>3, <3>2
      <4>2. \A s \in finished \cup archived : s <= baseline /\ s \in Nat
        BY <1>4, <1>6, <4>1
      <4> QED
        BY <1>2, <4>1, <4>2
    <3> QED
      BY <3>1, <3>2
  <2>5. BestSoFar'
    BY <1>4, <1>5, <2>1, <2>2, <2>4 DEF BestSoFar, BaselineIsBest
  <2>6. Saving'
    BY <2>1, <2>2, <2>4 DEF Saving
  <2>7. CycleTyped' /\ ActionsLeft' /\ DoneBy' /\ LostOnly'
    BY <1>3, <2>1, UpdateGoesOn
  <2> QED
    BY <2>5, <2>6, <2>7 DEF CycleInv
<1>11. CASE SaveBaseline
  <2>1. /\ cycleOf.stage = "save" /\ cycleOf' = [cycleOf EXCEPT !.stage = "analyze", !.reports = cycleOf.reports]
        /\ UNCHANGED <<improveMode, orch, starts, archived, boot, executed, lost, lastSeen>>
        /\ baseline' = Score /\ finished' = finished \cup {Score}
    BY <1>1, <1>11 DEF SaveBaseline, ImproveAt, CycleTyped
  <2>2. \A s \in finished \cup archived : s <= Score
    BY <1>1, <2>1 DEF Saving
  <2>3. Baselines' = {Score}
    BY <1>2, <1>5, <2>1 DEF Baselines
  <2>4. BestSoFar'
    <3>1. BaselineIsBest'
      BY <1>2, <2>1, <2>2, <2>3 DEF BaselineIsBest
    <3> QED
      BY <1>2, <1>4, <1>5, <2>1, <3>1 DEF BestSoFar
  <2>5. CycleTyped' /\ ActionsLeft' /\ DoneBy' /\ LostOnly'
    BY <1>3, <2>1, UpdateGoesOn
  <2>6. Saving'
    BY <1>1, <2>1, NotSaving DEF CycleTyped
  <2> QED
    BY <2>4, <2>5, <2>6 DEF CycleInv
<1>12. CASE BenchmarkRaises
  <2>1. /\ cycleOf.stage \in {"baseline", "truncate", "save"}
        /\ cycleOf' = [cycleOf EXCEPT !.stage = "analyze", !.reports = None]
        /\ UNCHANGED <<improveMode, orch, starts, baseline, archived, boot, finished, executed, lost, lastSeen>>
    BY <1>12 DEF BenchmarkRaises
  <2>2. CycleTyped' /\ ActionsLeft' /\ DoneBy' /\ LostOnly'
    BY <2>1, UpdateGoesOn
  <2>3. BestSoFar'
    BY <1>1, <2>1 DEF BestSoFar, BaselineIsBest, Baselines
  <2>4. Saving'
    BY <1>1, <2>1, NotSaving DEF CycleTyped
  <2> QED
    BY <2>2, <2>3, <2>4 DEF CycleInv
<1> QED
  BY <1>8, <1>9, <1>10, <1>11, <1>12

LEMMA AnalyzeKeeps == ASSUME CycleInv, Analyze PROVE CycleInv'
<1> DEFINE actions == Actions(cycleOf.reports, cycleOf.health)
<1>1. CycleTyped /\ DoneBy /\ LostOnly /\ BestSoFar
  BY DEF CycleInv
<1>2. Shape(cycleOf.health)
  BY <1>1 DEF CycleTyped, Shape
<1>3. actions \in Seq(Proposals) /\ \A k, l \in DOMAIN actions : k # l => actions[k].what # actions[l].what
  BY <1>2, ActionsApart
<1>4. /\ cycleOf.stage = "analyze" /\ cycleOf' = [cycleOf EXCEPT !.stage = "apply", !.actions = actions]
      /\ UNCHANGED <<improveMode, orch, starts, baseline, archived, boot, finished, executed, lost, lastSeen>>
  BY DEF Analyze, ImproveAt
<1> HIDE DEF actions
<1>5. CycleTyped'
  BY <1>1, <1>3, <1>4 DEF CycleTyped, CycleStages
<1>6. cycleOf'.actions = actions /\ cycleOf'.applied = cycleOf.applied /\ cycleOf'.stage = "apply" /\ cycleOf.applied = {}
  BY <1>1, <1>4 DEF CycleTyped, DoneBy
<1>7. ActionsLeft' /\ DoneBy'
  BY <1>3, <1>6 DEF ActionsLeft, DoneBy
<1>8. LostOnly'
  BY <1>1, <1>4, <1>6 DEF LostOnly, Times
<1>9. BestSoFar' /\ Saving'
  BY <1>1, <1>4, <1>6 DEF BestSoFar, BaselineIsBest, Baselines, Saving
<1> QED
  BY <1>5, <1>7, <1>8, <1>9 DEF CycleInv

LEMMA ApplyNextKeeps == ASSUME CycleInv, ApplyNext PROVE CycleInv'
<1> DEFINE a == Head(cycleOf.actions)
<1>1. CycleTyped /\ ActionsLeft /\ DoneBy /\ LostOnly /\ BestSoFar
  BY DEF CycleInv
<1>2. PICK done \in BOOLEAN :
        /\ cycleOf' = [cycleOf EXCEPT !.actions = Tail(@),
                                      !.applied = IF Applicable(a) /\ done THEN @ \cup {a.what} ELSE @]
        /\ executed' = IF Applicable(a) /\ done THEN Append(executed, a.what) ELSE executed
  BY DEF ApplyNext
<1>3. /\ cycleOf.stage = "apply" /\ cycleOf.actions # <<>>
      /\ UNCHANGED <<improveMode, orch, starts, baseline, archived, boot, finished, lost, lastSeen>>
  BY DEF ApplyNext, ImproveAt
<1> DEFINE applies == Applicable(a) /\ done
<1>4. cycleOf.actions \in Seq(Proposals)
  BY <1>1 DEF CycleTyped
<1>5. /\ a = cycleOf.actions[1] /\ 1 \in DOMAIN cycleOf.actions /\ a \in Proposals
      /\ Tail(cycleOf.actions) \in Seq(Proposals)
      /\ \A k \in DOMAIN Tail(cycleOf.actions) :
            k + 1 \in DOMAIN cycleOf.actions /\ k + 1 # 1 /\ Tail(cycleOf.actions)[k] = cycleOf.actions[k + 1] /\ k \in Int
  BY <1>3, <1>4
<1>6. a.what \in Whats
  BY <1>5 DEF Whats
<1>7. a.what \notin cycleOf.applied
  BY <1>1, <1>5 DEF ActionsLeft
<1>8. applies => a.what \notin orch.applied
  BY DEF Applicable, AlreadyApplied
<1> HIDE DEF a
<1>9. /\ cycleOf'.actions = Tail(cycleOf.actions) /\ cycleOf'.stage = "apply"
      /\ cycleOf'.applied = IF applies THEN cycleOf.applied \cup {a.what} ELSE cycleOf.applied
      /\ executed' = IF applies THEN Append(executed, a.what) ELSE executed
  BY <1>1, <1>2, <1>3 DEF CycleTyped
<1>10. CycleTyped'
  <2>1. executed' \in Seq(Whats)
    <3>1. executed \in Seq(Whats)
      BY <1>1 DEF CycleTyped
    <3> HIDE DEF applies
    <3> QED
      BY <3>1, <1>6, <1>9
  <2>2. cycleOf' \in [stage : CycleStages, cycle : Nat, health : (SUBSET Services) \cup {None},
                    reports : [DOMAIN Suite -> CohortReports \cup {None}] \cup {None},
                    actions : Seq(Proposals), applied : SUBSET Whats]
    <3>1. cycleOf' = [cycleOf EXCEPT !.actions = Tail(@), !.applied = IF applies THEN @ \cup {a.what} ELSE @]
      BY <1>2
    <3> HIDE DEF applies
    <3> QED
      BY <1>1, <1>5, <1>6, <3>1 DEF CycleTyped
  <2> QED
    BY <1>1, <1>3, <2>1, <2>2 DEF CycleTyped
<1> HIDE DEF applies
<1>11. ActionsLeft'
  <2>1. ASSUME NEW k \in DOMAIN cycleOf'.actions, NEW l \in DOMAIN cycleOf'.actions, k # l
        PROVE  cycleOf'.actions[k].what # cycleOf'.actions[l].what
    <3>1. k + 1 # l + 1
      BY <1>5, <1>9, <2>1
    <3> QED
      BY <1>1, <1>5, <1>9, <3>1 DEF ActionsLeft
  <2>2. ASSUME NEW k \in DOMAIN cycleOf'.actions
        PROVE  cycleOf'.actions[k].what \notin cycleOf'.applied
    <3>1. /\ k + 1 \in DOMAIN cycleOf.actions /\ k + 1 # 1
          /\ cycleOf'.actions[k] = cycleOf.actions[k + 1]
      BY <1>5, <1>9
    <3>2. cycleOf.actions[k + 1].what # a.what /\ cycleOf.actions[k + 1].what \notin cycleOf.applied
      BY <1>1, <1>5, <3>1 DEF ActionsLeft
    <3> QED
      BY <1>9, <3>1, <3>2
  <2> QED
    BY <2>1, <2>2 DEF ActionsLeft
<1>12. DoneBy'
  BY <1>9 DEF DoneBy
<1>13. LostOnly'
  <2> SUFFICES ASSUME ~improveMode.boot, NEW w \in Whats
               PROVE  Times(w)' <= lost + (IF w \in orch.applied \cup cycleOf'.applied THEN 1 ELSE 0)
    BY <1>3 DEF LostOnly
  <2>1. lost \in Nat /\ executed \in Seq(Whats)
    BY <1>1 DEF CycleTyped
  <2>2. Times(w) \in Nat /\ Times(w) <= lost + (IF w \in orch.applied \cup cycleOf.applied THEN 1 ELSE 0)
    <3>1. Times(w) \in Nat
      BY <2>1, OftenFinite, TimesOften
    <3> QED
      BY <1>1, <1>3, <3>1 DEF LostOnly
  <2>3. CASE ~applies
    <3>1. Times(w)' = Times(w)
      BY <1>9, <2>3 DEF Times
    <3> QED
      BY <1>9, <2>2, <2>3, <3>1
  <2>4. CASE applies
    <3>1. Times(w)' = Times(w) + (IF a.what = w THEN 1 ELSE 0)
      <4>1. executed' = Append(executed, a.what)
        BY <1>9, <2>4
      <4>2. Often(Append(executed, a.what), w) = Often(executed, w) + (IF a.what = w THEN 1 ELSE 0)
        BY <1>6, <2>1, OnceMore
      <4>3. Times(w) = Often(executed, w) /\ Times(w)' = Often(Append(executed, a.what), w)
        BY <4>1 DEF Times, Often
      <4> QED
        BY <4>2, <4>3
    <3>2. CASE a.what = w
      BY <1>7, <1>8, <1>9, <2>1, <2>2, <2>4, <3>1, <3>2
    <3>3. CASE a.what # w
      BY <1>9, <2>1, <2>2, <2>4, <3>1, <3>3
    <3> QED
      BY <3>2, <3>3
  <2> QED
    BY <2>3, <2>4
<1>14. BestSoFar'
  BY <1>1, <1>3 DEF BestSoFar, BaselineIsBest, Baselines
<1>15. Saving'
  BY <1>9, NotSaving
<1> QED
  BY <1>10, <1>11, <1>12, <1>13, <1>14, <1>15 DEF CycleInv

LEMMA RecordCycleKeeps == ASSUME CycleInv, RecordCycle PROVE CycleInv'
<1> DEFINE score == CompositeScore(cycleOf.reports)
<1>1. CycleTyped /\ ActionsLeft /\ DoneBy /\ LostOnly /\ BestSoFar
  BY DEF CycleInv
<1>2. score \in Nat
  BY <1>1, CycleScoreTyped DEF CycleTyped, Whole
<1>3. /\ cycleOf.stage = "apply" /\ cycleOf' = [cycleOf EXCEPT !.stage = "check"]
      /\ orch' = [orch EXCEPT !.cycle = cycleOf.cycle, !.scores = Append(@, score), !.applied = @ \cup cycleOf.applied]
      /\ UNCHANGED <<improveMode, starts, baseline, archived, boot, finished, executed, lost>>
  BY DEF RecordCycle, ImproveAt
<1> HIDE DEF score
<1>4. CycleTyped'
  <2>1. cycleOf' \in [stage : CycleStages, cycle : Nat, health : (SUBSET Services) \cup {None},
                    reports : [DOMAIN Suite -> CohortReports \cup {None}] \cup {None},
                    actions : Seq(Proposals), applied : SUBSET Whats]
    BY <1>1, <1>3 DEF CycleTyped, CycleStages
  <2>2. Append(orch.scores, score) \in Seq(Nat)
    BY <1>1, <1>2 DEF CycleTyped
  <2>3. orch.applied \cup cycleOf.applied \in SUBSET Whats
    BY <1>1 DEF CycleTyped
  <2>4. orch' \in [cycle : Nat, converged : BOOLEAN, scores : Seq(Nat), applied : SUBSET Whats]
    BY <1>1, <1>3, <2>2, <2>3 DEF CycleTyped
  <2> QED
    BY <1>1, <1>3, <2>1, <2>4 DEF CycleTyped
<1>5. /\ cycleOf'.actions = cycleOf.actions /\ cycleOf'.applied = cycleOf.applied /\ cycleOf'.stage = "check"
      /\ orch'.applied = orch.applied \cup cycleOf.applied
  BY <1>1, <1>3 DEF CycleTyped
<1>6. ActionsLeft' /\ DoneBy'
  BY <1>1, <1>5 DEF ActionsLeft, DoneBy
<1>7. LostOnly'
  <2>1. orch'.applied \cup cycleOf'.applied = orch.applied \cup cycleOf.applied
    BY <1>5
  <2> QED
    BY <1>1, <1>3, <2>1 DEF LostOnly, Times
<1>8. BestSoFar'
  BY <1>1, <1>3 DEF BestSoFar, BaselineIsBest, Baselines
<1>9. Saving'
  BY <1>5, NotSaving
<1> QED
  BY <1>4, <1>6, <1>7, <1>8, <1>9 DEF CycleInv

LEMMA ImproveStepKeeps == CycleInv /\ [ImproveNext]_improveVars => CycleInv'
<1> SUFFICES ASSUME CycleInv, [ImproveNext]_improveVars PROVE CycleInv'
  OBVIOUS
<1>1. CycleTyped /\ ActionsLeft /\ DoneBy /\ LostOnly /\ BestSoFar /\ Saving
  BY DEF CycleInv
<1>2. cycleOf.cycle + 1 \in Nat /\ orch.cycle + 1 \in Nat
  BY <1>1 DEF CycleTyped
<1>3. orch \in [cycle : Nat, converged : BOOLEAN, scores : Seq(Nat), applied : SUBSET Whats]
  BY <1>1 DEF CycleTyped
<1>4. NextCycle = Down \/ \E n \in Nat : NextCycle = Cycle(n)
  BY <1>2 DEF NextCycle
<1>5. CASE StartRun
  <2>1. cycleOf.applied = {}
    BY <1>1, <1>5 DEF StartRun, ImproveAt, DoneBy
  <2>2. \E n \in Nat : cycleOf' = Cycle(n)
    BY <1>2, <1>5 DEF StartRun
  <2> QED
    BY <1>3, <1>5, <2>1, <2>2, CycleDropped DEF StartRun
<1>6. CASE ProbeHealth \/ RunBenchmarks
  <2>1. \E health \in (SUBSET Services) \cup {None}, reports \in [DOMAIN Suite -> CohortReports \cup {None}] \cup {None},
           stage1 \in {"bench", "baseline", "analyze"} :
            cycleOf' = [cycleOf EXCEPT !.stage = stage1, !.health = health, !.reports = reports]
    <3>1. CASE ProbeHealth
      <4>1. PICK health \in (SUBSET Services) \cup {None} : cycleOf' = [cycleOf EXCEPT !.stage = "bench", !.health = health]
        BY <3>1 DEF ProbeHealth, HealthMatrix
      <4>2. cycleOf' = [cycleOf EXCEPT !.stage = "bench", !.health = health, !.reports = cycleOf.reports]
        BY <1>1, <4>1 DEF CycleTyped
      <4>3. cycleOf.reports \in [DOMAIN Suite -> CohortReports \cup {None}] \cup {None}
        BY <1>1 DEF CycleTyped
      <4> QED
        BY <4>2, <4>3
    <3>2. CASE RunBenchmarks
      <4>1. PICK reports \in [DOMAIN Suite -> CohortReports \cup {None}] \cup {None} :
              cycleOf' = [cycleOf EXCEPT !.stage = IF reports = None THEN "analyze" ELSE "baseline", !.reports = reports]
        BY <3>2 DEF RunBenchmarks
      <4>2. PICK stage1 \in {"baseline", "analyze"} : cycleOf' = [cycleOf EXCEPT !.stage = stage1, !.reports = reports]
        BY <4>1
      <4>3. cycleOf' = [cycleOf EXCEPT !.stage = stage1, !.health = cycleOf.health, !.reports = reports]
        BY <1>1, <4>2 DEF CycleTyped
      <4>4. cycleOf.health \in (SUBSET Services) \cup {None}
        BY <1>1 DEF CycleTyped
      <4> QED
        BY <4>3, <4>4
    <3> QED
      BY <1>6, <3>1, <3>2
  <2>2. UNCHANGED <<improveMode, orch, starts, baseline, archived, boot, finished, executed, lost, lastSeen>>
    BY <1>6 DEF ProbeHealth, RunBenchmarks
  <2>3. CycleTyped'
    BY <1>1, <2>1, <2>2 DEF CycleTyped, CycleStages
  <2>4. cycleOf'.actions = cycleOf.actions /\ cycleOf'.applied = cycleOf.applied
        /\ cycleOf'.stage \notin {"apply", "check", "truncate", "save"}
    BY <1>1, <2>1 DEF CycleTyped
  <2>5. cycleOf.applied = {}
    BY <1>1, <1>6 DEF DoneBy, ProbeHealth, RunBenchmarks, ImproveAt
  <2>6. ActionsLeft' /\ DoneBy' /\ LostOnly' /\ BestSoFar' /\ Saving'
    <3>1. ActionsLeft' /\ DoneBy'
      BY <1>1, <2>4, <2>5 DEF ActionsLeft, DoneBy
    <3>2. LostOnly'
      BY <1>1, <2>2, <2>4 DEF LostOnly, Times
    <3>3. BestSoFar' /\ Saving'
      BY <1>1, <2>2, <2>4 DEF BestSoFar, BaselineIsBest, Baselines, Saving
    <3> QED
      BY <3>1, <3>2, <3>3
  <2> QED
    BY <2>3, <2>6 DEF CycleInv
<1>7. CASE KeepBaseline \/ ArchiveBaseline \/ TruncateBaseline \/ SaveBaseline \/ BenchmarkRaises
  BY <1>7, UpdateKeeps
<1>8. CASE Analyze
  BY <1>8, AnalyzeKeeps
<1>9. CASE ApplyNext
  BY <1>9, ApplyNextKeeps
<1>10. CASE RecordCycle
  BY <1>10, RecordCycleKeeps
<1>11. CASE CheckConvergence
  <2>1. cycleOf.applied \subseteq orch.applied
    BY <1>1, <1>11 DEF CheckConvergence, ImproveAt, DoneBy
  <2>2. orch' = [orch EXCEPT !.converged = orch.converged \/ Converged(orch.scores)]
    BY <1>11 DEF CheckConvergence
  <2>3. (orch.converged \/ Converged(orch.scores)) \in BOOLEAN
    BY DEF Converged
  <2>4. /\ orch'.applied = orch.applied
        /\ orch' \in [cycle : Nat, converged : BOOLEAN, scores : Seq(Nat), applied : SUBSET Whats]
    BY <1>3, <2>2, <2>3
  <2> QED
    BY <1>4, <1>11, <2>1, <2>4, CycleDropped DEF CheckConvergence
<1>12. CASE CycleFails
  BY <1>3, <1>4, <1>12, CycleDropped DEF CycleFails
<1>13. CASE Die
  BY <1>3, <1>13, CycleDropped DEF Die
<1>14. CASE EnsureGateway \/ ChildDone
  <2>1. improveMode.boot
    BY <1>1, <1>14 DEF EnsureGateway, ChildDone, CycleTyped
  <2>2. UNCHANGED <<improveMode, orch, cycleOf, starts, baseline, archived, finished, executed, lost, lastSeen>>
    BY <1>14 DEF EnsureGateway, ChildDone
  <2>3. CycleTyped'
    BY <1>1, <2>1, <2>2 DEF CycleTyped
  <2>4. ActionsLeft' /\ DoneBy' /\ LostOnly' /\ BestSoFar' /\ Saving'
    BY <1>1, <2>2 DEF ActionsLeft, DoneBy, LostOnly, BestSoFar, BaselineIsBest, Baselines, Times, Saving, Better, Score
  <2> QED
    BY <2>3, <2>4 DEF CycleInv
<1>15. CASE BootCycle
  <2>1. improveMode.boot
    BY <1>1, <1>15 DEF BootCycle, CycleTyped
  <2>2. /\ orch' = FreshState /\ cycleOf' = Cycle(1)
        /\ UNCHANGED <<improveMode, starts, baseline, archived, finished, executed, lost, lastSeen>>
    BY <1>15 DEF BootCycle
  <2>3. CycleTyped'
    <3>1. cycleOf' \in [stage : CycleStages, cycle : Nat, health : (SUBSET Services) \cup {None},
                    reports : [DOMAIN Suite -> CohortReports \cup {None}] \cup {None},
                    actions : Seq(Proposals), applied : SUBSET Whats]
      <4>1. 1 \in Nat
        OBVIOUS
      <4> QED
        BY <2>2, <4>1, DownTyped
    <3>2. orch' \in [cycle : Nat, converged : BOOLEAN, scores : Seq(Nat), applied : SUBSET Whats]
      BY <2>2 DEF FreshState
    <3> QED
      BY <1>1, <2>1, <2>2, <3>1, <3>2 DEF CycleTyped
  <2>4. cycleOf'.actions = <<>> /\ cycleOf'.applied = {} /\ cycleOf'.stage = "probe"
    BY <2>2, DownTyped
  <2>5. ActionsLeft' /\ DoneBy'
    BY <2>4 DEF ActionsLeft, DoneBy
  <2>6. LostOnly'
    BY <2>1, <2>2 DEF LostOnly
  <2>7. BestSoFar' /\ Saving'
    BY <1>1, <2>2, <2>4 DEF BestSoFar, BaselineIsBest, Baselines, Saving
  <2> QED
    BY <2>3, <2>5, <2>6, <2>7 DEF CycleInv
<1>16. CASE ChildTimeout
  <2>1. improveMode.boot
    BY <1>1, <1>16 DEF ChildTimeout, CycleTyped
  <2> QED
    BY <1>3, <1>16, <2>1, CycleDropped DEF ChildTimeout
<1>17. CASE UNCHANGED improveVars
  <2>1. UNCHANGED <<improveMode, orch, cycleOf, baseline, archived, boot, finished, executed, lost>>
    BY <1>17 DEF improveVars
  <2> QED
    BY <1>1, <2>1 DEF CycleInv, CycleTyped, ActionsLeft, DoneBy, LostOnly, BestSoFar, BaselineIsBest, Baselines, Times, Saving, Better, Score
<1> QED
  BY <1>5, <1>6, <1>7, <1>8, <1>9, <1>10, <1>11, <1>12, <1>13, <1>14, <1>15, <1>16, <1>17 DEF ImproveNext

\* A cycle that fails or dies at any point, and a loop that is started again
\* over the state file, leave the records true: what a recorded cycle applied is
\* not applied again, a thing is done at most once more than cycles were lost, and
\* the best of the runs compared with the baseline is never lost, in whatever write
\* of the update the loop dies (noerelay_self_improve.py _apply_actions,
\* continuous_benchmark.py _update_baseline).
THEOREM CyclesHold == ImproveSpec => []CyclesSound
<1>1. CycleInv => CyclesSound
  <2> SUFFICES ASSUME CycleInv PROVE CyclesSound
    OBVIOUS
  <2>1. CycleTyped /\ LostOnly /\ BestSoFar
    BY DEF CycleInv
  <2>2. AppliedOnce
    <3> SUFFICES ASSUME ~improveMode.boot, NEW i \in DOMAIN executed
                 PROVE  Times(executed[i]) <= 1 + lost
      BY DEF AppliedOnce
    <3>1. executed[i] \in Whats /\ lost \in Nat
      BY <2>1 DEF CycleTyped
    <3>2. Times(executed[i]) \in Nat
      <4>1. executed \in Seq(Whats)
        BY <2>1 DEF CycleTyped
      <4> QED
        BY <4>1, OftenFinite, TimesOften
    <3>3. Times(executed[i]) <= lost + (IF executed[i] \in orch.applied \cup cycleOf.applied THEN 1 ELSE 0)
      BY <2>1, <3>1 DEF LostOnly
    <3> QED
      BY <3>1, <3>2, <3>3
  <2> QED
    BY <2>1, <2>2 DEF CyclesSound, BestSoFar
<1> QED
  BY <1>1, CycleInvStarts, ImproveStepKeeps, PTL DEF ImproveSpec

-----------------------------------------------------------------------------
(* ---- node provisioning.  What a host is found to have, and the model    *)
(* that fits it.                                                           *)
ModelRow == [key : STRING, score : Nat, minVram : Nat \ {0}, minRam : Nat, cpuFriendly : BOOLEAN]
GpuRow == [vendor : {"nvidia", "apple"}, vram : Nat, bandwidth : Nat, display : BOOLEAN]

\* What a system is found to have.
LEMMA Detected ==
    ASSUME NEW host \in Hosts
    PROVE  /\ DetectSystem(host).gpus \in Seq(GpuRow)
           /\ DetectSystem(host).ram = host.ram /\ host.ram \in Nat
           /\ DetectSystem(host).backend \in {"cuda", "metal", "cpu"}
<1>1. /\ host.ram \in Nat
      /\ host.nvidia \in Seq([vendor : {"nvidia"}, vram : Nat, bandwidth : Nat, display : BOOLEAN])
  BY NodeAssumption
<1>2. DetectNvidia(host) \in Seq(GpuRow)
  <2> DEFINE G == [vendor : {"nvidia"}, vram : Nat, bandwidth : Nat, display : BOOLEAN]
             s == host.nvidia
  <2>1. \A g \in G : g \in GpuRow
    BY DEF GpuRow
  <2>2. s \in Seq(G)
    BY <1>1
  <2> HIDE DEF G, s
  <2>3. Len(s) \in Nat /\ s \in [1 .. Len(s) -> G]
    BY <2>2, LenProperties
  <2>4. s \in [1 .. Len(s) -> GpuRow]
    BY <2>1, <2>3
  <2>5. s \in Seq(GpuRow)
    BY <2>3, <2>4, SeqDef
  <2> QED
    BY <2>5 DEF DetectNvidia, s
<1>3. DetectApple(host) \in Seq(GpuRow)
  <2>1. [vendor |-> "apple", vram |-> host.ram, bandwidth |-> 0, display |-> TRUE] \in GpuRow
    BY <1>1 DEF GpuRow
  <2>2. <<>> \in Seq(GpuRow)
    BY EmptySeq
  <2> HIDE DEF GpuRow
  <2> QED
    BY <2>1, <2>2 DEF DetectApple
<1>4. DetectSystem(host).gpus = IF host.os = "darwin" THEN DetectApple(host) ELSE DetectNvidia(host)
  BY DEF DetectSystem
<1> QED
  BY <1>1, <1>2, <1>3, <1>4 DEF DetectSystem, SelectBackend

LEMMA VramType ==
    ASSUME NEW sys, sys.gpus \in Seq(GpuRow)
    PROVE  TotalVram(sys) \in Nat
<1> DEFINE f == [k \in DOMAIN sys.gpus |-> sys.gpus[k].vram]
<1>1. DOMAIN sys.gpus = 1 .. Len(sys.gpus) /\ Len(sys.gpus) \in Nat
  BY LenProperties
<1>2. \A k \in DOMAIN sys.gpus : f[k] \in Nat
  <2>1. \A k \in 1 .. Len(sys.gpus) : sys.gpus[k] \in GpuRow
    BY ElementOfSeq
  <2> QED
    BY <1>1, <2>1 DEF GpuRow
<1>3. IsFiniteSet(DOMAIN sys.gpus)
  <2>1. 1 \in Int /\ Len(sys.gpus) \in Int
    BY <1>1
  <2>2. IsFiniteSet(1 .. Len(sys.gpus))
    BY <2>1, FS_Interval, Zenon
  <2> QED
    BY <1>1, <2>2
<1>4. DOMAIN f = DOMAIN sys.gpus
  OBVIOUS
<1> HIDE DEF f
<1>5. SumFunctionOnSet(f, DOMAIN f) \in Nat
  BY <1>2, <1>3, <1>4, SumType
<1> QED
  BY <1>5, SumOfDomain DEF TotalVram, f

LEMMA NvidiaType ==
    ASSUME NEW sys, sys.gpus \in Seq(GpuRow)
    PROVE  NvidiaGpus(sys) \in Seq(GpuRow)
<1> DEFINE places == {k \in DOMAIN sys.gpus : sys.gpus[k].vendor = "nvidia"}
<1>1. DOMAIN sys.gpus = 1 .. Len(sys.gpus) /\ Len(sys.gpus) \in Nat
  BY LenProperties
<1>2. IsFiniteSet(DOMAIN sys.gpus)
  <2>1. 1 \in Int /\ Len(sys.gpus) \in Int
    BY <1>1
  <2>2. IsFiniteSet(1 .. Len(sys.gpus))
    BY <2>1, FS_Interval, Zenon
  <2> QED
    BY <1>1, <2>2
<1>3. places \in SUBSET (DOMAIN sys.gpus) /\ \A p \in places : sys.gpus[p] \in GpuRow
  BY <1>1, ElementOfSeq
<1> HIDE DEF places
<1>4. places \in SUBSET Int /\ IsFiniteSet(places)
  <2>1. IsFiniteSet(places)
    BY <1>2, <1>3, FS_Subset
  <2> QED
    BY <1>1, <1>3, <2>1
<1>5. Picked(sys.gpus, places) \in Seq(GpuRow)
  <2> DEFINE s == sys.gpus
  <2>1. \A p \in places : s[p] \in GpuRow
    BY <1>3
  <2> HIDE DEF s
  <2>2. Picked(s, places) \in Seq(GpuRow)
    BY <1>4, <2>1, PickedType
  <2> QED
    BY <2>2 DEF s
<1> QED
  BY <1>5 DEF NvidiaGpus, places

\* The catalog is finite, so one of the models that fit is the best.
LEMMA CatalogRows ==
    /\ DOMAIN Models = 1 .. Len(Models) /\ Len(Models) \in Nat /\ IsFiniteSet(DOMAIN Models)
    /\ \A k \in DOMAIN Models : Models[k] \in ModelRow
<1>1. DOMAIN Models = 1 .. Len(Models) /\ Len(Models) \in Nat
  BY CatalogAssumption, LenProperties
<1>2. IsFiniteSet(DOMAIN Models)
  <2>1. 1 \in Int /\ Len(Models) \in Int
    BY <1>1
  <2>2. IsFiniteSet(1 .. Len(Models))
    BY <2>1, FS_Interval, Zenon
  <2> QED
    BY <1>1, <2>2
<1>3. Models \in Seq(ModelRow)
  BY CatalogAssumption DEF ModelRow
<1>4. \A k \in 1 .. Len(Models) : Models[k] \in ModelRow
  BY <1>3, ElementOfSeq
<1> QED
  BY <1>1, <1>2, <1>4

\* A finite set of places has one with the greatest of some number.
LEMMA GreatestOf ==
    ASSUME NEW K, IsFiniteSet(K), K # {}, NEW f, \A k \in K : f[k] \in Int
    PROVE  \E k \in K : \A j \in K : f[j] <= f[k]
<1> DEFINE S == {f[k] : k \in K}
<1>1. IsFiniteSet(S)
  BY ImageFinite
<1>2. S \in SUBSET Int /\ S # {}
  OBVIOUS
<1> HIDE DEF S
<1>3. PICK x \in S : \A y \in S : y <= x
  BY <1>1, <1>2, HasGreatest
<1> QED
  BY <1>3 DEF S

LEMMA BestExists ==
    ASSUME NEW S \in SUBSET Catalog, S # {}
    PROVE  /\ BestOf(S) \in S
           /\ \A m \in S : m.score <= BestOf(S).score
<1> DEFINE K == {k \in DOMAIN Models : Models[k] \in S}
           score == [k \in DOMAIN Models |-> Models[k].score]
           size == [k \in DOMAIN Models |-> Models[k].minVram]
           back == [k \in DOMAIN Models |-> -k]
<1>1. \A k \in DOMAIN Models : /\ k \in Int /\ Models[k].score \in Int /\ Models[k].minVram \in Int
                               /\ score[k] = Models[k].score /\ size[k] = Models[k].minVram /\ back[k] = -k
  BY CatalogRows DEF ModelRow
<1>2. K \in SUBSET (DOMAIN Models) /\ K # {} /\ \A k \in DOMAIN Models : k \in K <=> Models[k] \in S
  BY DEF Catalog
<1>3. \A m \in S : \E k \in K : m = Models[k]
  BY DEF Catalog
<1>4. \A L \in SUBSET K : IsFiniteSet(L) /\ \A k \in L : score[k] \in Int /\ size[k] \in Int /\ back[k] \in Int
  <2>1. ASSUME NEW L \in SUBSET K
        PROVE  IsFiniteSet(L)
    BY <1>2, CatalogRows, FS_Subset
  <2>2. \A k \in K : score[k] \in Int /\ size[k] \in Int /\ back[k] \in Int
    BY <1>1, <1>2
  <2> QED
    BY <2>1, <2>2
<1> HIDE DEF K, score, size, back
<1>5. PICK a \in K : \A j \in K : score[j] <= score[a]
  BY <1>2, <1>4, GreatestOf
<1> DEFINE L == {k \in K : score[k] = score[a]}
<1>6. PICK b \in L : \A j \in L : size[j] <= size[b]
  BY <1>4, <1>5, GreatestOf
<1> DEFINE N == {k \in L : size[k] = size[b]}
<1>7. PICK c \in N : \A j \in N : back[j] <= back[c]
  BY <1>4, <1>6, GreatestOf
<1>8. c \in K /\ score[c] = score[a] /\ size[c] = size[b]
  BY <1>7
<1>9. \A j \in K : ~Outranks(Models[j], Models[c])
  <2> SUFFICES ASSUME NEW j \in K PROVE ~Outranks(Models[j], Models[c])
    OBVIOUS
  <2>1. score[j] <= score[c] /\ (score[j] = score[c] => size[j] <= size[c])
    BY <1>5, <1>6, <1>8
  <2>2. /\ score[j] = Models[j].score /\ score[c] = Models[c].score /\ size[j] = Models[j].minVram /\ size[c] = Models[c].minVram
        /\ score[j] \in Int /\ score[c] \in Int /\ size[j] \in Int /\ size[c] \in Int
    BY <1>1, <1>2, <1>8
  <2> QED
    BY <2>1, <2>2 DEF Outranks
<1>10. ASSUME NEW j \in 1 .. c - 1, Models[j] \in S
       PROVE  Outranks(Models[c], Models[j])
  <2>1. c \in 1 .. Len(Models) /\ j \in DOMAIN Models /\ j \in K /\ j < c
    <3>1. c \in DOMAIN Models
      BY <1>2, <1>8
    <3>2. j \in DOMAIN Models /\ j < c
      BY <3>1, CatalogRows
    <3> QED
      BY <1>2, <1>10, <3>1, <3>2, CatalogRows
  <2>2. j \notin N
    BY <1>1, <1>2, <1>7, <2>1
  <2>3. ~(score[j] = score[c] /\ size[j] = size[c])
    BY <1>8, <2>1, <2>2
  <2>4. score[j] <= score[c] /\ (score[j] = score[c] => size[j] <= size[c])
    BY <1>5, <1>6, <1>8, <2>1
  <2>5. /\ score[j] = Models[j].score /\ score[c] = Models[c].score /\ size[j] = Models[j].minVram /\ size[c] = Models[c].minVram
        /\ score[j] \in Int /\ score[c] \in Int /\ size[j] \in Int /\ size[c] \in Int
    BY <1>1, <1>2, <1>8, <2>1
  <2> QED
    BY <2>3, <2>4, <2>5 DEF Outranks
<1> DEFINE Best(k) == /\ Models[k] \in S
                      /\ \A j \in DOMAIN Models : Models[j] \in S => ~Outranks(Models[j], Models[k])
                      /\ \A j \in 1..k - 1 : Models[j] \in S => Outranks(Models[k], Models[j])
<1>11. c \in DOMAIN Models /\ Best(c)
  BY <1>2, <1>8, <1>9, <1>10
<1> DEFINE best == CHOOSE k \in DOMAIN Models : Best(k)
<1>12. best \in DOMAIN Models /\ Best(best)
  BY <1>11
<1>13. BestOf(S) = Models[best]
  BY DEF BestOf
<1> HIDE DEF best
<1>14. \A m \in S : m.score <= Models[best].score
  <2> SUFFICES ASSUME NEW m \in S PROVE m.score <= Models[best].score
    OBVIOUS
  <2>1. PICK k \in K : m = Models[k]
    BY <1>3
  <2>2. ~Outranks(Models[k], Models[best]) /\ k \in DOMAIN Models
    BY <1>2, <1>12, <2>1
  <2>3. Models[k].score \in Int /\ Models[best].score \in Int
    BY <1>1, <1>12, <2>2
  <2> QED
    BY <2>1, <2>2, <2>3 DEF Outranks
<1> QED
  BY <1>12, <1>13, <1>14

\* What a division by ten lets through.
LEMMA InTenths ==
    ASSUME NEW x \in Nat, NEW m \in Nat
    PROVE  m <= x \div 10 <=> 10 * m <= x
OBVIOUS

LEMMA LeastRam ==
    ASSUME NEW S \in SUBSET Catalog, S # {}
    PROVE  (CHOOSE m \in S : \A n \in S : m.minRam <= n.minRam) \in S
<1> DEFINE K == {k \in DOMAIN Models : Models[k] \in S}
           back == [k \in DOMAIN Models |-> -Models[k].minRam]
<1>1. \A k \in DOMAIN Models : Models[k].minRam \in Int /\ back[k] = -Models[k].minRam
  BY CatalogRows DEF ModelRow
<1>2. K \in SUBSET (DOMAIN Models) /\ K # {} /\ IsFiniteSet(K) /\ \A m \in S : \E k \in K : m = Models[k]
  BY CatalogRows, FS_Subset DEF Catalog
<1>3. \A k \in K : back[k] \in Int /\ Models[k] \in S
  BY <1>1, <1>2
<1> HIDE DEF K, back
<1>4. PICK c \in K : \A j \in K : back[j] <= back[c]
  BY <1>2, <1>3, GreatestOf
<1>5. \A n \in S : Models[c].minRam <= n.minRam
  <2> SUFFICES ASSUME NEW n \in S PROVE Models[c].minRam <= n.minRam
    OBVIOUS
  <2>1. PICK k \in K : n = Models[k]
    BY <1>2
  <2>2. back[k] <= back[c] /\ back[k] = -Models[k].minRam /\ back[c] = -Models[c].minRam
    BY <1>1, <1>2, <1>4
  <2>3. Models[k].minRam \in Int /\ Models[c].minRam \in Int
    BY <1>1, <1>2
  <2> QED
    BY <2>1, <2>2, <2>3
<1> QED
  BY <1>3, <1>5

\* The places a model may run in are those the headroom factors leave.
LEMMA PlacesThatFit ==
    ASSUME NEW sys, TotalVram(sys) \in Nat, sys.ram \in Nat, sys.backend \in {"cuda", "metal", "cpu"}, NEW m \in Catalog
    PROVE  /\ FitsGpu(m, sys) <=> (sys.backend \in {"cuda", "metal"} /\ m.minVram <= UsableVram(sys))
           /\ FitsRam(m, sys) <=> m.minRam <= UsableRam(sys)
<1> DEFINE t == TotalVram(sys)
           v == m.minVram
           r == m.minRam
           ram == sys.ram
           b == sys.backend
<1>1. t \in Nat /\ v \in Nat /\ v > 0 /\ r \in Nat /\ ram \in Nat /\ b \in {"cuda", "metal", "cpu"}
  BY CatalogRows DEF ModelRow, Catalog
<1>2. FitsGpu(m, sys) <=> 10 * v <= t * (CASE b = "cuda" -> 9 [] b = "metal" -> 7 [] OTHER -> -1)
  BY DEF FitsGpu
<1>3. UsableVram(sys) = (t * (CASE b = "cuda" -> 9 [] b = "metal" -> 7 [] OTHER -> 0)) \div 10
  BY DEF UsableVram
<1>4. FitsRam(m, sys) <=> 10 * r <= 6 * ram
  BY DEF FitsRam
<1>5. UsableRam(sys) = (ram * 6) \div 10
  BY DEF UsableRam
<1> HIDE DEF t, v, r, ram, b
<1>6. FitsRam(m, sys) <=> r <= UsableRam(sys)
  <2>1. ram * 6 \in Nat /\ ram * 6 = 6 * ram
    BY <1>1
  <2>2. r <= (ram * 6) \div 10 <=> 10 * r <= ram * 6
    BY <1>1, <2>1, InTenths
  <2> QED
    BY <1>4, <1>5, <2>1, <2>2
<1>7. CASE b = "cuda"
  <2>1. t * 9 \in Nat
    BY <1>1
  <2>2. v <= (t * 9) \div 10 <=> 10 * v <= t * 9
    BY <1>1, <2>1, InTenths
  <2>3. UsableVram(sys) = (t * 9) \div 10 /\ (FitsGpu(m, sys) <=> 10 * v <= t * 9)
    BY <1>2, <1>3, <1>7
  <2> QED
    BY <1>6, <1>7, <2>2, <2>3 DEF v, r, b
<1>8. CASE b = "metal"
  <2>1. t * 7 \in Nat
    BY <1>1
  <2>2. v <= (t * 7) \div 10 <=> 10 * v <= t * 7
    BY <1>1, <2>1, InTenths
  <2>3. UsableVram(sys) = (t * 7) \div 10 /\ (FitsGpu(m, sys) <=> 10 * v <= t * 7)
    BY <1>2, <1>3, <1>8
  <2> QED
    BY <1>6, <1>8, <2>2, <2>3 DEF v, r, b
<1>9. CASE b = "cpu"
  <2>1. ~FitsGpu(m, sys)
    <3>1. FitsGpu(m, sys) <=> 10 * v <= t * (-1)
      BY <1>2, <1>9
    <3> QED
      BY <1>1, <3>1
  <2> QED
    BY <1>6, <1>9, <2>1 DEF r, b
<1> QED
  BY <1>1, <1>7, <1>8, <1>9

Place(sys) == IF \E m \in Catalog : FitsGpu(m, sys) THEN {m \in Catalog : FitsGpu(m, sys)}
              ELSE {m \in Catalog : FitsRam(m, sys)}

LEMMA PickFits ==
    ASSUME NEW sys, TotalVram(sys) \in Nat, sys.ram \in Nat, sys.backend \in {"cuda", "metal", "cpu"}
    PROVE  /\ PickModel(sys) \in Catalog
           /\ Place(sys) # {} => /\ PickModel(sys) \in Place(sys)
                                 /\ \A m \in Place(sys) : sys.backend # "cpu" => m.score <= PickModel(sys).score
<1> DEFINE onGpu == {m \in Catalog : sys.backend \in {"cuda", "metal"} /\ m.minVram <= UsableVram(sys)}
           inRam == {m \in Catalog : m.minRam <= UsableRam(sys)}
           friendly(S) == {m \in S : m.cpuFriendly}
           last == IF friendly(Catalog) # {} THEN friendly(Catalog) ELSE Catalog
           light == IF sys.backend = "cpu" /\ friendly(inRam) # {} THEN friendly(inRam) ELSE inRam
           small == CHOOSE m \in last : \A n \in last : m.minRam <= n.minRam
<1>1. PickModel(sys) = IF onGpu # {} THEN BestOf(onGpu) ELSE IF inRam # {} THEN BestOf(light) ELSE small
  BY DEF PickModel
<1>2. onGpu \in SUBSET Catalog /\ inRam \in SUBSET Catalog /\ light \in SUBSET inRam /\ light \in SUBSET Catalog
  OBVIOUS
<1>3. inRam # {} => light # {}
  OBVIOUS
<1>4. sys.backend # "cpu" => light = inRam
  OBVIOUS
<1>5. Place(sys) = IF onGpu # {} THEN onGpu ELSE inRam
  <2>1. \A m \in Catalog : (m \in onGpu <=> FitsGpu(m, sys)) /\ (m \in inRam <=> FitsRam(m, sys))
    BY PlacesThatFit
  <2> HIDE DEF onGpu, inRam
  <2>2. {m \in Catalog : FitsGpu(m, sys)} = onGpu
    BY <1>2, <2>1
  <2>3. {m \in Catalog : FitsRam(m, sys)} = inRam
    BY <1>2, <2>1
  <2>4. (\E m \in Catalog : FitsGpu(m, sys)) <=> onGpu # {}
    BY <1>2, <2>1
  <2> QED
    BY <2>2, <2>3, <2>4 DEF Place
<1>6. last \in SUBSET Catalog /\ last # {}
  <2>1. Catalog # {}
    <3>1. Models # <<>> /\ Models \in Seq(ModelRow)
      BY CatalogAssumption DEF ModelRow
    <3>2. 1 \in DOMAIN Models
      BY <3>1, CatalogRows
    <3> QED
      BY <3>2 DEF Catalog
  <2> QED
    BY <2>1
<1> HIDE DEF onGpu, inRam, light, last
<1>7. small \in last
  BY <1>6, LeastRam
<1> HIDE DEF small
<1>8. CASE onGpu # {}
  <2>1. BestOf(onGpu) \in onGpu /\ \A m \in onGpu : m.score <= BestOf(onGpu).score
    BY <1>2, <1>8, BestExists
  <2> QED
    BY <1>1, <1>2, <1>5, <1>8, <2>1
<1>9. CASE onGpu = {} /\ inRam # {}
  <2>1. BestOf(light) \in light /\ \A m \in light : m.score <= BestOf(light).score
    BY <1>2, <1>3, <1>9, BestExists
  <2> QED
    BY <1>1, <1>2, <1>4, <1>5, <1>9, <2>1
<1>10. CASE onGpu = {} /\ inRam = {}
  BY <1>1, <1>5, <1>6, <1>7, <1>10
<1> QED
  BY <1>8, <1>9, <1>10

\* A plan of a host: what `noerelay provision` decides before it writes.
PlanFor(host, o) == MakePlan(DetectSystem(host), o)

\* A GPU split is given for two GPUs or more, one weight for each.
LEMMA SplitOf ==
    ASSUME NEW host \in Hosts, NEW o \in Options
    PROVE  LET s == PlanFor(host, o).server IN
           \/ s.split = "none" /\ s.tensor = <<>>
           \/ s.split = "layer" /\ Len(s.tensor) > 1 /\ s.tensor # <<>>
<1> DEFINE sys == DetectSystem(host)
           s == PlanFor(host, o).server
           n == Len(NvidiaGpus(sys))
           split == sys.backend = "cuda" /\ n >= 2
<1>1. s.split = (IF split THEN "layer" ELSE "none") /\ s.tensor = (IF split THEN RecommendSplit(sys) ELSE <<>>)
  <2> DEFINE a == (IF o.model = NoModel THEN PickModel(sys) ELSE o.model).key
             l == IF sys.backend = "cpu" THEN 0 ELSE 999
             x == IF split THEN "layer" ELSE "none"
             y == IF split THEN RecommendSplit(sys) ELSE <<>>
             c == IF o.ctx = Unset THEN PickCtx(sys) ELSE o.ctx
  <2>1. s = [DefaultServer EXCEPT !.model = a, !.port = o.port, !.layers = l, !.split = x, !.tensor = y, !.ctx = c]
    BY DEF PlanFor, MakePlan
  <2> HIDE DEF a, l, x, y, c, s
  <2> QED
    BY <2>1 DEF DefaultServer, x, y
<1>2. NvidiaGpus(sys) \in Seq(GpuRow)
  BY Detected, NvidiaType
<1>3. DOMAIN NvidiaGpus(sys) = 1 .. n /\ n \in Nat
  BY <1>2, LenProperties
<1>4. CASE split
  <2> DEFINE t == RecommendSplit(sys)
  <2>1. DOMAIN t = 1 .. n /\ t = [k \in 1 .. n |-> t[k]]
    <3>1. ~(n < 2)
      BY <1>3, <1>4
    <3> QED
      BY <1>3, <3>1 DEF RecommendSplit
  <2> HIDE DEF t, n
  <2>2. Len(t) = n
    BY <1>3, <2>1
  <2>3. n > 1
    BY <1>3, <1>4 DEF n
  <2>4. 1 \in DOMAIN t /\ DOMAIN <<>> = {}
    BY <1>3, <2>1, <2>3
  <2> QED
    BY <1>1, <1>4, <2>2, <2>3, <2>4 DEF t
<1>5. CASE ~split
  BY <1>1, <1>5
<1> HIDE DEF s, split
<1> QED
  BY <1>4, <1>5 DEF s

Fields == {"model", "host", "port", "layers", "split", "tensor", "ctx", "parallel", "batch", "ubatch", "flash",
           "cacheK", "cacheV", "mtp", "preserve", "metrics"}

\* What llama-server is started with follows from the fields alone, and a bare
\* none that is read as nothing changes none of it.
LEMMA SameArgs ==
    ASSUME NEW plan, DOMAIN plan.server = Fields, NEW given, DOMAIN given = Fields,
           \A f \in Fields \ {"split"} : given[f] = plan.server[f],
           given["split"] = plan.server["split"] \/ (plan.server["split"] = "none" /\ given["split"] = Unset),
           \/ plan.server["split"] = "none" /\ plan.server["tensor"] = <<>>
           \/ plan.server["split"] = "layer" /\ Len(plan.server["tensor"]) > 1 /\ plan.server["tensor"] # <<>>
    PROVE  ServerArgs(Validate(given)) = PlanArgs(plan)
<1> DEFINE s == plan.server
           w == Validate(given)
           base == {"model", "host", "port", "ctx", "parallel", "layers", "batch", "ubatch", "flash", "cacheK", "cacheV"}
           told == {f \in {"mtp", "preserve", "metrics"} : s[f]}
           gpus == IF s["split"] = "layer" THEN {"split", "tensor"} ELSE {}
<1>1. DOMAIN DefaultServer = Fields
  BY DEF DefaultServer, Fields
<1>2. w = [key \in Fields |-> given[key]]
  BY <1>1 DEF Validate
<1>3. \A f \in Fields : w[f] = given[f]
  BY <1>2
<1>4. Unset # "none" /\ Unset # "layer" /\ Unset # "row"
  BY CatalogAssumption
<1> HIDE DEF s, w
<1>5. Optional(w) = told \cup gpus
  <2>1. w["mtp"] = s["mtp"] /\ w["preserve"] = s["preserve"] /\ w["metrics"] = s["metrics"] /\ w["tensor"] = s["tensor"]
    BY <1>3 DEF Fields, s
  <2>2. {f \in {"mtp", "preserve", "metrics"} : w[f]} = told
    BY <2>1
  <2>3. (w["split"] # Unset /\ w["split"] \in {"layer", "row"}) <=> s["split"] = "layer"
    BY <1>3, <1>4 DEF Fields, s
  <2>4. s["split"] = "layer" => {f \in {"tensor"} : w["tensor"] # <<>>} = {"tensor"}
    BY <2>1 DEF s
  <2> HIDE DEF told
  <2> QED
    BY <2>2, <2>3, <2>4 DEF Optional
<1>6. (IF s["split"] = "layer" /\ Len(s["tensor"]) > 1 THEN {"split", "tensor"} ELSE {}) = gpus
  BY DEF s
<1>7. Always \cup Optional(w) \cup {"layers"} = base \cup told \cup gpus
  BY <1>5 DEF Always
<1>8. \A f \in base \cup told \cup gpus : w[f] = s[f]
  <2>1. s["split"] = "layer" => w["split"] = s["split"]
    BY <1>3 DEF Fields, s
  <2>2. \A f \in base \cup told \cup {"tensor"} : f \in Fields \ {"split"}
    BY DEF Fields
  <2>3. \A f \in Fields \ {"split"} : w[f] = s[f]
    BY <1>3 DEF s
  <2> QED
    BY <2>1, <2>2, <2>3
<1>9. PlanArgs(plan) = [f \in base \cup told \cup gpus |-> s[f]]
  BY <1>6 DEF PlanArgs, s
<1> HIDE DEF base, told, gpus
<1>10. ServerArgs(w) = [f \in base \cup told \cup gpus |-> w[f]]
  BY <1>7 DEF ServerArgs
<1> QED
  BY <1>8, <1>9, <1>10 DEF w

LEMMA PlanShape ==
    ASSUME NEW host \in Hosts, NEW o \in Options
    PROVE  DOMAIN PlanFor(host, o).server = Fields
BY DEF PlanFor, MakePlan, DefaultServer, Fields

\* llama.yaml, read by either parser, gives the arguments of the plan.
LEMMA ReadBack ==
    ASSUME NEW host \in Hosts, NEW o \in Options, NEW parser \in Parsers
    PROVE  LET plan == PlanFor(host, o) IN
           /\ ServerArgs(Validate(Parse(parser, Render(plan.server)))) = PlanArgs(plan)
           /\ ServerArgs(Validate(plan.server)) = PlanArgs(plan)
<1> DEFINE plan == PlanFor(host, o)
           s == plan.server
           given == Parse(parser, Render(s))
<1>1. DOMAIN s = Fields
  BY PlanShape
<1>2. \/ s["split"] = "none" /\ s["tensor"] = <<>>
      \/ s["split"] = "layer" /\ Len(s["tensor"]) > 1 /\ s["tensor"] # <<>>
  BY SplitOf
<1> HIDE DEF plan
<1>3. DOMAIN given = Fields /\ \A f \in Fields : given[f] = ParseScalar(parser, f, [quoted |-> f \in Quoted, value |-> s[f]])
  <2> DEFINE text == Render(s)
  <2>1. DOMAIN text = Fields /\ \A f \in Fields : text[f] = [quoted |-> f \in Quoted, value |-> s[f]]
    BY <1>1 DEF Render
  <2> HIDE DEF text
  <2> QED
    BY <2>1 DEF Parse, text
<1>4. \A f \in Fields \ {"split"} : given[f] = s[f]
  BY <1>3 DEF ParseScalar
<1>5. given["split"] = s["split"] \/ (s["split"] = "none" /\ given["split"] = Unset)
  <2>1. "split" \in Fields
    BY DEF Fields
  <2> HIDE DEF given
  <2> QED
    BY <1>3, <2>1 DEF ParseScalar
<1> HIDE DEF given
<1>6. ServerArgs(Validate(given)) = PlanArgs(plan)
  BY <1>1, <1>2, <1>3, <1>4, <1>5, SameArgs
<1>7. ServerArgs(Validate(s)) = PlanArgs(plan)
  BY <1>1, <1>2, SameArgs
<1> QED
  BY <1>6, <1>7 DEF given, plan

\* A file of blocks in their order from the first.
Prefix(kept) == kept \in Seq(Nat) /\ \A k \in DOMAIN kept : kept[k] = k

\* The steps of a provisioning that are behind it have left their files.
UnderWay ==
    install # Unset =>
        /\ \E o \in Options : Plan = PlanFor(hostInfo, o)
        /\ install = [plan |-> Plan, step |-> install.step] /\ install.step \in 1 .. 8
        /\ install.step > 4 => Has("config") /\ disk["config"] = Record(Plan)
        /\ install.step > 5 => Has("yaml") /\ disk["yaml"] = Render(Plan.server)
Complete ==
    installed # Unset =>
        /\ install = Unset
        /\ \E o \in Options : installed = PlanFor(hostInfo, o)
        /\ Has("config") /\ disk["config"] = Record(installed)
        /\ Has("yaml") /\ disk["yaml"] = Render(installed.server)
        /\ Has("home") /\ disk["home"].port = installed.server.port
\* A download goes on where its file ends; the model's file is another one.
Fetching ==
    fetch # Unset =>
        /\ fetch = [into |-> fetch.into, at |-> fetch.at, mode |-> fetch.mode]
        /\ \/ fetch.mode = "install" /\ install # Unset /\ install.step = 3 /\ fetch.into = ModelFile(Plan)
           \/ fetch.mode \in {"range", "whole"} /\ install = Unset /\ fetch.into = PartFile
           \/ /\ fetch.mode = "body" /\ install = Unset /\ fetch.into = PartFile
              /\ Has(PartFile) /\ fetch.at = Len(disk[PartFile])
Downloads == \A file \in {PartFile, "final"} : Has(file) => Prefix(disk[file])
NodeInv ==
    /\ hostInfo \in Hosts /\ UnderWay /\ Complete /\ Fetching /\ Downloads
    /\ project \in [Scaffold -> {"none", "own", "scaffold"}]

\* A file is written and the others stay.
LEMMA Written ==
    ASSUME NEW file, NEW content
    PROVE  /\ DOMAIN Write(file, content) = DOMAIN disk \cup {file}
           /\ Write(file, content)[file] = content
           /\ \A f \in DOMAIN disk : f # file => Write(file, content)[f] = disk[f]
BY DEF Write, Put

LEMMA Deleted ==
    ASSUME NEW file
    PROVE  /\ DOMAIN Delete(file) = DOMAIN disk \ {file}
           /\ \A f \in DOMAIN disk : f # file => Delete(file)[f] = disk[f]
BY DEF Delete

\* The models of a plan are of the catalog, so their files are their own.
LEMMA PlanModel ==
    ASSUME NEW host \in Hosts, NEW o \in Options
    PROVE  /\ PlanFor(host, o).chosen \in Catalog
           /\ ModelFile(PlanFor(host, o)) \notin FixedFiles
           /\ PlanFor(host, o).system = DetectSystem(host)
<1> DEFINE sys == DetectSystem(host)
<1>1. PlanFor(host, o).chosen = (IF o.model = NoModel THEN PickModel(sys) ELSE o.model) /\ PlanFor(host, o).system = sys
  BY DEF PlanFor, MakePlan
<1>2. PickModel(sys) \in Catalog
  <2>1. /\ sys.gpus \in Seq(GpuRow) /\ sys.ram \in Nat /\ sys.backend \in {"cuda", "metal", "cpu"}
    BY Detected
  <2> HIDE DEF sys
  <2>2. TotalVram(sys) \in Nat
    BY <2>1, VramType
  <2> QED
    BY <2>1, <2>2, PickFits
<1>3. PlanFor(host, o).chosen \in Catalog
  BY <1>1, <1>2, NodeAssumption
<1> QED
  BY <1>1, <1>3, NodeAssumption DEF ModelFile

\* What a step leaves that writes one file no claim is made of.
LEMMA Aside ==
    ASSUME NodeInv, NEW file, file \notin {"config", "yaml", "home", "part", "final"},
           \/ \E content : disk' = Write(file, content)
           \/ disk' = Delete(file)
           \/ disk' = disk
    PROVE  /\ \A f \in {"config", "yaml", "home", "part", "final"} : (Has(f)' <=> Has(f)) /\ (Has(f) => disk'[f] = disk[f])
           /\ Downloads'
<1>1. \A f \in {"config", "yaml", "home", "part", "final"} : (Has(f)' <=> Has(f)) /\ (Has(f) => disk'[f] = disk[f])
  <2>1. CASE \E content : disk' = Write(file, content)
    <3>1. PICK content : disk' = Write(file, content)
      BY <2>1
    <3>2. DOMAIN disk' = DOMAIN disk \cup {file} /\ \A f \in DOMAIN disk : f # file => disk'[f] = disk[f]
      BY <3>1 DEF Write, Put
    <3> QED
      BY <3>2 DEF Has
  <2>2. CASE disk' = Delete(file)
    <3>1. DOMAIN disk' = DOMAIN disk \ {file} /\ \A f \in DOMAIN disk : f # file => disk'[f] = disk[f]
      BY <2>2, Deleted
    <3> QED
      BY <3>1 DEF Has
  <2>3. CASE disk' = disk
    BY <2>3 DEF Has
  <2> QED
    BY <2>1, <2>2, <2>3
<1>2. Downloads'
  BY <1>1 DEF NodeInv, Downloads, PartFile
<1> QED
  BY <1>1, <1>2

LEMMA StepNames ==
    ASSUME NEW k \in 1 .. 8
    PROVE  /\ Steps[k] = "build" => k = 1
           /\ Steps[k] = "model" => k = 3
           /\ Steps[k] = "config" => k = 4
           /\ Steps[k] = "yaml" => k = 5
           /\ Steps[k] = "home" => k = 8
           /\ Steps[k] # "home" => k # 8
           /\ Steps[k] \in {"venv", "scripts", "readme"} => k \in {2, 6, 7}
BY DEF Steps

\* The step that is taken is one of the eight, and no complete installation is claimed.
LEMMA InStep ==
    ASSUME NodeInv, NEW name, At(name)
    PROVE  /\ install # Unset /\ installed = Unset /\ fetch = Unset
           /\ install.step \in 1 .. 8 /\ Steps[install.step] = name
           /\ \E o \in Options : Plan = PlanFor(hostInfo, o)
BY DEF NodeInv, UnderWay, Complete, At

LEMMA Advanced ==
    ASSUME NodeInv, install # Unset, Advance
    PROVE  install' = [plan |-> Plan, step |-> install.step + 1] /\ install'.plan = Plan /\ install'.step = install.step + 1
<1>1. install = [plan |-> Plan, step |-> install.step]
  BY DEF NodeInv, UnderWay
<1> QED
  BY <1>1 DEF Advance

LEMMA UnderWayStep ==
    ASSUME NodeInv, install # Unset, Advance, hostInfo' = hostInfo, install.step # 8,
           install.step = 4 => Has("config")' /\ disk'["config"] = Record(Plan),
           install.step = 5 => Has("yaml")' /\ disk'["yaml"] = Render(Plan.server),
           install.step > 4 => Has("config")' /\ disk'["config"] = disk["config"],
           install.step > 5 => Has("yaml")' /\ disk'["yaml"] = disk["yaml"]
    PROVE  UnderWay'
<1>1. install' = [plan |-> Plan, step |-> install.step + 1] /\ install'.plan = Plan /\ install'.step = install.step + 1
  BY Advanced
<1>2. /\ \E o \in Options : Plan = PlanFor(hostInfo, o)
      /\ install.step \in 1 .. 8
      /\ install.step > 4 => Has("config") /\ disk["config"] = Record(Plan)
      /\ install.step > 5 => Has("yaml") /\ disk["yaml"] = Render(Plan.server)
  BY DEF NodeInv, UnderWay
<1>3. install' = [plan |-> install'.plan, step |-> install'.step] /\ install'.step \in 1 .. 8
  BY <1>1, <1>2
<1>4. \E o \in Options : install'.plan = PlanFor(hostInfo', o)
  BY <1>1, <1>2
<1>5. install'.step > 4 => Has("config")' /\ disk'["config"] = Record(install'.plan)
  <2>1. install'.step > 4 => install.step = 4 \/ install.step > 4
    BY <1>1, <1>2
  <2> QED
    BY <1>1, <1>2, <2>1
<1>6. install'.step > 5 => Has("yaml")' /\ disk'["yaml"] = Render(install'.plan.server)
  <2>1. install'.step > 5 => install.step = 5 \/ install.step > 5
    BY <1>1, <1>2
  <2> QED
    BY <1>1, <1>2, <2>1
<1> QED
  BY <1>3, <1>4, <1>5, <1>6 DEF UnderWay, Plan

\* Unless a step claims something, the other claims hold as they did.
LEMMA Quiet ==
    ASSUME NodeInv, hostInfo' = hostInfo, project' = project,
           \A f \in {"config", "yaml", "home"} : (Has(f)' <=> Has(f)) /\ (Has(f) => disk'[f] = disk[f])
    PROVE  /\ install' = install => UnderWay'
           /\ install' = Unset => UnderWay'
           /\ installed' = installed /\ install' = install => Complete'
           /\ installed' = installed /\ installed = Unset => Complete'
           /\ installed' = installed /\ install' = Unset => Complete'
           /\ project' \in [Scaffold -> {"none", "own", "scaffold"}] /\ hostInfo' \in Hosts
<1>1. install' = install => UnderWay'
  BY DEF NodeInv, UnderWay, Plan
<1>2. install' = Unset => UnderWay'
  BY DEF UnderWay
<1>3. installed' = installed /\ (install' = install \/ install' = Unset) => Complete'
  BY DEF NodeInv, Complete
<1>4. installed' = installed /\ installed = Unset => Complete'
  BY DEF Complete
<1> QED
  BY <1>1, <1>2, <1>3, <1>4 DEF NodeInv

\* ---- provisioning
LEMMA BuildKeeps ==
    ASSUME NodeInv, EnsureBuild
    PROVE  NodeInv'
<1>1. install # Unset /\ installed = Unset /\ fetch = Unset /\ install.step = 1
  <2>1. At("build")
    BY DEF EnsureBuild
  <2> QED
    BY <2>1, InStep, StepNames
<1>2. hostInfo' = hostInfo /\ project' = project /\ installed' = installed /\ fetch' = fetch
  BY DEF EnsureBuild, projectVars
<1>3. (Advance \/ install' = Unset)
      /\ \E file \in {"exe", "dl"} : (\E content : disk' = Write(file, content)) \/ disk' = Delete(file) \/ disk' = disk
  BY DEF EnsureBuild, Quit
<1>4. PICK file \in {"exe", "dl"} : (\E content : disk' = Write(file, content)) \/ disk' = Delete(file) \/ disk' = disk
  BY <1>3
<1>5. /\ \A f \in {"config", "yaml", "home", "part", "final"} : (Has(f)' <=> Has(f)) /\ (Has(f) => disk'[f] = disk[f])
      /\ Downloads'
  <2>1. file \notin {"config", "yaml", "home", "part", "final"}
    BY <1>4
  <2> QED
    BY <1>4, <2>1, Aside
<1>6. UnderWay'
  <2>1. CASE Advance
    BY <1>1, <1>2, <2>1, UnderWayStep
  <2>2. CASE install' = Unset
    BY <2>2 DEF UnderWay
  <2> QED
    BY <1>3, <2>1, <2>2
<1>7. Complete' /\ Fetching'
  BY <1>1, <1>2 DEF Complete, Fetching
<1> QED
  BY <1>2, <1>5, <1>6, <1>7 DEF NodeInv

LEMMA PlainKeeps ==
    ASSUME NodeInv, NEW name \in {"venv", "scripts", "readme"}, EnsurePlain(name)
    PROVE  NodeInv'
<1>1. /\ install # Unset /\ installed = Unset /\ fetch = Unset /\ install.step \in {2, 6, 7}
      /\ install.step > 4 => Has("config")
      /\ install.step > 5 => Has("yaml")
  <2>1. At(name)
    BY DEF EnsurePlain
  <2>2. install.step \in 1 .. 8 /\ Steps[install.step] = name
    BY <2>1, InStep
  <2>3. install.step \in {2, 6, 7}
    BY <2>2, StepNames
  <2> QED
    BY <2>1, <2>3, InStep DEF NodeInv, UnderWay
<1>2. hostInfo' = hostInfo /\ project' = project /\ installed' = installed /\ fetch' = fetch /\ Advance /\ disk' = Write(name, "written")
  BY DEF EnsurePlain, projectVars
<1>3. /\ \A f \in {"config", "yaml", "home", "part", "final"} : (Has(f)' <=> Has(f)) /\ (Has(f) => disk'[f] = disk[f])
      /\ Downloads'
  <2>1. name \notin {"config", "yaml", "home", "part", "final"}
    OBVIOUS
  <2>2. \E content : disk' = Write(name, content)
    BY <1>2
  <2> QED
    BY <2>1, <2>2, Aside
<1>4. UnderWay'
  BY <1>1, <1>2, <1>3, UnderWayStep
<1>5. Complete' /\ Fetching'
  BY <1>1, <1>2 DEF Complete, Fetching
<1> QED
  BY <1>2, <1>3, <1>4, <1>5 DEF NodeInv

LEMMA ModelKeeps ==
    ASSUME NodeInv, EnsureModel
    PROVE  NodeInv'
<1>1. /\ install # Unset /\ installed = Unset /\ fetch = Unset /\ install.step = 3
      /\ \E o \in Options : Plan = PlanFor(hostInfo, o)
  <2>1. At("model")
    BY DEF EnsureModel
  <2> QED
    BY <2>1, InStep, StepNames
<1>2. hostInfo' = hostInfo /\ project' = project /\ installed' = installed
  BY DEF EnsureModel, projectVars
<1>3. hostInfo \in Hosts
  BY DEF NodeInv
<1> DEFINE file == ModelFile(Plan)
<1>4. file \notin FixedFiles
  BY <1>1, <1>3, PlanModel
<1>5. file \notin {"config", "yaml", "home", "part", "final"}
  BY <1>4 DEF FixedFiles
<1>6. CASE Has(file)
  <2>1. Advance /\ disk' = disk /\ fetch' = fetch
    BY <1>6 DEF EnsureModel
  <2>2. UnderWay'
    BY <1>1, <1>2, <2>1, UnderWayStep
  <2>3. Complete' /\ Fetching' /\ Downloads'
    BY <1>1, <1>2, <2>1 DEF Complete, Fetching, NodeInv, Downloads, Has
  <2> QED
    BY <1>2, <2>2, <2>3 DEF NodeInv
<1>7. CASE ~Has(file)
  <2>1. disk' = Write(file, <<>>) /\ fetch' = [into |-> file, at |-> 0, mode |-> "install"] /\ install' = install
    BY <1>7 DEF EnsureModel
  <2>2. (\E content : disk' = Write(file, content)) \/ disk' = Delete(file) \/ disk' = disk
    BY <2>1
  <2>3. Fetching'
    BY <1>1, <2>1 DEF Fetching, Plan
  <2> HIDE DEF file
  <2>4. /\ \A f \in {"config", "yaml", "home", "part", "final"} : (Has(f)' <=> Has(f)) /\ (Has(f) => disk'[f] = disk[f])
        /\ Downloads'
    BY <1>5, <2>2, Aside
  <2>5. UnderWay'
    BY <1>2, <2>1, <2>4, Quiet
  <2>6. Complete'
    BY <1>1, <1>2 DEF Complete
  <2> QED
    BY <1>2, <2>3, <2>4, <2>5, <2>6 DEF NodeInv
<1> QED
  BY <1>6, <1>7

LEMMA ConfigKeeps ==
    ASSUME NodeInv, WriteConfig
    PROVE  NodeInv'
<1>1. install # Unset /\ installed = Unset /\ fetch = Unset /\ install.step = 4
  <2>1. At("config")
    BY DEF WriteConfig
  <2> QED
    BY <2>1, InStep, StepNames
<1>2. hostInfo' = hostInfo /\ project' = project /\ installed' = installed /\ fetch' = fetch /\ Advance /\ disk' = Write("config", Record(Plan))
  BY DEF WriteConfig, projectVars
<1>3. /\ Has("config")' /\ disk'["config"] = Record(Plan)
      /\ \A f \in {"part", "final"} : (Has(f)' <=> Has(f)) /\ (Has(f) => disk'[f] = disk[f])
  <2> HIDE DEF Record
  <2> QED
    BY <1>2 DEF Write, Put, Has
<1>4. UnderWay'
  BY <1>1, <1>2, <1>3, UnderWayStep
<1>5. Complete' /\ Fetching' /\ Downloads'
  BY <1>1, <1>2, <1>3 DEF Complete, Fetching, NodeInv, Downloads, PartFile
<1> QED
  BY <1>2, <1>4, <1>5 DEF NodeInv

LEMMA YamlKeeps ==
    ASSUME NodeInv, WriteYaml
    PROVE  NodeInv'
<1>1. install # Unset /\ installed = Unset /\ fetch = Unset /\ install.step = 5 /\ Has("config")
  <2>1. At("yaml")
    BY DEF WriteYaml
  <2>2. install # Unset /\ installed = Unset /\ fetch = Unset /\ install.step = 5
    BY <2>1, InStep, StepNames
  <2> QED
    BY <2>2 DEF NodeInv, UnderWay
<1>2. hostInfo' = hostInfo /\ project' = project /\ installed' = installed /\ fetch' = fetch /\ Advance /\ disk' = Write("yaml", Render(Plan.server))
  BY DEF WriteYaml, YamlAfter, projectVars
<1>3. /\ Has("yaml")' /\ disk'["yaml"] = Render(Plan.server)
      /\ \A f \in {"config", "part", "final"} : (Has(f)' <=> Has(f)) /\ (Has(f) => disk'[f] = disk[f])
  <2> HIDE DEF Render
  <2> QED
    BY <1>2 DEF Write, Put, Has
<1>4. UnderWay'
  BY <1>1, <1>2, <1>3, UnderWayStep
<1>5. Complete' /\ Fetching' /\ Downloads'
  BY <1>1, <1>2, <1>3 DEF Complete, Fetching, NodeInv, Downloads, PartFile
<1> QED
  BY <1>2, <1>4, <1>5 DEF NodeInv

LEMMA HomeKeeps ==
    ASSUME NodeInv, ConfigureHome
    PROVE  NodeInv'
<1> DEFINE home == [key |-> IF Has("home") THEN disk["home"].key ELSE "noerelay-local",
                    port |-> Plan.server.port, model |-> Plan.server.model]
<1>1. /\ install # Unset /\ fetch = Unset /\ install.step = 8
      /\ \E o \in Options : Plan = PlanFor(hostInfo, o)
  <2>1. At("home")
    BY DEF ConfigureHome
  <2> QED
    BY <2>1, InStep, StepNames
<1>2. /\ Has("config") /\ disk["config"] = Record(Plan)
      /\ Has("yaml") /\ disk["yaml"] = Render(Plan.server)
  BY <1>1 DEF NodeInv, UnderWay
<1>3. hostInfo' = hostInfo /\ project' = project /\ installed' = Plan /\ fetch' = fetch /\ install' = Unset /\ disk' = Write("home", home)
  BY DEF ConfigureHome, Quit, projectVars
<1>4. home.port = Plan.server.port
  OBVIOUS
<1> HIDE DEF home
<1>5. /\ Has("home")' /\ disk'["home"] = home
      /\ \A f \in {"config", "yaml", "part", "final"} : (Has(f)' <=> Has(f)) /\ (Has(f) => disk'[f] = disk[f])
  BY <1>3 DEF Write, Put, Has
<1>6. Complete'
  BY <1>1, <1>2, <1>3, <1>4, <1>5 DEF Complete
<1>7. UnderWay' /\ Fetching' /\ Downloads'
  BY <1>1, <1>3, <1>5 DEF UnderWay, Fetching, NodeInv, Downloads, PartFile
<1> QED
  BY <1>3, <1>6, <1>7 DEF NodeInv

\* ---- downloads
LEMMA EmptyPrefix == Prefix(<<>>) /\ Len(<<>>) = 0
BY DEF Prefix

LEMMA LongerPrefix ==
    ASSUME NEW kept, Prefix(kept)
    PROVE  /\ Prefix(Append(kept, Len(kept) + 1))
           /\ Len(Append(kept, Len(kept) + 1)) = Len(kept) + 1
           /\ Len(kept) \in Nat
<1> DEFINE more == Append(kept, Len(kept) + 1)
<1>1. kept \in Seq(Nat) /\ Len(kept) \in Nat /\ DOMAIN kept = 1 .. Len(kept)
  BY LenProperties DEF Prefix
<1>2. more \in Seq(Nat) /\ Len(more) = Len(kept) + 1 /\ DOMAIN more = 1 .. Len(more)
      /\ \A k \in DOMAIN more : more[k] = IF k <= Len(kept) THEN kept[k] ELSE Len(kept) + 1
  BY <1>1
<1>3. ASSUME NEW k \in DOMAIN more
      PROVE  more[k] = k
  <2>1. CASE k <= Len(kept)
    <3>1. k \in DOMAIN kept
      BY <1>1, <1>2, <2>1
    <3> HIDE DEF more
    <3> QED
      BY <1>2, <2>1, <3>1 DEF Prefix
  <2>2. CASE ~(k <= Len(kept))
    <3> HIDE DEF more
    <3> QED
      BY <1>1, <1>2, <2>2
  <2> QED
    BY <2>1, <2>2
<1> QED
  BY <1>1, <1>2, <1>3 DEF Prefix

LEMMA DownloadKeeps ==
    ASSUME NodeInv, HfDownload
    PROVE  NodeInv'
<1>1. hostInfo' = hostInfo /\ project' = project /\ disk' = disk /\ install' = install /\ installed' = installed
  BY DEF HfDownload, diskVars, projectVars
<1>2. install = Unset
  BY DEF HfDownload, Free
<1>3. \E size, mode : fetch' = [into |-> PartFile, at |-> size, mode |-> mode] /\ mode \in {"range", "whole"}
  BY DEF HfDownload
<1>4. Fetching'
  BY <1>1, <1>2, <1>3 DEF Fetching
<1>5. UnderWay' /\ Complete' /\ Downloads'
  BY <1>1 DEF NodeInv, UnderWay, Complete, Downloads, Has, Plan
<1> QED
  BY <1>1, <1>4, <1>5 DEF NodeInv

\* Writing the part or the final file is no provisioning's.
LEMMA PartAside ==
    ASSUME NodeInv, hostInfo' = hostInfo, project' = project, install' = install, installed' = installed,
           \A f \in {"config", "yaml", "home"} : (Has(f)' <=> Has(f)) /\ (Has(f) => disk'[f] = disk[f]),
           Fetching', Downloads'
    PROVE  NodeInv'
<1>1. UnderWay' /\ Complete' /\ project' \in [Scaffold -> {"none", "own", "scaffold"}] /\ hostInfo' \in Hosts
  BY Quiet
<1> QED
  BY <1>1 DEF NodeInv

LEMMA RespondKeeps ==
    ASSUME NodeInv, NEW status \in {"ok", "partial"}, Respond(status)
    PROVE  NodeInv'
<1> DEFINE kept == IF Has(PartFile) THEN disk[PartFile] ELSE <<>>
           body == ReplyBody(status, kept)
<1>1. hostInfo' = hostInfo /\ project' = project /\ install' = install /\ installed' = installed
      /\ disk' = Write(PartFile, body.kept) /\ fetch' = [fetch EXCEPT !.at = body.from, !.mode = "body"]
      /\ fetch # Unset /\ fetch.mode \in {"range", "whole"}
  BY DEF Respond, projectVars
<1>2. install = Unset /\ fetch.into = PartFile /\ fetch = [into |-> fetch.into, at |-> fetch.at, mode |-> fetch.mode]
  BY <1>1 DEF NodeInv, Fetching
<1>3. Prefix(kept)
  <2>1. Has(PartFile) => Prefix(disk[PartFile])
    BY DEF NodeInv, Downloads
  <2> QED
    BY <2>1, EmptyPrefix
<1>4. Prefix(body.kept) /\ body.from = Len(body.kept)
  <2> HIDE DEF kept
  <2>1. CASE status = "partial"
    BY <1>3, <2>1 DEF ReplyBody
  <2>2. CASE status # "partial"
    BY <2>2, EmptyPrefix DEF ReplyBody
  <2> QED
    BY <2>1, <2>2
<1> HIDE DEF body
<1>5. /\ Has(PartFile)' /\ disk'[PartFile] = body.kept
      /\ \A f \in {"config", "yaml", "home", "final"} : (Has(f)' <=> Has(f)) /\ (Has(f) => disk'[f] = disk[f])
  BY <1>1 DEF Write, Put, Has, PartFile
<1>6. fetch' = [into |-> PartFile, at |-> body.from, mode |-> "body"]
  BY <1>1, <1>2
<1>7. Fetching'
  BY <1>1, <1>2, <1>4, <1>5, <1>6 DEF Fetching
<1>8. Downloads'
  BY <1>4, <1>5 DEF NodeInv, Downloads, PartFile
<1> QED
  BY <1>1, <1>5, <1>7, <1>8, PartAside

LEMMA FetchEnds ==
    ASSUME NodeInv, RangeRefused \/ HfFails
    PROVE  NodeInv'
<1>1. hostInfo' = hostInfo /\ project' = project /\ disk' = disk /\ install' = install /\ installed' = installed /\ fetch' = Unset
  BY DEF RangeRefused, HfFails, diskVars, projectVars
<1>2. UnderWay' /\ Complete' /\ Downloads' /\ Fetching'
  BY <1>1 DEF NodeInv, UnderWay, Complete, Downloads, Has, Plan, Fetching
<1> QED
  BY <1>1, <1>2 DEF NodeInv

LEMMA ChunkKeeps ==
    ASSUME NodeInv, ReadChunk
    PROVE  NodeInv'
<1> DEFINE more == Append(disk[fetch.into], fetch.at + 1)
           file == fetch.into
<1>1. hostInfo' = hostInfo /\ project' = project /\ install' = install /\ installed' = installed
      /\ disk' = Write(file, more) /\ fetch' = [fetch EXCEPT !.at = @ + 1]
      /\ fetch # Unset /\ fetch.mode \in {"install", "body"}
  BY DEF ReadChunk, projectVars
<1>2. fetch' = [into |-> fetch.into, at |-> fetch.at + 1, mode |-> fetch.mode]
  BY <1>1 DEF NodeInv, Fetching
<1>3. CASE fetch.mode = "install"
  <2>1. install # Unset /\ install.step = 3 /\ fetch.into = ModelFile(Plan) /\ \E o \in Options : Plan = PlanFor(hostInfo, o)
    BY <1>1, <1>3 DEF NodeInv, Fetching, UnderWay
  <2>2. file \notin FixedFiles
    BY <2>1, PlanModel DEF NodeInv
  <2>3. file \notin {"config", "yaml", "home", "part", "final"}
    BY <2>2 DEF FixedFiles
  <2>4. Fetching'
    BY <1>1, <1>2, <1>3, <2>1 DEF Fetching, Plan
  <2>5. \E content : disk' = Write(file, content)
    BY <1>1
  <2> HIDE DEF file, more
  <2>6. /\ \A f \in {"config", "yaml", "home", "part", "final"} : (Has(f)' <=> Has(f)) /\ (Has(f) => disk'[f] = disk[f])
        /\ Downloads'
    BY <2>3, <2>5, Aside
  <2> QED
    BY <1>1, <2>4, <2>6, PartAside
<1>4. CASE fetch.mode = "body"
  <2>1. install = Unset /\ fetch.into = PartFile /\ Has(PartFile) /\ fetch.at = Len(disk[PartFile])
    BY <1>1, <1>4 DEF NodeInv, Fetching
  <2>2. Prefix(disk[PartFile])
    BY <2>1 DEF NodeInv, Downloads
  <2>3. more = Append(disk[PartFile], Len(disk[PartFile]) + 1)
    BY <2>1
  <2>4. Prefix(more) /\ Len(more) = fetch.at + 1
    BY <2>1, <2>2, <2>3, LongerPrefix
  <2> HIDE DEF more
  <2>5. /\ Has(PartFile)' /\ disk'[PartFile] = more
        /\ \A f \in {"config", "yaml", "home", "final"} : (Has(f)' <=> Has(f)) /\ (Has(f) => disk'[f] = disk[f])
    BY <1>1, <2>1 DEF Write, Put, Has, PartFile
  <2>6. Fetching'
    BY <1>1, <1>2, <1>4, <2>1, <2>4, <2>5 DEF Fetching
  <2>7. Downloads'
    BY <2>4, <2>5 DEF NodeInv, Downloads, PartFile
  <2> QED
    BY <1>1, <2>5, <2>6, <2>7, PartAside
<1> QED
  BY <1>1, <1>3, <1>4

LEMMA EndKeeps ==
    ASSUME NodeInv, EndOfBody
    PROVE  NodeInv'
<1>1. hostInfo' = hostInfo /\ project' = project /\ installed' = installed /\ fetch' = Unset
      /\ fetch # Unset /\ fetch.mode \in {"install", "body"}
  BY DEF EndOfBody, projectVars
<1>2. Fetching'
  BY <1>1 DEF Fetching
<1>3. CASE fetch.mode = "install"
  <2>1. install # Unset /\ install.step = 3 /\ Advance /\ disk' = disk
    BY <1>1, <1>3 DEF NodeInv, Fetching, EndOfBody
  <2>2. installed = Unset
    BY <2>1 DEF NodeInv, Complete
  <2>3. UnderWay'
    BY <1>1, <2>1, UnderWayStep
  <2>4. Complete' /\ Downloads'
    BY <1>1, <2>1, <2>2 DEF NodeInv, Complete, Downloads, Has
  <2> QED
    BY <1>1, <1>2, <2>3, <2>4 DEF NodeInv
<1>4. CASE fetch.mode = "body"
  <2>1. install' = install /\ disk' = Put(Delete(PartFile), "final", disk[PartFile]) /\ Has(PartFile)
    BY <1>1, <1>4 DEF NodeInv, Fetching, EndOfBody
  <2>2. /\ Has("final")' /\ disk'["final"] = disk[PartFile] /\ ~Has(PartFile)'
        /\ \A f \in {"config", "yaml", "home"} : (Has(f)' <=> Has(f)) /\ (Has(f) => disk'[f] = disk[f])
    BY <2>1 DEF Put, Delete, Has, PartFile
  <2>3. Prefix(disk[PartFile])
    BY <2>1 DEF NodeInv, Downloads
  <2>4. Downloads'
    BY <2>2, <2>3 DEF Downloads, PartFile
  <2> QED
    BY <1>1, <1>2, <2>1, <2>2, <2>4, PartAside
<1> QED
  BY <1>1, <1>3, <1>4

\* ---- the other commands
LEMMA ProvisionKeeps ==
    ASSUME NodeInv, NEW o \in Options, Provision(o)
    PROVE  NodeInv'
<1> DEFINE plan == PlanFor(hostInfo, o)
<1>1. hostInfo' = hostInfo /\ project' = project /\ disk' = disk /\ fetch' = fetch /\ fetch = Unset
      /\ install' = [plan |-> plan, step |-> 1] /\ installed' = Unset
  BY DEF Provision, Free, projectVars, PlanFor
<1>2. UnderWay'
  <2>1. install'.plan = plan /\ install'.step = 1
    BY <1>1
  <2>2. install'.plan = PlanFor(hostInfo', o)
    BY <1>1, <2>1
  <2> HIDE DEF plan
  <2> QED
    BY <1>1, <2>1, <2>2 DEF UnderWay, Plan
<1>3. Complete' /\ Fetching' /\ Downloads'
  BY <1>1 DEF NodeInv, Complete, Fetching, Downloads, Has
<1> QED
  BY <1>1, <1>2, <1>3 DEF NodeInv

LEMMA InterruptKeeps ==
    ASSUME NodeInv, Interrupted
    PROVE  NodeInv'
<1>1. hostInfo' = hostInfo /\ project' = project /\ disk' = disk /\ installed' = installed /\ install' = Unset /\ fetch' = Unset
  BY DEF Interrupted, Quit, projectVars
<1>2. UnderWay' /\ Complete' /\ Downloads' /\ Fetching'
  BY <1>1 DEF NodeInv, UnderWay, Complete, Downloads, Has, Fetching
<1> QED
  BY <1>1, <1>2 DEF NodeInv

LEMMA UnitKeeps ==
    ASSUME NodeInv, ScheduleTask \/ UnscheduleTask
    PROVE  NodeInv'
<1>1. /\ hostInfo' = hostInfo /\ project' = project /\ install' = install /\ installed' = installed /\ fetch' = fetch
      /\ fetch = Unset
      /\ (\E content : disk' = Write("unit", content)) \/ disk' = Delete("unit") \/ disk' = disk
  BY DEF ScheduleTask, UnscheduleTask, Free, projectVars
<1>2. /\ \A f \in {"config", "yaml", "home", "part", "final"} : (Has(f)' <=> Has(f)) /\ (Has(f) => disk'[f] = disk[f])
      /\ Downloads'
  <2>1. "unit" \notin {"config", "yaml", "home", "part", "final"}
    OBVIOUS
  <2> QED
    BY <1>1, <2>1, Aside
<1>3. Fetching'
  BY <1>1 DEF Fetching
<1> QED
  BY <1>1, <1>2, <1>3, PartAside

LEMMA SetKeeps ==
    ASSUME NodeInv, NEW value, ConfigSet(value)
    PROVE  NodeInv'
<1>1. /\ hostInfo' = hostInfo /\ project' = project /\ install' = install /\ installed' = Unset /\ fetch' = fetch
      /\ install = Unset /\ fetch = Unset
      /\ \E content : disk' = Write("home", content)
  BY DEF ConfigSet, Free, projectVars
<1>2. PICK content : disk' = Write("home", content)
  BY <1>1
<1>3. \A f \in {"part", "final"} : (Has(f)' <=> Has(f)) /\ (Has(f) => disk'[f] = disk[f])
  BY <1>2 DEF Write, Put, Has
<1>4. UnderWay' /\ Complete' /\ Fetching' /\ Downloads'
  BY <1>1, <1>3 DEF UnderWay, Complete, Fetching, NodeInv, Downloads, PartFile
<1> QED
  BY <1>1, <1>4 DEF NodeInv

\* Servers and adoptions write no file of the installation.
LEMMA OthersKeep ==
    ASSUME NodeInv, hostInfo' = hostInfo, disk' = disk, install' = install, installed' = installed, fetch' = fetch,
           project' \in [Scaffold -> {"none", "own", "scaffold"}]
    PROVE  NodeInv'
BY DEF NodeInv, UnderWay, Complete, Fetching, Downloads, Has, Plan

LEMMA ProjectType ==
    ASSUME NodeInv, NEW f \in Scaffold, WriteScaffold(f) \/ Author(f)
    PROVE  project' \in [Scaffold -> {"none", "own", "scaffold"}]
BY DEF NodeInv, WriteScaffold, Author

LEMMA NodeInvariant == NodeSpec => []NodeInv
<1>1. NodeInit => NodeInv
  <2> SUFFICES ASSUME NodeInit PROVE NodeInv
    OBVIOUS
  <2>1. ~Has("part") /\ ~Has("final")
    <3>1. DOMAIN <<>> = {}
      OBVIOUS
    <3> QED
      BY <3>1 DEF NodeInit, Has
  <2>2. project \in [Scaffold -> {"none", "own", "scaffold"}]
    BY DEF NodeInit
  <2> QED
    BY <2>1, <2>2 DEF NodeInit, NodeInv, UnderWay, Complete, Fetching, Downloads, PartFile
<1>2. NodeInv /\ [NodeNext]_nodeVars => NodeInv'
  <2> SUFFICES ASSUME NodeInv, [NodeNext]_nodeVars PROVE NodeInv'
    OBVIOUS
  <2>1. CASE UNCHANGED nodeVars
    <3>1. /\ hostInfo' = hostInfo /\ disk' = disk /\ install' = install /\ installed' = installed /\ fetch' = fetch
          /\ project' = project
      BY <2>1 DEF nodeVars
    <3> QED
      BY <3>1, OthersKeep DEF NodeInv
  <2>2. CASE \E o \in Options : Provision(o)
    BY <2>2, ProvisionKeeps
  <2>3. CASE EnsureBuild \/ EnsureModel \/ WriteConfig \/ WriteYaml \/ ConfigureHome \/ Interrupted
    BY <2>3, BuildKeeps, ModelKeeps, ConfigKeeps, YamlKeeps, HomeKeeps, InterruptKeeps
  <2>4. CASE \E step \in {"venv", "scripts", "readme"} : EnsurePlain(step)
    BY <2>4, PlainKeeps
  <2>5. CASE HfDownload \/ RangeRefused \/ ReadChunk \/ EndOfBody \/ HfFails
    BY <2>5, DownloadKeeps, FetchEnds, ChunkKeeps, EndKeeps
  <2>6. CASE \E status \in {"ok", "partial"} : Respond(status)
    BY <2>6, RespondKeeps
  <2>7. CASE ScheduleTask \/ UnscheduleTask
    BY <2>7, UnitKeeps
  <2>8. CASE ConfigSet("typed")
    BY <2>8, SetKeeps
  <2>9. CASE \/ \E parser \in Parsers : StartServer(parser)
             \/ StopServer
             \/ \E s \in servers : ServerDies(s)
             \/ \E force \in BOOLEAN : Adopt(force)
             \/ AdoptEnds
    <3>1. /\ hostInfo' = hostInfo /\ disk' = disk /\ install' = install /\ installed' = installed /\ fetch' = fetch
          /\ project' = project
      BY <2>9 DEF StartServer, StopServer, ServerDies, Adopt, AdoptEnds, diskVars, projectVars
    <3> QED
      BY <3>1, OthersKeep DEF NodeInv
  <2>10. CASE \E file \in Scaffold : WriteScaffold(file) \/ Author(file)
    <3>1. PICK file \in Scaffold : WriteScaffold(file) \/ Author(file)
      BY <2>10
    <3>2. /\ hostInfo' = hostInfo /\ disk' = disk /\ install' = install /\ installed' = installed /\ fetch' = fetch
      BY <3>1 DEF WriteScaffold, Author, diskVars
    <3>3. project' \in [Scaffold -> {"none", "own", "scaffold"}]
      BY <3>1, ProjectType
    <3> QED
      BY <3>2, <3>3, OthersKeep
  <2>11. NodeNext \/ UNCHANGED nodeVars
    OBVIOUS
  <2> QED
    BY <2>1, <2>2, <2>3, <2>4, <2>5, <2>6, <2>7, <2>8, <2>9, <2>10, <2>11 DEF NodeNext
<1>3. QED
  BY <1>1, <1>2, PTL DEF NodeSpec

\* A provisioning that came to its end left files that say the same, the bytes
\* of a download are a prefix of what was published, the model fits the host,
\* and the operator's files stay (installer.py provision, hf.py download_gguf,
\* provision.py _pick_model, cli.py cmd_adopt).
THEOREM ProvisioningSound == NodeSpec => InstallSound
<1>1. NodeInv => ConfigsAgree
  <2> SUFFICES ASSUME NodeInv, installed # Unset
               PROVE  /\ \A parser \in Parsers : StartArgs(parser) = PlanArgs(installed)
                      /\ disk["config"].args = PlanArgs(installed)
                      /\ disk["home"].port = installed.server.port
    BY DEF ConfigsAgree
  <2>1. /\ hostInfo \in Hosts /\ \E o \in Options : installed = PlanFor(hostInfo, o)
        /\ disk["config"] = Record(installed) /\ disk["yaml"] = Render(installed.server)
        /\ disk["home"].port = installed.server.port
    BY DEF NodeInv, Complete
  <2>2. PICK o \in Options : installed = PlanFor(hostInfo, o)
    BY <2>1
  <2>3. disk["config"].args = ServerArgs(Validate(installed.server))
    BY <2>1 DEF Record
  <2>4. \A parser \in Parsers : StartArgs(parser) = ServerArgs(Validate(Parse(parser, Render(installed.server))))
    BY <2>1 DEF StartArgs
  <2>5. \A parser \in Parsers : /\ ServerArgs(Validate(Parse(parser, Render(installed.server)))) = PlanArgs(installed)
                                /\ ServerArgs(Validate(installed.server)) = PlanArgs(installed)
    BY <2>1, <2>2, ReadBack
  <2>6. "yaml" \in Parsers
    BY DEF Parsers
  <2> QED
    BY <2>1, <2>3, <2>4, <2>5, <2>6
<1>2. NodeInv => PrefixKept
  BY DEF NodeInv, Downloads, PrefixKept, Prefix, Has, PartFile
<1>3. NodeInv => PlanFits
  <2> SUFFICES ASSUME NodeInv, install # Unset,
                      \A k \in DOMAIN Models : Plan.chosen = Models[k] => \A o \in Options : o.model # Models[k],
                      Place(Plan.system) # {}
               PROVE  /\ Plan.chosen \in Place(Plan.system)
                      /\ \A m \in Place(Plan.system) : Plan.system.backend # "cpu" => m.score <= Plan.chosen.score
    BY DEF PlanFits, Place, Plan
  <2>1. PICK o \in Options : Plan = PlanFor(hostInfo, o)
    BY DEF NodeInv, UnderWay
  <2> DEFINE sys == DetectSystem(hostInfo)
  <2>2. hostInfo \in Hosts
    BY DEF NodeInv
  <2>3. Plan.system = sys /\ Plan.chosen = (IF o.model = NoModel THEN PickModel(sys) ELSE o.model)
    BY <2>1 DEF PlanFor, MakePlan
  <2>4. o.model = NoModel
    <3>1. o.model # NoModel => \E k \in DOMAIN Models : o.model = Models[k]
      BY NodeAssumption DEF Catalog
    <3> QED
      BY <2>3, <3>1
  <2>5. /\ sys.gpus \in Seq(GpuRow) /\ sys.ram \in Nat /\ sys.backend \in {"cuda", "metal", "cpu"}
    BY <2>2, Detected
  <2> HIDE DEF sys
  <2>6. TotalVram(sys) \in Nat
    BY <2>5, VramType
  <2> QED
    BY <2>3, <2>4, <2>5, <2>6, PickFits
<1>4. NodeInv /\ [NodeNext]_nodeVars =>
      [\A f \in Scaffold : (project[f] = "own" /\ project'[f] # "own") => (adopting # Unset /\ adopting.force)]_nodeVars
  <2> SUFFICES ASSUME NodeInv, NodeNext, NEW f \in Scaffold, project[f] = "own", project'[f] # "own"
               PROVE  adopting # Unset /\ adopting.force
    OBVIOUS
  <2>1. project' # project
    OBVIOUS
  <2>2. \E file \in Scaffold : WriteScaffold(file) \/ Author(file)
    <3>1. /\ \A o \in Options : Provision(o) => project' = project
          /\ EnsureBuild \/ EnsureModel \/ WriteConfig \/ WriteYaml \/ ConfigureHome \/ Interrupted => project' = project
          /\ \A step \in {"venv", "scripts", "readme"} : EnsurePlain(step) => project' = project
      BY DEF Provision, EnsureBuild, EnsureModel, WriteConfig, WriteYaml, ConfigureHome, Interrupted, EnsurePlain, projectVars
    <3>2. /\ HfDownload \/ RangeRefused \/ ReadChunk \/ EndOfBody \/ HfFails => project' = project
          /\ \A status \in {"ok", "partial"} : Respond(status) => project' = project
      BY DEF HfDownload, RangeRefused, ReadChunk, EndOfBody, HfFails, Respond, projectVars
    <3>3. /\ \A parser \in Parsers : StartServer(parser) => project' = project
          /\ StopServer \/ ScheduleTask \/ UnscheduleTask \/ ConfigSet("typed") \/ AdoptEnds => project' = project
          /\ \A s \in servers : ServerDies(s) => project' = project
          /\ \A force \in BOOLEAN : Adopt(force) => project' = project
      <4>1. \A parser \in Parsers : StartServer(parser) => project' = project
        BY DEF StartServer, projectVars
      <4>2. StopServer \/ ScheduleTask \/ UnscheduleTask => project' = project
        BY DEF StopServer, ScheduleTask, UnscheduleTask, projectVars
      <4>6. ASSUME ConfigSet("typed") PROVE project' = project
        BY <4>6 DEF ConfigSet, projectVars
      <4>3. AdoptEnds => project' = project
        BY DEF AdoptEnds
      <4>4. \A s \in servers : ServerDies(s) => project' = project
        BY DEF ServerDies, projectVars
      <4>5. \A force \in BOOLEAN : Adopt(force) => project' = project
        BY DEF Adopt
      <4> QED
        BY <4>1, <4>2, <4>3, <4>4, <4>5, <4>6
    <3> QED
      BY <2>1, <3>1, <3>2, <3>3 DEF NodeNext
  <2>3. PICK file \in Scaffold : WriteScaffold(file) \/ Author(file)
    BY <2>2
  <2>4. project \in [Scaffold -> {"none", "own", "scaffold"}]
    BY DEF NodeInv
  <2>5. ~Author(file)
    BY <2>4 DEF Author
  <2>6. WriteScaffold(file)
    BY <2>3, <2>5
  <2>7. project' = IF Kept(file, adopting.force) THEN project ELSE [project EXCEPT ![file] = "scaffold"]
    BY <2>6 DEF WriteScaffold
  <2>8. file = f /\ ~Kept(file, adopting.force)
    BY <2>4, <2>7
  <2>9. adopting.force
    BY <2>8 DEF Kept
  <2> QED
    BY <2>6, <2>9 DEF WriteScaffold
<1>5. QED
  BY <1>1, <1>2, <1>3, <1>4, NodeInvariant, PTL DEF NodeSpec, InstallSound, OwnFilesKept
=============================================================================
