------------------------------ MODULE MC_Plane ------------------------------
(***************************************************************************)
(* The parts of the system around the request path, one at a time: they    *)
(* share no state, so a behaviour follows one part chosen at the start     *)
(* while the others stay at one of their initial states.                   *)
(***************************************************************************)
EXTENDS AdminPlane, Decisions, ModelFleet, Evaluation, SelfImprove, PortfolioBench, NodeInstall,
        EpistemicState, ReqContract, AgentLoop, Compression, Analytics

CONSTANT Parts          \* the parts this instance follows
VARIABLE part
planeVars == <<part, adminVars, decisionVars, fleetVars, evalVars, improveVars, benchVars, nodeVars,
               epistemicVars, reqVars, agentVars, compressVars, analyticsVars>>

\* ---- administration: two threads
MCSurfaces == {{"config"}, {"portfolio"}, {"vault", "keys"}, {"hooks"}}
MCConfig == {{"config"}}

\* ---- decisions: two workers that may be chosen at high risk, one that is only
\* good for low risk, one of a forbidden family, two verifiers
Worker(id, family, gateway, lcb, cost) ==
    [id |-> id, roles |-> {"execute"}, family |-> family, gateway |-> gateway, lcb |-> lcb, cost |-> cost,
     latency |-> 5, available |-> TRUE, capabilities |-> {"text"}, dataPolicies |-> {"zdr", "standard"}]
Verifier(id, family, lcb, cost) == [Worker(id, family, "openrouter", lcb, cost) EXCEPT !.roles = {"verify"}]
MCPool == {Worker("local", "qwen", "local", 850, 1), Worker("a", "deepseek", "openrouter", 995, 6),
           Worker("b", "glm", "openrouter", 996, 9), Worker("c", "openai", "openrouter", 999, 2),
           Verifier("va", "deepseek", 995, 3), Verifier("vb", "glm", 999, 8)}
MCPolicy ==
    [lcb |-> [low |-> 850, medium |-> 950, high |-> 990, critical |-> 995],
     gateways |-> {"openrouter", "local"}, forbidden |-> {"openai"}, independent |-> {"high", "critical"},
     missing |-> [low |-> "clarify", medium |-> "clarify", high |-> "clarify", critical |-> "rejected_until_specified"],
     steps |-> [low |-> {"schema", "policy"}, medium |-> {"schema", "policy", "deterministic_acceptance"},
                high |-> {"schema", "policy", "deterministic_acceptance", "independent_family_review"},
                critical |-> {"schema", "policy", "deterministic_acceptance", "independent_family_review", "human_approval"}]]
Criterion(described, hint, words, mandatory) == [described |-> described, hint |-> hint, words |-> words, mandatory |-> mandatory]
MCCriteria == {{}, {Criterion(TRUE, "observable", "judgmental", "yes")}, {Criterion(TRUE, "none", "executable", "absent")},
               {Criterion(FALSE, "observable", "observable", "yes")},
               {Criterion(TRUE, "none", "judgmental", "no"), Criterion(TRUE, "none", "observable", "yes")}}
MCRequests ==
    [governance : {[risk |-> r, maxCost |-> c] : r \in Risks, c \in {9, 14, 20}} \cup {[lcb |-> 996], [risk |-> "unknown"]},
     proposal : [criteria : MCCriteria, needs : {{}, {"vision"}}, fails : {FALSE}]
                \cup [criteria : {{Criterion(TRUE, "none", "executable", "yes")}}, needs : {{}}, fails : {TRUE}]]

\* ---- the model fleet: two models Ollama can pull, one too large for it
MCCatalogue ==
    {[id |-> "acme/a-8b", base |-> "a:8b", sized |-> TRUE, size |-> 15, downloads |-> 9000],
     [id |-> "acme/b-mini", base |-> "b:mini", sized |-> FALSE, size |-> 0, downloads |-> 5000],
     [id |-> "acme/c-70b", base |-> "c:70b", sized |-> TRUE, size |-> 130, downloads |-> 90000]}
MCPullable == {"a:8b", "b:mini"}
MCOffers == {[id |-> "x", price |-> 4, modality |-> "text"], [id |-> "y", price |-> 40, modality |-> "text"]}
BenchmarkResult(accuracy, cost, tokens, human) ==
    [accuracy |-> accuracy, cost |-> cost, tokens |-> tokens, latency |-> 900, rework |-> 5, human |-> human, escalation |-> 0]
MCMeasured == {BenchmarkResult(90, 400, 300, 0), BenchmarkResult(40, 200, 900, 0), BenchmarkResult(80, 100, 200, 2)}
Promotion(signed, coding, safety, replay) ==
    [signed |-> signed, flat |-> [g \in {"unsafe"} |-> 50],
     cohorts |-> [c \in {"coding", "safety"} |->
                     IF c = "safety" THEN [g \in {"unsafe"} |-> safety]
                     ELSE [g \in {"unsafe", "replay"} |-> IF g = "replay" THEN replay ELSE coding]]]
MCEvidence ==
    {Promotion(signed, coding, safety, replay) :
        signed \in BOOLEAN, coding \in {100, 120}, safety \in {90, 101}, replay \in {100, 101}}
    \cup {[signed |-> TRUE, flat |-> <<>>, cohorts |-> [c \in {"coding"} |-> [g \in {"unsafe"} |-> 50]]]}
    \cup {[signed |-> TRUE, flat |-> [g \in gates |-> v], cohorts |-> <<>>] :
              gates \in {GlobalGates, {"replay"}}, v \in {100, 101}}

\* ---- evaluation: an evaluator, a harness and one whose name is not registered
MCCohorts ==
    {[name |-> "coding", evaluator |-> "contains", harness |-> None, cases |-> {1}],
     [name |-> "tools", evaluator |-> "none", harness |-> "bfcl", cases |-> {1}],
     [name |-> "safety", evaluator |-> "acceptance", harness |-> None, cases |-> {2}]}

\* ---- self-improvement: dry run, with and without applying, and bootstrapped
MCModes ==
    {[dryRun |-> FALSE, autoApply |-> a, boot |-> FALSE] : a \in BOOLEAN}
    \cup {[dryRun |-> TRUE, autoApply |-> TRUE, boot |-> FALSE], [dryRun |-> FALSE, autoApply |-> TRUE, boot |-> TRUE]}
MCSuite == <<[name |-> "quick", weight |-> 1, minimum |-> 40], [name |-> "coding", weight |-> 3, minimum |-> 50]>>
MCSmallSuite == <<[name |-> "coding", weight |-> 3, minimum |-> 50]>>
CohortReport(accuracy, rework, slow) ==
    [accuracy |-> accuracy, rework |-> rework, escalation |-> 0, unsafe |-> 0, slow |-> slow]
MCReports == {CohortReport(100, 0, FALSE), CohortReport(40, 30, TRUE)}

\* ---- the portfolio benchmark: a local and a cloud model
MCBenchModels == {[id |-> "q", provider |-> "ollama", price |-> 0], [id |-> "g", provider |-> "openrouter", price |-> 2]}
MCBenchCohorts == {[name |-> "coding-tasks", harness |-> None, cases |-> {1, 2}], [name |-> "safety-tasks", harness |-> "safety", cases |-> {1}]}

\* ---- nodes: two GPUs, a CPU, Apple silicon, a GPU too small for any model, too little memory
Gpu(vram, bw, display) == [vendor |-> "nvidia", vram |-> vram, bandwidth |-> bw, display |-> display]
HostOf(os, ram, apple, gpus) == [os |-> os, arch |-> "x64", ram |-> ram, apple |-> apple, nvidia |-> gpus]
MCHosts ==
    {HostOf("windows", 640, FALSE, <<Gpu(120, 504, TRUE), Gpu(160, 448, FALSE)>>), HostOf("linux", 320, FALSE, <<>>),
     HostOf("darwin", 160, TRUE, <<>>), HostOf("linux", 160, FALSE, <<Gpu(80, 0, TRUE)>>), HostOf("linux", 20, FALSE, <<>>)}
LocalModel(key, score, v, r, c) == [key |-> key, score |-> score, minVram |-> v, minRam |-> r, cpuFriendly |-> c]
MCModels ==
    <<LocalModel("big", 95, 200, 320, FALSE), LocalModel("mid", 90, 120, 160, FALSE),
      LocalModel("small", 60, 40, 60, TRUE), LocalModel("tiny", 60, 30, 40, TRUE)>>
MCOptions == {[model |-> NoModel, port |-> 8080, ctx |-> Unset], [model |-> MCModels[3], port |-> 8081, ctx |-> 4096]}

\* ---- epistemic state: a model's word and tool results, one worthless
Grade(kind, strength) == [kind |-> kind, strength |-> strength]
MCGrades == {Grade("model_assertion", 70), Grade("tool_result", 100), Grade("tool_result", 0)}
MCRequires == [k1 |-> {"claim1", "ev2"}, k2 |-> {}]

\* ---- prompt compression: repeated, merged, overlong, tool and short messages
Said(id, size, slack, terms) == [id |-> id, size |-> size, slack |-> slack, terms |-> terms]
Message(role, text) == [role |-> role, text |-> text, tool |-> NoTool]
Rules == Message("system", <<Said("rules", 120, 0, {"answer", "policy"})>>)
Question == Message("user", <<Said("question", 400, 30, {"invoice"})>>)
Reply == Message("assistant", <<Said("reply", 300, 0, {"total", "invoice"}), Said("basis", 90, 0, {"ledger"}), Said("note", 600, 0, {"rate"})>>)
Pasted == Message("user", <<Said("p1", 500, 0, {"log"}), Said("p2", 500, 0, {"trace"})>>)
Looked(t) == [role |-> "tool", text |-> <<Said("row", 40, 0, {"row"})>>, tool |-> t]
MCConversations ==
    {<<Rules, Question, Question, Reply>>,
     <<Rules, Pasted, Message("user", <<Said("more", 700, 0, {"error"})>>), Question, Reply>>,
     <<Rules, Question, Reply, Message("user", <<>>), Looked("t1"), Reply, Looked("t1"), Question>>,
     <<Message("system", <<Said("old1", 400, 0, {"old", "older"}), Said("old2", 300, 0, {"rule", "prior"})>>), Message("user", <<Said("dump", 3100, 0, {"dump"})>>), Message("assistant", <<>>), Rules, Question>>,
     <<Message("user", <<Said("hello", 20, 0, {})>>)>>}
CompressSettings(chosen, quality) ==
    [enabled |-> TRUE, strategy |-> chosen, minTokens |-> 10, target |-> 50, maxMessages |-> 6, minQuality |-> quality,
     cacheSize |-> 2, adaptive |-> chosen = "auto", minRatio |-> 30, maxRatio |-> 80]
MCConfigs == {CompressSettings("auto", 0), CompressSettings("prune", 700)}

\* ---- analytics: the runs of a model whose answers are dear and of one whose
\* every second attempt fails, and a run under way; with it a run nobody chose a model for
OutcomeOf(status, model, cost) == [status |-> status, model |-> model, cost |-> cost]
Past(status, model, cost, rework, at) ==
    [status |-> status, model |-> model, cost |-> cost, review |-> FALSE, rework |-> rework, at |-> at]
MCHistories ==
    {[n1 |-> Past("accepted", "dear", 700, FALSE, -59), n2 |-> Past("accepted", "frail", 400, FALSE, -70),
      n3 |-> Past("escalated", "frail", 400, TRUE, 0), n4 |-> None]}
MCOutcomes == {OutcomeOf("accepted", "dear", 800), OutcomeOf("escalated", "frail", 500), OutcomeOf("escalated", None, 0)}
MCSpans == {AllTime, [from |-> None, to |-> 1]}

-----------------------------------------------------------------------------
\* A part that is not followed stays at one of its initial states.
Pick(S) == CHOOSE x \in S : TRUE
AdminIdle == adminPart = Pick(AdminParts) /\ configRow = Pick(Settings) /\ AdminInit
DecisionIdle ==
    /\ request = None /\ portfolioOf = {} /\ stage = "off"
    /\ contract = None /\ decision = None /\ answer = None /\ verdict = None
FleetIdle == pulled = {} /\ FleetInit
EvalIdle == strategy = Pick(Strategies) /\ budget = Pick(Budgets) /\ EvalInit
ImproveIdle == improveMode = Pick(ImproveModes) /\ ImproveInit
AnalyticsIdle == runTable = Pick(Histories) /\ AnalyticsInit
CompressIdle == compressConfig = Pick(Configs) /\ CompressInit
NodeIdle == hostInfo = Pick(Hosts) /\ disk = <<>> /\ project = [f \in Scaffold |-> "none"] /\ NodeInit

PlaneInit ==
    /\ part \in Parts
    /\ IF part = "admin" THEN AdminInit ELSE AdminIdle
    /\ IF part = "decisions" THEN DecisionInit ELSE DecisionIdle
    /\ IF part = "fleet" THEN FleetInit ELSE FleetIdle
    /\ IF part = "evaluation" THEN EvalInit ELSE EvalIdle
    /\ IF part = "improve" THEN ImproveInit ELSE ImproveIdle
    /\ IF part = "node" THEN NodeInit ELSE NodeIdle
    /\ IF part = "compression" THEN CompressInit ELSE CompressIdle
    /\ IF part = "analytics" THEN AnalyticsInit ELSE AnalyticsIdle
    /\ BenchInit /\ EpistemicInit /\ ReqInit /\ AgentInit

OtherParts(p) ==
    /\ part = p
    /\ UNCHANGED part
    /\ p # "admin" => UNCHANGED adminVars
    /\ p # "decisions" => UNCHANGED decisionVars
    /\ p # "fleet" => UNCHANGED fleetVars
    /\ p # "evaluation" => UNCHANGED evalVars
    /\ p # "improve" => UNCHANGED improveVars
    /\ p # "bench" => UNCHANGED benchVars
    /\ p # "node" => UNCHANGED nodeVars
    /\ p # "epistemic" => UNCHANGED epistemicVars
    /\ p # "contract" => UNCHANGED reqVars
    /\ p # "agent" => UNCHANGED agentVars
    /\ p # "compression" => UNCHANGED compressVars
    /\ p # "analytics" => UNCHANGED analyticsVars

PlaneNext ==
    \/ OtherParts("admin") /\ AdminNext
    \/ OtherParts("decisions") /\ DecisionNext
    \/ OtherParts("fleet") /\ FleetNext
    \/ OtherParts("evaluation") /\ EvalNext
    \/ OtherParts("improve") /\ ImproveNext
    \/ OtherParts("bench") /\ BenchNext
    \/ OtherParts("node") /\ NodeNext
    \/ OtherParts("epistemic") /\ EpistemicNext
    \/ OtherParts("contract") /\ ReqNext
    \/ OtherParts("agent") /\ AgentNext
    \/ OtherParts("compression") /\ CompressNext
    \/ OtherParts("analytics") /\ AnalyticsNext

PlaneSpec == PlaneInit /\ [][PlaneNext]_planeVars
=============================================================================
