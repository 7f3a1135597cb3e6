----------------------------- MODULE Evaluation -----------------------------
(***************************************************************************)
(* The benchmark runner and its evaluators (reference/benchmark): a cohort *)
(* of cases is sent to the gateway, every answer becomes a finding, the    *)
(* findings an evaluator result; results are written to a directory, those *)
(* of one phase are composed into one, and the composed result recommends  *)
(* the model tier of the next phase.                                       *)
(*                                                                         *)
(* An answer is abstracted to what the evaluators can tell of it: nothing, *)
(* something else than expected, something with the expected text in it,   *)
(* the expected text.  Risk is in percent, tokens in thousands, cost in    *)
(* ten-thousandths of a dollar.                                            *)
(***************************************************************************)
EXTENDS Integers, Sequences, FiniteSets, Absence

CONSTANTS
    Cohorts,     \* what to run: [name, evaluator, harness, cases], harness None for an evaluator
    Strategies,  \* a subset of {"strict", "majority", "optimistic"}
    Budgets     \* budget constraints, None for none

\* A result is written under the name of its cohort.
ASSUME EvalAssumption ==
    /\ \A c, d \in Cohorts : c.name = d.name => c = d
    /\ Budgets \ {None} \subseteq Nat

VARIABLES
    strategy, budget, \* how the results are composed, what the next phase may cost
    toRun,       \* cohorts not run yet
    report,      \* the metrics of the cohorts that were run
    resultFiles, \* the directory of results
    composed,    \* the composed result
    routing      \* the recommendation made from it

evalVars == <<strategy, budget, toRun, report, resultFiles, composed, routing>>

EvalInit ==
    /\ strategy \in Strategies /\ budget \in Budgets
    /\ toRun = Cohorts /\ report = {}
    /\ resultFiles = {} /\ composed = None /\ routing = None

\* ---------------------------------------------------------------- evaluators
Answers == {"nothing", "other", "containing", "exact"}
Finding(case, ok, severity, kind) ==
    [case |-> case, severity |-> IF ok THEN "info" ELSE severity, kind |-> IF ok THEN "other" ELSE kind,
     action |-> IF ok THEN "none" ELSE "revise"]

ExactMatch(case, answer) == Finding(case, answer = "exact", "high", "other")
ContainsText(case, answer) == Finding(case, answer \in {"containing", "exact"}, "high", "other")
RegexMatch(case, answer) == Finding(case, answer \in {"containing", "exact"}, "high", "other")
Acceptance(case, answer) == Finding(case, answer # "nothing", "critical", "missing_evidence")
\* A name that is not registered means exact match.
Evaluator(name, case, answer) ==
    CASE name = "contains" -> ContainsText(case, answer)
      [] name = "regex" -> RegexMatch(case, answer)
      [] name = "acceptance" -> Acceptance(case, answer)
      [] OTHER -> ExactMatch(case, answer)

SweBench(case, answer) == Finding(case, answer \in {"containing", "exact"}, "high", "missing_evidence")
Bfcl(case, answer) == Finding(case, answer = "exact", "high", "schema_violation")
ContractCompliance(case, answer) == Finding(case, answer # "nothing", "critical", "missing_evidence")
\* A harness that is not registered means: any answer that is not empty will do.
Harness(name, case, answer) ==
    CASE name = "swe_bench" -> SweBench(case, answer)
      [] name = "bfcl" -> Bfcl(case, answer)
      [] OTHER -> ContractCompliance(case, answer)

\* A request that fails is an answer with nothing in it.
Judged(cohort, case, answer) ==
    IF cohort.harness # None THEN Harness(cohort.harness, case, answer) ELSE Evaluator(cohort.evaluator, case, answer)

Findings(c, answers) == {Judged(c, k, answers[k]) : k \in c.cases}

\* ---------------------------------------------------------------- results
Correct(findings) == {f \in findings : f.action = "none"}
Accuracy(findings) == IF findings = {} THEN 0 ELSE (100 * Cardinality(Correct(findings))) \div Cardinality(findings)
OfSeverity(findings, s) == {f \in findings : f.severity = s}

DeriveOutcome(findings) ==
    IF OfSeverity(findings, "critical") # {} THEN "block"
    ELSE IF OfSeverity(findings, "high") # {} THEN "iterate"
    ELSE IF OfSeverity(findings, "medium") # {} THEN "warn" ELSE "pass"
MakeResult(name, phase, findings) ==
    [by |-> {name}, phase |-> phase, outcome |-> DeriveOutcome(findings), findings |-> findings]

\* ---------------------------------------------------------------- composition
StrictPrecedence == <<"block", "gather_evidence", "iterate", "clarify", "warn", "pass">>
Rank(outcome) == CHOOSE i \in 1 .. 6 : StrictPrecedence[i] = outcome
MostSevere(outcomes) == StrictPrecedence[CHOOSE i \in 1 .. 6 : /\ StrictPrecedence[i] \in outcomes
                                                               /\ \A o \in outcomes : Rank(o) >= i]
LeastSevere(outcomes) == StrictPrecedence[CHOOSE i \in 1 .. 6 : /\ StrictPrecedence[i] \in outcomes
                                                                /\ \A o \in outcomes : Rank(o) <= i]
Supporters(results, o) == Cardinality({r \in results : r.outcome = o})
MostCommon(results, outcomes) == {o \in outcomes : \A p \in outcomes : Supporters(results, o) >= Supporters(results, p)}
ResolveOutcome(results) ==
    LET outcomes == {r.outcome : r \in results} IN
    IF results = {} THEN "pass"
    ELSE IF strategy = "majority" THEN MostSevere(MostCommon(results, outcomes))
    ELSE IF strategy = "optimistic" THEN LeastSevere(outcomes) ELSE MostSevere(outcomes)

\* A finding of a kind that confirms and one of a kind that denies, on one
\* case: of the kinds an evaluator gives, only a schema violation confirms.
Confirms == {"observed", "schema_violation"}
Denies == {"unsupported_claim", "contradiction", "missing_evidence", "unverified_assertion"}
Contradicted(findings) ==
    {f.case : f \in {g \in findings : g.kind \in Confirms}} \cap {f.case : f \in {g \in findings : g.kind \in Denies}}

ComposeResults(results, phase) ==
    [by |-> UNION {r.by : r \in results}, phase |-> phase, outcome |-> ResolveOutcome(results),
     findings |-> UNION {r.findings : r \in results}]

\* What load_result_file can make a result of.
Readable(f) == f.whole
\* Mutant of Contributors: composed results are read back as well.
ContributorsAll(phase) == {f.result : f \in {g \in resultFiles : Readable(g) /\ g.result.phase = phase}}
\* A file that does not parse is passed over without a word.
Contributors(phase) ==
    {f.result : f \in {g \in resultFiles : ~g.composed /\ Readable(g) /\ g.result.phase = phase}}

\* ---------------------------------------------------------------- routing
RiskScore(findings) ==
    IF findings = {} THEN 0
    ELSE ((40 * Cardinality(OfSeverity(findings, "critical")) + 30 * Cardinality(OfSeverity(findings, "high"))
           + 20 * Cardinality({f \in findings : f.kind \in {"unsupported_claim", "missing_evidence"}})
           + 10 * Cardinality(Contradicted(findings))) * 100) \div (40 * Cardinality(findings))
PhaseBaseline(phase) == IF phase = "implement" THEN 20 ELSE IF phase = "plan" THEN 15 ELSE 10
TierOf(risk) == IF risk <= 20 THEN "budget" ELSE IF risk <= 50 THEN "standard" ELSE "premium"
Tokens(phase, tier) ==
    LET base == IF phase = "implement" THEN 20 ELSE IF phase = "plan" THEN 12 ELSE 8 IN
    IF tier = "budget" THEN (base * 3) \div 2 ELSE IF tier = "premium" THEN (base * 4) \div 5 ELSE base
Cost(phase, tier) ==
    (Tokens(phase, tier) * (IF tier = "budget" THEN 33 ELSE IF tier = "standard" THEN 660 ELSE 3300)) \div 10
\* The dearest tier below the one asked for that the budget pays, or the
\* cheapest whatever it costs.
Downgrades(tier) == IF tier = "premium" THEN <<"standard", "budget">> ELSE IF tier = "standard" THEN <<"budget">> ELSE <<>>
WithinBudget(phase, tier) ==
    LET lower == Downgrades(tier)
        paid == {i \in DOMAIN lower : Cost(phase, lower[i]) <= budget} IN
    IF budget = None THEN tier
    ELSE IF Cost(phase, tier) <= budget THEN tier
    ELSE IF paid = {} THEN "budget" ELSE lower[CHOOSE i \in paid : \A j \in paid : i <= j]
EscalationTriggers(tier) ==
    IF tier = "budget" THEN {"critical_to_premium", "claims_to_standard"}
    ELSE IF tier = "standard" THEN {"critical_to_premium", "high_to_premium"} ELSE {}
CappedRisk(findings, phase) ==
    IF RiskScore(findings) + PhaseBaseline(phase) > 100 THEN 100 ELSE RiskScore(findings) + PhaseBaseline(phase)
RecommendRoute(result, phase) ==
    LET tier == WithinBudget(phase, TierOf(CappedRisk(result.findings, phase))) IN
    [phase |-> phase, tier |-> tier, cost |-> Cost(phase, tier), triggers |-> EscalationTriggers(tier)]

\* ---------------------------------------------------------------- behaviour
\* A cohort is run, its metrics are kept and its result is written; the file
\* may be cut short.
RunCohort(c) ==
    /\ c \in toRun /\ toRun' = toRun \ {c}
    /\ \E answers \in [c.cases -> Answers], whole \in BOOLEAN :
        LET findings == Findings(c, answers) IN
        /\ report' = report \cup {[cohort |-> c.name, accuracy |-> Accuracy(findings)]}
        /\ resultFiles' = resultFiles \cup
            {[composed |-> FALSE, whole |-> whole, result |-> MakeResult(c.name, "after_implement", findings)]}
    /\ UNCHANGED <<strategy, budget, composed, routing>>

\* An evaluator of another phase writes its result into the directory.
OtherEvaluator ==
    /\ \A f \in resultFiles : f.composed \/ f.result.phase # "after_plan"
    /\ \E severity \in {"medium", "info"}, whole \in BOOLEAN :
        resultFiles' = resultFiles \cup
            {[composed |-> FALSE, whole |-> whole,
              result |-> MakeResult("plan", "after_plan", {Finding(0, severity = "info", severity, "unverified_assertion")})]}
    /\ UNCHANGED <<strategy, budget, toRun, report, composed, routing>>

\* compose_from_directory, and the composed result is written beside the
\* others under a name that starts with "composed-".
Compose(phase) ==
    /\ composed' = ComposeResults(Contributors(phase), phase)
    /\ resultFiles' = resultFiles \cup {[composed |-> TRUE, whole |-> TRUE, result |-> composed']}
    /\ UNCHANGED <<strategy, budget, toRun, report, routing>>

Recommend(phase) ==
    /\ composed # None
    /\ routing' = RecommendRoute(composed, phase)
    /\ UNCHANGED <<strategy, budget, toRun, report, resultFiles, composed>>

EvalNext ==
    \/ \E c \in Cohorts : RunCohort(c)
    \/ OtherEvaluator
    \/ \E phase \in {"after_implement", "after_plan"} : Compose(phase)
    \/ \E phase \in {"plan", "implement"} : Recommend(phase)

EvalSpec == EvalInit /\ [][EvalNext]_evalVars

\* ---------------------------------------------------------------- properties
\* However often results are composed, a composed result speaks for the
\* evaluators whose own results are in the directory: it blocks under the
\* strict strategy only if one of them does, never passes over one of them
\* that is whole, and under the majority the outcome has at least as many of
\* them as any other.
OwnResults(phase) == {f.result : f \in {g \in resultFiles : ~g.composed /\ g.whole /\ g.result.phase = phase}}
SpeaksForEvaluators ==
    composed # None /\ toRun = {} =>
        \A f \in {g \in resultFiles : g.composed /\ g.result.by = UNION {r.by : r \in OwnResults(g.result.phase)}} :
            LET own == OwnResults(f.result.phase) IN
            own # {} =>
                /\ \E r \in own : r.outcome = f.result.outcome
                /\ strategy = "strict" => \A r \in own : Rank(f.result.outcome) <= Rank(r.outcome)
                /\ strategy = "majority" => \A r \in own : Supporters(own, f.result.outcome) >= Supporters(own, r.outcome)

\* The tier that is recommended is paid by the budget whenever any tier that
\* is not above the risk's own would be.
RoutePaid ==
    /\ routing # None /\ budget # None
    /\ \E t \in {"budget", "standard", "premium"} : Cost(routing.phase, t) <= budget
    => routing.cost <= budget

\* The composed result and the route that is recommended from it are true to
\* what they were made of (evaluator_compose.py compose_from_directory,
\* evaluator_route.py recommend_route).
ReportsSound == SpeaksForEvaluators /\ RoutePaid
=============================================================================
