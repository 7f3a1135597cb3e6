----------------------------- MODULE ModelFleet -----------------------------
(***************************************************************************)
(* The fleet of models behind the gateway: what is installed in Ollama,    *)
(* what the benchmarks said of it, what model_lifecycle.py advises to      *)
(* remove or download by true cost (cost_model.py), and which policy       *)
(* version online_learning.py lets into production.                        *)
(*                                                                         *)
(* Money is in millionths of a dollar, rates and accuracies in percent,    *)
(* sizes in gigabytes.  The catalogue of Hugging Face and the models of    *)
(* OpenRouter are external.                                                *)
(***************************************************************************)
EXTENDS Integers, Sequences, FiniteSets, Functions, Absence

CONSTANTS
    Catalogue,   \* Hugging Face: [id, base, sized, size, downloads]: size 0 when it does not say
    Pullable,    \* the names Ollama knows
    Offers,      \* OpenRouter: [id, price, modality]
    Measured,    \* what one benchmark run can report of a model
    Versions,    \* policy versions
    Evidence,    \* benchmark results offered for a promotion: see PromoteCanary
    MinRuns,     \* recommend_removals: runs before a model may be advised against
    MaxFleetOps \* bound on requests

BenchmarkFields == {"accuracy", "cost", "tokens", "latency", "rework", "human", "escalation"}
ASSUME FleetAssumption ==
    /\ Measured \subseteq [BenchmarkFields -> Nat]
    /\ None \notin Evidence
    /\ \A e \in Evidence :
        /\ \A g \in DOMAIN e.flat : e.flat[g] \in Nat
        /\ \A c \in DOMAIN e.cohorts : \A g \in DOMAIN e.cohorts[c] : e.cohorts[c][g] \in Nat

VARIABLES
    pulled,   \* Ollama's models: external
    history,     \* ModelPerformanceAnalyzer._history: model -> results
    advice,      \* what the last request recommended
    production, canaries, \* PolicyVersionManager
    grounds,     \* the evidence production was promoted on
    fleetOps

fleetVars == <<pulled, history, advice, production, canaries, grounds, fleetOps>>

Infinite == 1000000000
\* A model whose id tells its size gets the base and the size for a name, any
\* other its own id in lower case: Ollama may know it by another one.
OllamaName(c) == IF c.sized THEN c.base ELSE c.id
ModelNames == Pullable \cup {OllamaName(c) : c \in Catalogue}
Silent == [about |-> "nothing", models |-> {}]

FleetInit ==
    /\ pulled \in SUBSET Pullable
    /\ history = [m \in ModelNames |-> <<>>]
    /\ advice = Silent
    /\ production = "1.0.0" /\ canaries = {} /\ grounds = None
    /\ fleetOps = 0

\* ---------------------------------------------------------------- true cost
Total(s, f) == SumFunction([i \in DOMAIN s |-> s[i][f]])
Mean(s, f) == Total(s, f) \div Len(s)

ModelStats(m) ==
    [model |-> m, runs |-> Len(history[m]), accuracy |-> Mean(history[m], "accuracy"),
     cost |-> Mean(history[m], "cost"), tokens |-> Mean(history[m], "tokens"), latency |-> Mean(history[m], "latency"),
     rework |-> Mean(history[m], "rework"), human |-> Mean(history[m], "human"), escalation |-> Mean(history[m], "escalation")]

\* Divided and multiplied by the same tokens, the direct cost of a case is
\* the cost per correct answer; the analyzer never says a model is local, so
\* no hour of infrastructure is counted.
DirectCost(s) == IF s.tokens > 0 THEN s.cost ELSE 0
ReworkCost(s) == s.rework * 100
HumanCost(s) == s.human * 187500
EscalationCost(s) == s.escalation * 500
LatencyCost(s) == s.latency
CaseCost(s) == DirectCost(s) + ReworkCost(s) + HumanCost(s) + EscalationCost(s) + LatencyCost(s)
CostPerCorrect(s) == IF s.accuracy = 0 THEN Infinite ELSE (CaseCost(s) * 100) \div s.accuracy

\* ---------------------------------------------------------------- ranking
Benchmarked(ms) == {m \in ms : history[m] # <<>>}
CostOf(m) == CostPerCorrect(ModelStats(m))
\* The positions the sort by true cost may give a model.
Cheaper(m, ms) == {n \in Benchmarked(ms) : CostOf(n) < CostOf(m)}
Ties(m, ms) == {n \in Benchmarked(ms) \ {m} : CostOf(n) = CostOf(m)}
Positions(m, ms) == {Cardinality(Cheaper(m, ms)) + k : k \in 1 .. Cardinality(Ties(m, ms)) + 1}

\* sorted(values)[len // 2]
Median(values) ==
    LET middle == Cardinality(DOMAIN values) \div 2
        m == CHOOSE m \in DOMAIN values :
                 /\ Cardinality({n \in DOMAIN values : values[n] < values[m]}) <= middle
                 /\ Cardinality({n \in DOMAIN values : values[n] <= values[m]}) > middle
    IN values[m]
Above(values, m) == Median(values) > 0 /\ values[m] > 2 * Median(values)

BottomQuarter(n) == IF n \div 4 > 1 THEN n \div 4 ELSE 1
\* What is said against a model wherever it is ranked, and that it is ranked low.
Faults(m, ms) ==
    LET ranked == Benchmarked(ms) IN
    {r \in {"low_accuracy", "high_cost", "high_tokens", "high_true_cost"} :
        \/ r = "low_accuracy" /\ ModelStats(m).accuracy < 50
        \/ r = "high_cost" /\ Above([n \in ranked |-> ModelStats(n).cost], m)
        \/ r = "high_tokens" /\ Above([n \in ranked |-> ModelStats(n).tokens], m)
        \/ r = "high_true_cost" /\ Above([n \in ranked |-> CostOf(n)], m)}
Reasons(m, position, ms) ==
    LET ranked == Cardinality(Benchmarked(ms)) IN
    Faults(m, ms) \cup (IF position > ranked - BottomQuarter(ranked) THEN {"bottom_ranked"} ELSE {})

\* Mutant of Removable: a model is judged on its first run.
RemovableAtOnce(m, position, ms) ==
    Cardinality(ms) >= 2 /\ Cardinality(Benchmarked(ms)) >= 2 /\ Reasons(m, position, ms) # {}
Removable(m, position, ms) ==
    /\ Cardinality(ms) >= 2 /\ Cardinality(Benchmarked(ms)) >= 2
    /\ Len(history[m]) >= MinRuns
    /\ Reasons(m, position, ms) # {}

\* ---------------------------------------------------------------- requests
RecordBenchmark(m, result) ==
    /\ Len(history[m]) < MinRuns  \* bound: no more runs than the advice asks for
    /\ history' = [history EXCEPT ![m] = Append(@, result)]
    /\ advice' = Silent
    /\ UNCHANGED <<pulled, production, canaries, grounds>>

\* Ties are ordered by the order of the names, which the model leaves open.
RecommendRemovals ==
    /\ \E place \in [Benchmarked(pulled) -> 1 .. Cardinality(pulled)] :
        /\ \A m \in DOMAIN place : place[m] \in Positions(m, pulled)
        /\ \A m, n \in DOMAIN place : m # n => place[m] # place[n]
        /\ advice' = [about |-> "removals", models |-> {m \in DOMAIN place : Removable(m, place[m], pulled)}]
    /\ UNCHANGED <<pulled, history, production, canaries, grounds>>

\* No request to Hugging Face, Ollama or OpenRouter need succeed; what cannot be
\* fetched is as good as empty.
Fetched(answer) == {answer, {}}
\* A model that does not say its size passes every limit of size.
Search(maxSize) == Fetched({c \in Catalogue : c.size <= maxSize})
Popular(found) == {c \in found : c.downloads >= 1000}
NotInstalled(found) == {c \in found : OllamaName(c) \notin pulled /\ c.id \notin pulled}
RecommendDownloads ==
    /\ \E found \in Search(20) :
        advice' = [about |-> "downloads", models |-> {OllamaName(c) : c \in NotInstalled(Popular(found))}]
    /\ UNCHANGED <<pulled, history, production, canaries, grounds>>

\* The handler and the command line each make an analyzer of their own for
\* every request, which remembers no benchmark: they rank nothing, and find
\* nothing to remove.
RecommendWithoutHistory ==
    /\ advice' = [about |-> "nothing_to_remove", models |-> {}]
    /\ UNCHANGED <<pulled, history, production, canaries, grounds>>
RankWithoutHistory ==
    /\ advice' = [about |-> "no_benchmark_data", models |-> {}]
    /\ UNCHANGED <<pulled, history, production, canaries, grounds>>

Affordable(offers) == {o \in offers : o.price <= 10 /\ o.modality \in {"", "text", "text+image"}}
RecommendCloud ==
    /\ \E offers \in Fetched(Offers) : advice' = [about |-> "cloud", models |-> {o.id : o \in Affordable(offers)}]
    /\ UNCHANGED <<pulled, history, production, canaries, grounds>>

\* Ollama's answer, or its failure, is inside an answer that always says the
\* model is being pulled, or is deleted.
Pulled(m) == pulled \cup ({m} \cap Pullable)
PullModel(m) ==
    /\ pulled' \in {Pulled(m), pulled}
    /\ advice' = [about |-> "pulling", models |-> {m}]
    /\ UNCHANGED <<history, production, canaries, grounds>>
RemoveModel(m) ==
    /\ pulled' \in {pulled \ {m}, pulled}
    /\ advice' = [about |-> "deleted", models |-> {m}]
    /\ UNCHANGED <<history, production, canaries, grounds>>

\* ---------------------------------------------------------------- promotion
\* Evidence: [signed, cohorts: cohort -> (gate -> percent of the limit), flat: gate ->
\* percent]; a gate passes at or below 100, a cohort need not report every gate.  The
\* legacy flat gates count only when no cohort is offered.
GlobalGates == {"unsafe", "replay"}
CohortGates(c) == IF c = "safety" THEN {"unsafe"} ELSE {}

Reported(e, gate) == {e.cohorts[c][gate] : c \in {d \in DOMAIN e.cohorts : gate \in DOMAIN e.cohorts[d]}}
CohortFails(e) ==
    \E c \in DOMAIN e.cohorts : \E g \in CohortGates(c) : g \notin DOMAIN e.cohorts[c] \/ e.cohorts[c][g] > 100
GlobalFails(e) == \E g \in GlobalGates : Reported(e, g) = {} \/ \E v \in Reported(e, g) : v > 100
FlatFails(e) == \E g \in GlobalGates : g \notin DOMAIN e.flat \/ e.flat[g] > 100
GatesFail(e) == IF DOMAIN e.cohorts # {} THEN CohortFails(e) \/ GlobalFails(e) ELSE FlatFails(e)

RegisterCanary(v) ==
    /\ canaries' = canaries \cup {v}
    /\ advice' = Silent
    /\ UNCHANGED <<pulled, history, production, grounds>>
PromoteCanary(v, e) ==
    /\ e.signed /\ v \in canaries
    /\ ~GatesFail(e)
    /\ production' = v /\ grounds' = e
    /\ advice' = Silent
    /\ UNCHANGED <<pulled, history, canaries>>

FleetNext ==
    /\ fleetOps < MaxFleetOps /\ fleetOps' = fleetOps + 1
    /\ \/ \E m \in ModelNames, r \in Measured : RecordBenchmark(m, r)
       \/ RecommendRemovals \/ RecommendDownloads \/ RecommendCloud
       \/ RecommendWithoutHistory \/ RankWithoutHistory
       \/ \E m \in ModelNames : PullModel(m) \/ RemoveModel(m)
       \/ \E v \in Versions : RegisterCanary(v) \/ \E e \in Evidence : PromoteCanary(v, e)

FleetSpec == FleetInit /\ [][FleetNext]_fleetVars

\* ---------------------------------------------------------------- properties
\* Advice to remove is about models that are installed and were measured
\* often enough, and the model that gives correct answers for the least money
\* of all is advised against only for a fault of its own: it is wrong more
\* often than right, or far dearer or wordier than half of the others.
RemovalsAreFair ==
    advice.about = "removals" => \A m \in advice.models :
        /\ m \in pulled /\ Len(history[m]) >= MinRuns
        /\ \/ \E n \in pulled \ {m} : history[n] # <<>> /\ CostOf(n) <= CostOf(m)
           \/ Reasons(m, 1, pulled) # {}

\* A policy version reaches production on signed evidence that reports every gate and
\* reports none beyond its limit: by its cohorts, each of which reports the gates it has
\* of its own, or, when it offers no cohort at all, by its flat gates.
ProductionEarned ==
    grounds # None =>
        /\ production \in canaries /\ grounds.signed
        /\ \A g \in GlobalGates :
            /\ \A c \in DOMAIN grounds.cohorts : g \in DOMAIN grounds.cohorts[c] => grounds.cohorts[c][g] <= 100
            /\ \/ \E c \in DOMAIN grounds.cohorts : g \in DOMAIN grounds.cohorts[c]
               \/ DOMAIN grounds.cohorts = {} /\ g \in DOMAIN grounds.flat /\ grounds.flat[g] <= 100
        /\ \A c \in DOMAIN grounds.cohorts : \A g \in CohortGates(c) :
            g \in DOMAIN grounds.cohorts[c] /\ grounds.cohorts[c][g] <= 100

\* Neither a model leaves the fleet nor a policy version enters production
\* without having earned it (model_lifecycle.py recommend_removals,
\* online_learning.py promote_canary).
FleetEarned == RemovalsAreFair /\ ProductionEarned
=============================================================================
