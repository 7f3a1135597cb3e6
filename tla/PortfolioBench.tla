--------------------------- MODULE PortfolioBench ---------------------------
(***************************************************************************)
(* The portfolio optimizer (scripts/multi_model_portfolio.py): every local *)
(* and cloud model is run on every cohort, and for each cohort the best    *)
(* and the second best model are chosen, among the local models, among the *)
(* cloud models and among all of them; the report can be made again from   *)
(* the benchmarks on disk.                                                 *)
(*                                                                         *)
(* A call fails or is answered; an answer is right, wrong, or nothing.     *)
(***************************************************************************)
EXTENDS Integers, FiniteSets, Sequences, Absence

CONSTANTS
    BenchModels,   \* [id, provider, price]
    BenchCohorts,  \* [name, harness, cases]
    Latencies

VARIABLES
    benched,     \* the benchmarks made so far
    onDisk,      \* evidence/portfolio/all_benchmarks.json: no file, or one of these benchmarks
    portfolios   \* the reported best models: [local, cloud, hybrid], each cohort -> entry

\* Prices are not negative, a cohort has finitely many cases.
ASSUME BenchAssumption ==
    /\ Latencies \subseteq Nat
    /\ \A m \in BenchModels : m.price \in Nat
    /\ \A c \in BenchCohorts : IsFiniteSet(c.cases)

benchVars == <<benched, onDisk, portfolios>>

BenchInit == benched = {} /\ onDisk = {} /\ portfolios = None

Percent(part, whole) == IF whole = 0 THEN 0 ELSE (100 * part) \div whole
\* The harness "safety" and the evaluator "regex_match" are not registered: the
\* first stands for any answer that is not empty, the second for exact match.
JudgeCase(cohort, reply) ==
    IF cohort.harness # None
    THEN [right |-> reply # "nothing", severity |-> IF reply = "nothing" THEN "critical" ELSE "info"]
    ELSE [right |-> reply = "right", severity |-> IF reply = "right" THEN "info" ELSE "high"]

\* Dollars by the token for a cloud model; for a local one electricity by the hour,
\* over all its answers, the average of whose times is the latency.
EstimatedCost(model, latency, answered) ==
    IF model.provider = "openrouter" THEN model.price * answered ELSE latency * answered

\* Failed calls count as errors and nothing else: all rates are over the rest.
BenchmarkOf(model, cohort, replies, latency) ==
    LET valid == {k \in cohort.cases : replies[k] # "error"}
        judged(k) == JudgeCase(cohort, replies[k])
        wrong == {k \in valid : ~judged(k).right}
        n == Cardinality(valid)
        slow == IF n = 0 THEN 0 ELSE latency IN
    [model |-> model, cohort |-> cohort.name,
     accuracy |-> Percent(n - Cardinality(wrong), n), latency |-> slow, cost |-> EstimatedCost(model, slow, n),
     rework |-> Percent(Cardinality({k \in wrong : judged(k).severity \in {"critical", "high"}}), n),
     escalation |-> Percent(Cardinality({k \in wrong : judged(k).severity = "critical"}), n),
     unsafe |-> IF cohort.name = "safety-tasks" THEN Percent(Cardinality(wrong), n) ELSE 0,
     errors |-> Cardinality(cohort.cases) - n]

\* Mutant of Efficiency: the slowest and the dearest get the credit.
EfficiencyInverse(value, most) == IF most = 0 THEN 100 ELSE Percent(value, most)
\* 100 for the best of the field, 0 for the worst.
Efficiency(value, most) == IF most = 0 THEN 100 ELSE 100 - Percent(value, most)
BenchScore(b, slowest, dearest) ==
    50 * b.accuracy + 20 * Efficiency(b.latency, slowest) + 15 * Efficiency(b.cost, dearest)
    + 15 * (IF 10 * b.unsafe > 100 THEN 0 ELSE 100 - 10 * b.unsafe)

Greatest(S) == CHOOSE x \in S : \A y \in S : y <= x
Entry(field) ==
    LET slowest == Greatest({b.latency : b \in field})
        dearest == Greatest({b.cost : b \in field})
        score(b) == BenchScore(b, slowest, dearest)
        first == CHOOSE b \in field : \A c \in field : score(c) <= score(b)
        second == IF field = {first} THEN first
                  ELSE CHOOSE b \in field \ {first} : \A c \in field \ {first} : score(c) <= score(b) IN
    [best |-> first, runnerUp |-> second.model.id]
\* A cohort without benchmarks gets no entry.
Portfolio(benchmarks) ==
    [c \in {b.cohort : b \in benchmarks} |-> Entry({b \in benchmarks : b.cohort = c})]
Local(benchmarks) == {b \in benchmarks : b.model.provider = "ollama"}
Cloud(benchmarks) == {b \in benchmarks : b.model.provider = "openrouter"}
Report(benchmarks) ==
    [local |-> Portfolio(Local(benchmarks)), cloud |-> Portfolio(Cloud(benchmarks)), hybrid |-> Portfolio(benchmarks)]

Benchmark(model, cohort) ==
    /\ onDisk = {} \* the run is over once it is saved
    /\ ~\E b \in benched : b.model = model /\ b.cohort = cohort.name
    /\ \E replies \in [cohort.cases -> {"error", "nothing", "wrong", "right"}], latency \in Latencies :
        benched' = benched \cup {BenchmarkOf(model, cohort, replies, latency)}
    /\ UNCHANGED <<onDisk, portfolios>>

SaveResults ==
    /\ onDisk = {}
    /\ \A m \in BenchModels, c \in BenchCohorts : \E b \in benched : b.model = m /\ b.cohort = c.name
    /\ onDisk' = {benched} /\ portfolios' = Report(benched)
    /\ UNCHANGED benched

ReportFromDisk ==
    /\ \E saved \in onDisk : portfolios' = Report(saved)
    /\ UNCHANGED <<benched, onDisk>>

BenchNext ==
    \/ \E m \in BenchModels, c \in BenchCohorts : Benchmark(m, c)
    \/ SaveResults \/ ReportFromDisk

BenchSpec == BenchInit /\ [][BenchNext]_benchVars

\* The model that is reported best for a cohort is beaten by none of its field
\* on accuracy while being no slower, no dearer and no less safe.
Beats(b, c) == b.accuracy > c.accuracy /\ b.latency <= c.latency /\ b.cost <= c.cost /\ b.unsafe <= c.unsafe
\* _build_portfolio, mixed and local.
BestUnbeaten ==
    portfolios # None =>
        /\ \A c \in DOMAIN portfolios.hybrid : \A b \in benched :
                b.cohort = c => ~Beats(b, portfolios.hybrid[c].best)
        /\ \A c \in DOMAIN portfolios.local : \A b \in Local(benched) :
                b.cohort = c => ~Beats(b, portfolios.local[c].best)
=============================================================================
