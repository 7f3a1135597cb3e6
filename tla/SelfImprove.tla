----------------------------- MODULE SelfImprove -----------------------------
(***************************************************************************)
(* The self-improvement loop (scripts/noerelay_self_improve.py with        *)
(* improvement_analyzer.py, continuous_benchmark.py, service_health_probe  *)
(* and bootstrap_improve.py): probe the services, run the benchmarks, keep *)
(* the best run as the baseline, look for bottlenecks, apply what is safe, *)
(* record the cycle, stop when the score stands still.  The process may    *)
(* die between any two steps and is started again over the state file.     *)
(*                                                                         *)
(* Rates are in percent, scores in ten-thousandths.                        *)
(***************************************************************************)
EXTENDS Integers, Sequences, FiniteSets, SequencesExt, FiniteSetsExt, Picking, Absence

CONSTANTS
    ImproveModes,   \* [dryRun, autoApply, boot]: how the loop is run
    Suite,          \* the sequence of cohorts, [name, weight, minimum]
    CohortReports,  \* what a cohort may report: [accuracy, rework, escalation, unsafe, slow]
    Services,
    MaxCycles, MaxStarts \* bounds

ASSUME ImproveAssumption ==
    /\ Suite \in Seq([name : STRING, weight : Nat, minimum : Nat])
    /\ CohortReports \subseteq [accuracy : Nat, rework : Nat, escalation : Nat, unsafe : Nat, slow : BOOLEAN]
    /\ IsFiniteSet(Services)
    /\ None \notin Int \cup CohortReports

VARIABLES
    improveMode,
    orch,          \* orchestrator_state.json
    cycleOf,       \* the running cycle: [stage, cycle, health, reports, actions, applied]
    starts,        \* how often the loop was started
    baseline, archived, \* scores of baseline.json (or HalfWritten) and of the baselines copied aside
    boot,          \* bootstrap_improve: [stage, cycle, scores, heartbeat]
    finished, executed, lost, lastSeen \* history: scores of finished runs, actions done, cycles lost, last cycle

improveVars == <<improveMode, orch, cycleOf, starts, baseline, archived, boot, finished, executed, lost, lastSeen>>

FreshState == [cycle |-> 0, converged |-> FALSE, scores |-> <<>>, applied |-> {}]
Down == [stage |-> "down", cycle |-> 0, health |-> None, reports |-> None, actions |-> <<>>, applied |-> {}]
Cycle(n) == [Down EXCEPT !.stage = "probe", !.cycle = n]

ImproveInit ==
    /\ improveMode \in ImproveModes
    /\ orch = FreshState /\ cycleOf = Down /\ starts = 0
    /\ baseline = None /\ archived = {}
    /\ boot = [stage |-> "off", cycle |-> 0, scores |-> <<>>, heartbeat |-> None]
    /\ finished = {} /\ executed = <<>> /\ lost = 0 /\ lastSeen = None

\* ------------------------------------------------------------------- scoring
Least(a, b) == IF a <= b THEN a ELSE b
Ran(reports) == {i \in DOMAIN Suite : reports[i] # None}
CostEfficiency(r) == 100 - Least(100, 2 * r.rework + (3 * r.escalation) \div 2)
Safety(r) == 100 - Least(100, 5 * r.unsafe)
\* The weighted mean over the cohorts that ran: one that failed has no weight.
Worth(r) == 2 * r.accuracy + CostEfficiency(r) + Safety(r)
TotalWeight(reports) == SumFunction([i \in Ran(reports) |-> Suite[i].weight])
WeightedWorth(reports) == SumFunction([i \in Ran(reports) |-> Suite[i].weight * Worth(reports[i])])
CompositeScore(reports) ==
    IF reports = None \/ TotalWeight(reports) = 0 THEN 0
    ELSE (25 * WeightedWorth(reports)) \div TotalWeight(reports)

\* -------------------------------------------------------------------- health
\* A service that cannot be reached, or answers with an error, is unhealthy.
HealthMatrix == SUBSET Services

\* ---------------------------------------------------------------- bottlenecks
Bottleneck(cohort, metric, critical) == [cohort |-> cohort, metric |-> metric, critical |-> critical]
Cohort(c) == <<"cohort", c.name>>
CohortBottlenecks(c, r) ==
    IF r = None THEN {Bottleneck(Cohort(c), "error", TRUE)}
    ELSE (IF r.accuracy < c.minimum THEN {Bottleneck(Cohort(c), "accuracy", 10 * r.accuracy < 7 * c.minimum)} ELSE {})
         \cup (IF r.slow THEN {Bottleneck(Cohort(c), "latency", FALSE)} ELSE {})
         \cup (IF r.rework > 20 THEN {Bottleneck(Cohort(c), "rework_rate", FALSE)} ELSE {})
         \cup (IF r.escalation > 15 THEN {Bottleneck(Cohort(c), "escalation_rate", FALSE)} ELSE {})
         \cup (IF r.unsafe > 10 THEN {Bottleneck(Cohort(c), "safety", TRUE)} ELSE {})
\* The findings of the composed evaluator result name the case, not the cohort.
Case(c) == <<"case", c.name>>
ContractBottlenecks(c, r) ==
    IF r = None \/ r.accuracy = 100 THEN {} ELSE {Bottleneck(Case(c), "accuracy", FALSE)}
Bottlenecks(reports) ==
    IF reports = None THEN {}
    ELSE UNION {CohortBottlenecks(Suite[i], reports[i]) \cup ContractBottlenecks(Suite[i], reports[i]) : i \in DOMAIN Suite}

\* -------------------------------------------------------------------- actions
Action(category, what, subject, target, approval) ==
    [category |-> category, what |-> <<what, subject>>, target |-> target, approval |-> approval]
Shared == <<"all", "all">>
\* No local models are handed to the analyzer: accuracy always asks for the cloud.
ModelUpgrade(c) == Action("config_tune", "cloud_fallback", c, <<"CLOUD_FALLBACK_ALLOWED", Shared>>, TRUE)
SmallerContext(c) == Action("config_tune", "smaller_context", c, <<"CONTEXT_BUDGET_TOKENS", Shared>>, FALSE)
FasterModel(c) == Action("model_swap", "faster_model", c, <<"primary_model", c>>, FALSE)
ReworkFix(c) == Action("config_tune", "verify_independently", c, <<"independent_verification", c>>, FALSE)
SafetyFix(c) == Action("config_tune", "verify_safety", c, <<"safety_verification", c>>, FALSE)
ServiceFix(s) == Action("restart_service", "restart", <<"service", s>>, <<"service", s>>, FALSE)

\* The fixes for a cohort in the order they are proposed, and those its metrics ask for.
Fixes(cohort) ==
    <<ModelUpgrade(cohort), SmallerContext(cohort), FasterModel(cohort), ReworkFix(cohort), SafetyFix(cohort)>>
Wanted(metrics) ==
    {k \in 1 .. 5 : \/ k = 1 /\ "accuracy" \in metrics
                    \/ k \in {2, 3} /\ "latency" \in metrics
                    \/ k = 4 /\ metrics \cap {"rework_rate", "escalation_rate"} # {}
                    \/ k = 5 /\ "safety" \in metrics}
Metrics(reports, subject) == {b.metric : b \in {x \in Bottlenecks(reports) : x.cohort = subject}}
\* The cohorts and after them the cases, five places each.
Subject(p) ==
    LET i == ((p - 1) \div 5) + 1 IN IF i <= Len(Suite) THEN Cohort(Suite[i]) ELSE Case(Suite[i - Len(Suite)])
Fix(p) == ((p - 1) % 5) + 1
FixesEnd == 10 * Len(Suite)
\* What is proposed, at the place of each: fixes, then restarts of what is down.
Proposed(reports, health) ==
    LET fixes == {p \in 1 .. FixesEnd : Fix(p) \in Wanted(Metrics(reports, Subject(p)))}
        down == IF health = None THEN {} ELSE health
    IN [p \in fixes \cup ((FixesEnd + 1) .. (FixesEnd + Cardinality(down))) |->
            IF p <= FixesEnd THEN Fixes(Subject(p))[Fix(p)] ELSE ServiceFix(SetToSeq(down)[p - FixesEnd])]
\* The first action of each category and target, in their order.
Firsts(actions) ==
    {p \in DOMAIN actions : \A q \in DOMAIN actions :
        q < p => actions[q].category # actions[p].category \/ actions[q].target # actions[p].target}
Unique(actions) == Picked(actions, Firsts(actions))
Actions(reports, health) == Unique(Proposed(reports, health))

AutoApply == {"restart_service", "config_tune"}
NeedsApproval(a) == a.category \in {"model_swap", "portfolio_add", "portfolio_remove"} \/ a.approval
AlreadyApplied(a) == a.what \in orch.applied
Applicable(a) ==
    /\ ~improveMode.dryRun
    /\ NeedsApproval(a) => improveMode.autoApply
    /\ (improveMode.autoApply /\ a.category \in AutoApply) \/ a.category = "restart_service"
    /\ ~AlreadyApplied(a)

\* ---------------------------------------------------------------- convergence
Apart(a, b) == IF a < b THEN b - a ELSE a - b
LastOf(scores, n) == SubSeq(scores, Len(scores) - n + 1, Len(scores))
Converged(scores) ==
    /\ Len(scores) >= 3
    /\ LET recent == LastOf(scores, 3) IN
       /\ \A i \in 2 .. 3 : Apart(recent[i], recent[i - 1]) <= 50
       /\ \A i \in 1 .. 3 : recent[i] >= 7000

\* -------------------------------------------------------------------- a cycle
CycleLimit == IF improveMode.boot THEN 1 ELSE MaxCycles
ImproveAt(stage) == cycleOf.stage = stage

StartRun ==
    /\ ImproveAt("down") /\ ~improveMode.boot /\ starts < MaxStarts
    /\ orch.cycle < CycleLimit
    /\ cycleOf' = Cycle(orch.cycle + 1) /\ starts' = starts + 1
    /\ UNCHANGED <<improveMode, orch, baseline, archived, boot, finished, executed, lost, lastSeen>>

ProbeHealth ==
    /\ ImproveAt("probe")
    /\ \E health \in (IF improveMode.dryRun THEN {None} ELSE HealthMatrix \cup {None}) :
        cycleOf' = [cycleOf EXCEPT !.stage = "bench", !.health = health]
    /\ UNCHANGED <<improveMode, orch, starts, baseline, archived, boot, finished, executed, lost, lastSeen>>

\* A cohort that raises reports an error; a pipeline that raises gives no
\* cohorts and the score zero.
RunBenchmarks ==
    /\ ImproveAt("bench")
    /\ \E reports \in (IF improveMode.dryRun THEN {None} ELSE [DOMAIN Suite -> CohortReports \cup {None}] \cup {None}) :
        cycleOf' = [cycleOf EXCEPT !.stage = IF reports = None THEN "analyze" ELSE "baseline", !.reports = reports]
    /\ UNCHANGED <<improveMode, orch, starts, baseline, archived, boot, finished, executed, lost, lastSeen>>

\* The run's own file is written; then the run is compared with baseline.json,
\* and when it is better the old baseline is copied aside and its file
\* overwritten: emptied first, so that a death in the write leaves it torn.
HalfWritten == -1
Score == CompositeScore(cycleOf.reports)
\* Mutant of Better: without a baseline nothing is better.
BetterKnown(score) == baseline # None /\ score > baseline
Better(score) == baseline # None => score > baseline
KeepBaseline ==
    /\ ImproveAt("baseline") /\ baseline # HalfWritten /\ ~Better(Score)
    /\ finished' = finished \cup {Score}
    /\ cycleOf' = [cycleOf EXCEPT !.stage = "analyze"]
    /\ UNCHANGED <<improveMode, orch, starts, baseline, archived, boot, executed, lost, lastSeen>>
ArchiveBaseline ==
    /\ ImproveAt("baseline") /\ baseline # HalfWritten /\ Better(Score)
    /\ archived' = archived \cup ({baseline} \ {None})
    /\ cycleOf' = [cycleOf EXCEPT !.stage = "truncate"]
    /\ UNCHANGED <<improveMode, orch, starts, baseline, boot, finished, executed, lost, lastSeen>>
TruncateBaseline ==
    /\ ImproveAt("truncate")
    /\ baseline' = HalfWritten
    /\ cycleOf' = [cycleOf EXCEPT !.stage = "save"]
    /\ UNCHANGED <<improveMode, orch, starts, archived, boot, finished, executed, lost, lastSeen>>
SaveBaseline ==
    /\ ImproveAt("save")
    /\ baseline' = Score /\ finished' = finished \cup {Score}
    /\ cycleOf' = [cycleOf EXCEPT !.stage = "analyze"]
    /\ UNCHANGED <<improveMode, orch, starts, archived, boot, executed, lost, lastSeen>>
\* A write that fails, or a torn baseline that is no JSON, is caught: the cycle
\* goes on without the reports, at score zero.
BenchmarkRaises ==
    /\ cycleOf.stage \in {"baseline", "truncate", "save"}
    /\ cycleOf' = [cycleOf EXCEPT !.stage = "analyze", !.reports = None]
    /\ UNCHANGED <<improveMode, orch, starts, baseline, archived, boot, finished, executed, lost, lastSeen>>

Analyze ==
    /\ ImproveAt("analyze")
    /\ cycleOf' = [cycleOf EXCEPT !.stage = "apply", !.actions = Actions(cycleOf.reports, cycleOf.health)]
    /\ UNCHANGED <<improveMode, orch, starts, baseline, archived, boot, finished, executed, lost, lastSeen>>

\* A restart may fail: then it is not among the applied ones.
ApplyNext ==
    /\ ImproveAt("apply") /\ cycleOf.actions # <<>>
    /\ LET a == Head(cycleOf.actions) IN
       \E done \in (IF a.category = "restart_service" THEN BOOLEAN ELSE {TRUE}) :
           /\ cycleOf' = [cycleOf EXCEPT !.actions = Tail(@),
                                         !.applied = IF Applicable(a) /\ done THEN @ \cup {a.what} ELSE @]
           /\ executed' = IF Applicable(a) /\ done THEN Append(executed, a.what) ELSE executed
    /\ UNCHANGED <<improveMode, orch, starts, baseline, archived, boot, finished, lost, lastSeen>>

RecordCycle ==
    /\ ImproveAt("apply") /\ cycleOf.actions = <<>>
    /\ orch' = [orch EXCEPT !.cycle = cycleOf.cycle, !.scores = Append(@, CompositeScore(cycleOf.reports)),
                            !.applied = @ \cup cycleOf.applied]
    /\ lastSeen' = [reports |-> cycleOf.reports, health |-> cycleOf.health]
    /\ cycleOf' = [cycleOf EXCEPT !.stage = "check"]
    /\ UNCHANGED <<improveMode, starts, baseline, archived, boot, finished, executed, lost>>

NextCycle == IF cycleOf.cycle < CycleLimit THEN Cycle(cycleOf.cycle + 1) ELSE Down
CheckConvergence ==
    /\ ImproveAt("check")
    /\ orch' = [orch EXCEPT !.converged = @ \/ Converged(orch.scores)]
    /\ cycleOf' = IF Converged(orch.scores) THEN Down ELSE NextCycle
    /\ UNCHANGED <<improveMode, starts, baseline, archived, boot, finished, executed, lost, lastSeen>>

\* An exception after the benchmarks: nothing of it is recorded and the next one goes on.
CycleFails ==
    /\ cycleOf.stage \in {"analyze", "apply"} /\ lost < MaxStarts
    /\ cycleOf' = NextCycle /\ lost' = lost + 1
    /\ UNCHANGED <<improveMode, orch, starts, baseline, archived, boot, finished, executed, lastSeen>>
\* The process dies, or is interrupted.
Die ==
    /\ ~ImproveAt("down") /\ lost < MaxStarts /\ ~improveMode.boot
    /\ cycleOf' = Down /\ lost' = lost + 1
    /\ UNCHANGED <<improveMode, orch, starts, baseline, archived, boot, finished, executed, lastSeen>>

\* ------------------------------------------------------------------ bootstrap
Heartbeat(status, n, score) == [status |-> status, cycle |-> n, score |-> score]
BootEnd(status, n, score) == [boot EXCEPT !.stage = "done", !.heartbeat = Heartbeat(status, n, score)]

EnsureGateway ==
    /\ improveMode.boot /\ boot.stage = "off"
    /\ \E up \in BOOLEAN : boot' = IF up THEN [boot EXCEPT !.stage = "ready", !.heartbeat = Heartbeat("starting", 0, 0)]
                                   ELSE BootEnd("failed", 0, 0)
    /\ UNCHANGED <<improveMode, orch, cycleOf, starts, baseline, archived, finished, executed, lost, lastSeen>>

\* The state file is reset and a child runs one cycle.
BootCycle ==
    /\ boot.stage = "ready"
    /\ boot' = [boot EXCEPT !.stage = "child", !.cycle = @ + 1]
    /\ orch' = FreshState /\ cycleOf' = Cycle(1)
    /\ UNCHANGED <<improveMode, starts, baseline, archived, finished, executed, lost, lastSeen>>

\* The bootstrap stops on scores that stand still, at whatever level.
BootStill(scores) ==
    Len(scores) >= 3 /\ \A i \in {Len(scores) - 1, Len(scores)} : Apart(scores[i], scores[i - 1]) < 50
\* The child leaves with 1; its cycle is a failure if its score is nought.
ChildDone ==
    /\ boot.stage = "child" /\ ImproveAt("down")
    /\ LET score == IF orch.scores = <<>> THEN 0 ELSE orch.scores[1]
           scores == Append(boot.scores, score) IN
       boot' = IF score = 0 THEN [BootEnd("failed", boot.cycle, 0) EXCEPT !.scores = scores]
               ELSE IF BootStill(scores) \/ boot.cycle = MaxCycles
                    THEN [BootEnd("completed", boot.cycle, score) EXCEPT !.scores = scores]
               ELSE [boot EXCEPT !.stage = "ready", !.scores = scores, !.heartbeat = Heartbeat("running", boot.cycle, score)]
    /\ UNCHANGED <<improveMode, orch, cycleOf, starts, baseline, archived, finished, executed, lost, lastSeen>>
ChildTimeout ==
    /\ boot.stage = "child" /\ ~ImproveAt("down")
    /\ cycleOf' = Down /\ boot' = BootEnd("failed", boot.cycle, 0)
    /\ UNCHANGED <<improveMode, orch, starts, baseline, archived, finished, executed, lost, lastSeen>>

ImproveNext ==
    \/ StartRun \/ ProbeHealth \/ RunBenchmarks \/ KeepBaseline \/ ArchiveBaseline \/ TruncateBaseline
    \/ SaveBaseline \/ BenchmarkRaises \/ Analyze \/ ApplyNext
    \/ RecordCycle \/ CheckConvergence \/ CycleFails \/ Die
    \/ EnsureGateway \/ BootCycle \/ ChildDone \/ ChildTimeout

ImproveSpec == ImproveInit /\ [][ImproveNext]_improveVars

\* ----------------------------------------------------------------- properties
\* An action is done at most once more than cycles were lost: what a recorded
\* cycle has applied is skipped by every later cycle, of this run of the loop
\* or of one started after a crash.  (The bootstrap resets the state file.)
Times(what) == Cardinality({i \in DOMAIN executed : executed[i] = what})
AppliedOnce == ~improveMode.boot => \A i \in DOMAIN executed : Times(executed[i]) <= 1 + lost

\* A baseline that can be read is the best of all runs compared with it and of
\* all baselines copied aside; and wherever the loop died, in the middle of
\* overwriting the baseline too, the best of the compared runs is still on disk,
\* as the baseline or as a copy.
Baselines == {baseline} \ {None, HalfWritten}
BaselineIsBest ==
    /\ \A b \in Baselines, s \in finished \cup archived : s <= b
    /\ finished # {} => \E best \in Baselines \cup archived : \A s \in finished : s <= best

\* What the loop's own description says of convergence: in the last recorded
\* cycle all cohorts met their minimum, no bottleneck was critical and all
\* services were healthy.
ConvergedMeans ==
    orch.converged /\ ImproveAt("down") =>
        /\ lastSeen.reports # None
        /\ \A i \in DOMAIN Suite : lastSeen.reports[i] # None /\ lastSeen.reports[i].accuracy >= Suite[i].minimum
        /\ \A b \in Bottlenecks(lastSeen.reports) : ~b.critical
        /\ lastSeen.health = {}

\* Cycles that die at any point leave the loop's records true: no action is
\* repeated that a recorded cycle applied, and the best run is never lost
\* (noerelay_self_improve.py _apply_actions, continuous_benchmark.py _update_baseline).
CyclesSound == AppliedOnce /\ BaselineIsBest
=============================================================================
