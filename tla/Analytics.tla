----------------------------- MODULE Analytics -----------------------------
(***************************************************************************)
(* The reports over table runs: AnalyticsEngine and the handlers of        *)
(* /v1/analytics/.  A connection is in autocommit mode, so every query     *)
(* sees the rows of its own moment, and a report put together from several *)
(* queries sees the runs other threads save between them.  A report is the *)
(* figures read so far; what the handler makes of them once all are there  *)
(* (rates, order of the models) are the operators below the actions.       *)
(***************************************************************************)
EXTENDS Absence, Integers, FiniteSets, Sequences, Functions

CONSTANTS
    ReportedRuns,   \* the runs there are and those the other threads begin
    Histories,      \* tables the gateway may find when it starts
    FirstCosts,     \* actual_cost_usd after a first attempt, in micro-dollars
    Outcomes,       \* what issue_receipt saves: status, model and cost
    Spans,          \* from and to of a request, as hours; None for no limit
    DayHours,       \* hours of a day
    TrendDays,      \* days a trend goes back
    PeakDays,       \* days the peak hours are looked for in
    PeakRows,       \* peak hours that are listed
    FirstHour,      \* hour the gateway starts in, counted from some midnight
    LastHour        \* bound: the last hour there is

\* A run that is still pending has no model yet; costs are whole, and None is no row.
SavedRows ==
    [status : {"pending"} \cup {o.status : o \in Outcomes}, model : {None} \cup {o.model : o \in Outcomes},
     cost : Nat, review : BOOLEAN, rework : BOOLEAN, at : Int]
ASSUME AnalyticsAssumption ==
    /\ IsFiniteSet(ReportedRuns) /\ None \notin SavedRows
    /\ FirstCosts \subseteq Nat /\ DayHours \in Nat \ {0} /\ {TrendDays, PeakDays, PeakRows, FirstHour} \subseteq Nat
    /\ \A o \in Outcomes : o.cost \in Nat /\ o.status # "pending"
    /\ \A s \in Spans : s.from \in {None} \cup Int /\ s.to \in {None} \cup Int
    /\ \A h \in Histories :
         /\ h = [k \in ReportedRuns |-> h[k]]
         /\ \A k \in ReportedRuns : h[k] # None =>
              /\ h[k].cost \in Nat /\ h[k].review \in BOOLEAN /\ h[k].rework \in BOOLEAN
              /\ h[k].at \in Int /\ h[k].at <= FirstHour
              /\ h[k].status = "pending" => h[k].model = None

VARIABLES
    runTable,   \* table runs, None where there is no row
    hour,       \* datetime.now(timezone.utc), in hours
    reading     \* the report under way: its kind, span and figures; the table when it was asked
                \* for and whether no run was saved since are remembered for the properties

analyticsVars == <<runTable, hour, reading>>

AnalyticsInit ==
    /\ runTable \in Histories
    /\ hour = FirstHour
    /\ reading = None

\* ---- the runs, as DatabaseRunRegistry saves them; each save renews created_at
SavedRow(status, model, cost, review, rework) ==
    [status |-> status, model |-> model, cost |-> cost, review |-> review, rework |-> rework, at |-> hour]

Disturbed == IF reading = None THEN None ELSE [reading EXCEPT !.calm = FALSE]

BeginReported(k) ==
    /\ runTable[k] = None
    /\ runTable' = [runTable EXCEPT ![k] = SavedRow("pending", None, 0, FALSE, FALSE)]
    /\ reading' = Disturbed
    /\ UNCHANGED hour

\* Mutant of MarkReported: a run is marked although its receipt is out.
MarkLate(k, cost, review, rework) ==
    /\ runTable[k] # None
    /\ runTable' = [runTable EXCEPT ![k] = SavedRow("pending", None, cost, review, rework)]
    /\ reading' = Disturbed
    /\ UNCHANGED hour

\* record_human_intervention or record_rework: one flag is set, the other and
\* the cost are the record's. A record that was evicted after its own mark and
\* read back before the save has lost a flag the row or the pipeline had set.
MarkReported(k, cost, review, rework) ==
    LET row == runTable[k] IN
    /\ row # None /\ row.status = "pending"
    /\ review \/ rework
    /\ (review /\ rework) => (row.review \/ row.rework)
    /\ runTable' = [runTable EXCEPT ![k] = SavedRow("pending", None, cost, review, rework)]
    /\ reading' = Disturbed
    /\ UNCHANGED hour

\* issue_receipt: the last save of a run, with the flags its record has left.
SettleReported(k, outcome, review, rework) ==
    LET row == runTable[k] IN
    /\ row # None /\ row.status = "pending"
    /\ review => row.review
    /\ rework => row.rework
    /\ runTable' = [runTable EXCEPT ![k] = SavedRow(outcome.status, outcome.model, outcome.cost, review, rework)]
    /\ reading' = Disturbed
    /\ UNCHANGED hour

HourPasses ==
    /\ hour < LastHour
    /\ hour' = hour + 1
    /\ UNCHANGED <<runTable, reading>>

\* ---- queries
\* _build_where: created_at between from and to.
Within(row, span) ==
    /\ span.from = None \/ row.at >= span.from
    /\ span.to = None \/ row.at <= span.to

RowsIn(table, span) == {k \in ReportedRuns : table[k] # None /\ Within(table[k], span)}

DayOf(at) == at \div DayHours
Recent(row, now) == row.at >= now - TrendDays * DayHours    \* created_at >= _days_ago(30)

\* The condition a query adds to the span.
Condition(query, row, now) ==
    /\ query \in {"accepted", "escalated"} => row.status = query
    /\ query = "review" => row.review
    /\ query = "rework" => row.rework
    /\ query = "cost_today" => DayOf(row.at) = DayOf(now)
    /\ query = "trend" => Recent(row, now)

\* COUNT(*) and COALESCE(SUM(actual_cost_usd), 0).
Tally(table, keys) ==
    [count |-> Cardinality(keys), cost |-> SumFunction([k \in keys |-> table[k].cost]),
     accepted |-> Cardinality({k \in keys : table[k].status = "accepted"})]

\* GROUP BY a column: a tally for each value that occurs; by_model leaves out NULL.
Grouped(table, keys, column) ==
    LET value(k) == [by_model |-> table[k].model, by_status |-> table[k].status, by_day |-> DayOf(table[k].at),
                     trend |-> DayOf(table[k].at), by_hour |-> table[k].at, peak |-> table[k].at][column]
        values == {value(k) : k \in keys} \ (IF column = "by_model" THEN {None} ELSE {})
    IN [v \in values |-> Tally(table, {k \in keys : value(k) = v})]

\* ORDER BY run_count DESC LIMIT 10; of equally busy hours the earlier comes first.
Busier(groups, h) ==
    {g \in DOMAIN groups : groups[g].count > groups[h].count \/ (groups[g].count = groups[h].count /\ g < h)}
Busiest(groups) == Restrict(groups, {h \in DOMAIN groups : Cardinality(Busier(groups, h)) < PeakRows})

Groupings == {"by_model", "by_status", "by_day", "trend", "by_hour", "peak"}
Queried(query, table, now, span) ==
    LET keys == {k \in RowsIn(table, span) : Condition(query, table[k], now)} IN
    IF query = "peak" THEN Busiest(Grouped(table, keys, query))
    ELSE IF query \in Groupings THEN Grouped(table, keys, query) ELSE Tally(table, keys)

\* ---- the reports: their queries, in the order they are made
CostSummary(column) == <<"total", column>>
CostTrend == <<"trend">>
CostBreakdown == <<"total", "accepted", "rework", "review", "escalated">>
ModelPerformance == <<"by_model">>
ModelComparison == <<"by_model">>
UsageSummary == <<"total", "by_status">>
UsageTrend == <<"trend">>
PeakUsage == <<"peak", "by_hour">>      \* the busiest hours, then all of them
UsageByModel == <<"by_model">>
EscalationSummary == <<"total", "review", "rework", "escalated">>
EscalationTrend == <<"trend">>
DashboardData ==
    <<"total", "accepted", "review", "rework", "cost_today">>
        \o CostTrend \o UsageTrend \o ModelPerformance \o EscalationSummary

\* What the actions of each endpoint come to.
CostReports ==
    [cost_model |-> CostSummary("by_model"), cost_day |-> CostSummary("by_day"),
     cost_trend |-> CostTrend, breakdown |-> CostBreakdown]
PerformanceReports == [performance |-> ModelPerformance, comparison |-> ModelComparison]
UsageReports ==
    [usage |-> UsageSummary, usage_trend |-> UsageTrend, peak |-> PeakUsage, usage_model |-> UsageByModel]
EscalationReports == [escalations |-> EscalationSummary, escalation_trend |-> EscalationTrend]
DashboardReports == [dashboard |-> DashboardData]
AllOf(f, g) == [kind \in DOMAIN f \cup DOMAIN g |-> IF kind \in DOMAIN f THEN f[kind] ELSE g[kind]]
Figures == AllOf(CostReports, AllOf(PerformanceReports, AllOf(UsageReports, AllOf(EscalationReports, DashboardReports))))

\* The reports whose request has a span. Peak hours are looked for since the
\* moment of the report, a trend since that of its query; the others are over all runs.
Spanned == {"cost_model", "cost_day", "breakdown", "usage", "usage_model", "escalations"}
AllTime == [from |-> None, to |-> None]
PeakSpan == [from |-> hour - PeakDays * DayHours, to |-> None]
SpansOf(kind) == IF kind = "peak" THEN {PeakSpan} ELSE IF kind \in Spanned THEN Spans ELSE {AllTime}

\* A handler chooses the report by the endpoint and the request's action.
AskReport(kind, span) ==
    /\ reading = None
    /\ reading' = [kind |-> kind, span |-> span, figures |-> <<>>, asked |-> runTable, calm |-> TRUE]
    /\ UNCHANGED <<runTable, hour>>

AllRead == Len(reading.figures) = Len(Figures[reading.kind])

\* _query and _query_one: the next query of the report.
ReadFigure ==
    /\ reading # None /\ ~AllRead
    /\ LET query == Figures[reading.kind][Len(reading.figures) + 1] IN
       /\ query = "by_hour" => DOMAIN reading.figures[1] # {}      \* peak_usage: if not rows
       /\ reading' = [reading EXCEPT !.figures = Append(@, Queried(query, runTable, hour, reading.span))]
    /\ UNCHANGED <<runTable, hour>>

\* The handler answers, or a query raised and it answers 500.
AnswerReport ==
    /\ reading # None
    /\ reading' = None
    /\ UNCHANGED <<runTable, hour>>

AnalyticsNext ==
    \/ \E k \in ReportedRuns :
         \/ BeginReported(k)
         \/ \E cost \in FirstCosts, review, rework \in BOOLEAN : MarkReported(k, cost, review, rework)
         \/ \E outcome \in Outcomes, review, rework \in BOOLEAN : SettleReported(k, outcome, review, rework)
    \/ HourPasses
    \/ \E kind \in DOMAIN Figures : \E span \in SpansOf(kind) : AskReport(kind, span)
    \/ ReadFigure
    \/ AnswerReport

AnalyticsSpec == AnalyticsInit /\ [][AnalyticsNext]_analyticsVars

-----------------------------------------------------------------------------
(* What a handler makes of the figures.                                     *)

\* round(100 * n / total, 1), in tenths of a percent; 0.0 for no runs.
PercentOf(n, total) == IF total = 0 THEN 0 ELSE (2000 * n + total) \div (2 * total)

\* round(avg_cost_usd / (accuracy / 100), 6), with the accuracy as it was rounded.
TrueCostPerCorrect(f) ==
    LET accuracy == PercentOf(f.accepted, f.count) IN
    IF accuracy = 0 THEN 0 ELSE (2000 * f.cost + f.count * accuracy) \div (2 * f.count * accuracy)

\* model_ranking by true_cost: the models before each, and those of one key stay
\* in the order of the query, by number of runs.
Ahead(g, f) ==
    \/ TrueCostPerCorrect(g) < TrueCostPerCorrect(f)
    \/ TrueCostPerCorrect(g) = TrueCostPerCorrect(f) /\ g.count > f.count
ModelRanking(groups) ==
    [m \in DOMAIN groups |-> 1 + Cardinality({n \in DOMAIN groups : Ahead(groups[n], groups[m])})]

-----------------------------------------------------------------------------
FiguresOf(query) == {i \in DOMAIN reading.figures : Figures[reading.kind][i] = query}
GroupSum(groups) == SumFunction([v \in DOMAIN groups |-> groups[v].count])

RecentRuns == Cardinality({k \in RowsIn(runTable, reading.span) : Recent(runTable[k], hour)})

\* A report no run was saved during is one picture of the table: groups by
\* status or day add up to the totals, those by model to no more; the days of a
\* trend add up to no more either, and to no less than the runs that are still
\* in its window, whatever hours pass; the parts of the cost are parts, and the
\* dashboard's two totals are the same; peak hours are hours of the average,
\* and none left out is busier.
OnePicture ==
    (reading # None /\ reading.calm) =>
        /\ \A i \in FiguresOf("peak"), j \in FiguresOf("by_hour") :
            LET peak == reading.figures[i]
                hours == reading.figures[j]
            IN /\ \A h \in DOMAIN peak : h \in DOMAIN hours /\ peak[h] = hours[h]
               /\ \A h \in DOMAIN peak, g \in DOMAIN hours \ DOMAIN peak : hours[g].count <= peak[h].count
        /\ \A i \in FiguresOf("total"), j \in DOMAIN reading.figures :
            LET whole == reading.figures[i]
                query == Figures[reading.kind][j]
                part == reading.figures[j]
            IN IF query \in Groupings
               THEN /\ query \in {"by_status", "by_day"} => GroupSum(part) = whole.count
                    /\ query \in {"by_model", "trend"} => GroupSum(part) <= whole.count
                    /\ query = "trend" => RecentRuns <= GroupSum(part)
               ELSE /\ part.count <= whole.count /\ part.cost <= whole.cost
                    /\ query = "total" => part = whole
                    /\ \A l \in FiguresOf("accepted"), e \in FiguresOf("escalated") :
                         reading.figures[l].cost + reading.figures[e].cost <= whole.cost

\* With runs saved in between, a figure is still one the table had while the
\* report was made: a settled run never leaves a count, nor does any
\* run leave one that has no last hour; a run that is still under way may leave
\* a span that ends before it is saved again, its cost may fall and its flags
\* may be lost.
FiguresBracketed ==
    reading # None =>
        \A i \in DOMAIN reading.figures :
            LET query == Figures[reading.kind][i]
                figure == reading.figures[i]
                before == Queried(query, reading.asked, hour, reading.span)
                now == Queried(query, runTable, hour, reading.span)
            IN /\ (query \in {"accepted", "escalated"}) =>
                    /\ before.count <= figure.count /\ figure.count <= now.count
                    /\ before.cost <= figure.cost /\ figure.cost <= now.cost
               /\ (query = "total" /\ reading.span.to = None) =>
                    before.count <= figure.count /\ figure.count <= now.count
               /\ (query = "by_model" /\ reading.span.to = None) =>
                    \A m \in DOMAIN figure : m \in DOMAIN now /\ figure[m].count <= now[m].count

\* A model whose accepted answers cost less each, failed attempts included,
\* ranks before one whose answers cost more. The rounding of the accuracy may
\* swap two within two percent and a micro-dollar of each other, and more than
\* that where less than a tenth of a model's runs is accepted.
CheaperByFar(f, g) ==
    /\ 10 * f.accepted >= f.count /\ 10 * g.accepted >= g.count
    /\ 102 * (f.cost + f.accepted) * g.accepted <= 100 * g.cost * f.accepted
RankedByTrueCost ==
    reading # None =>
        \A i \in FiguresOf("by_model") :
            LET groups == reading.figures[i]
                place == ModelRanking(groups)
            IN \A m, n \in DOMAIN groups : CheaperByFar(groups[m], groups[n]) => place[m] < place[n]

\* The figures of a report, the dashboard's among them, come from several
\* statements: what holds of them whatever is saved in between.
FiguresSound == OnePicture /\ FiguresBracketed /\ RankedByTrueCost
=============================================================================
