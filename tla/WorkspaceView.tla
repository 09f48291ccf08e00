---------------------------- MODULE WorkspaceView ----------------------------
(***************************************************************************)
(* What the workspace draws of a snapshot and a scenario:                  *)
(* workspace/KpiStrip.tsx, findingCopy.ts, stageModel.ts and the axes of   *)
(* packages/charts/src/model.ts.                                           *)
(***************************************************************************)
EXTENDS Briefing, Display

CONSTANT MaxStrip    \* MAX_KPIS of the strip

ASSUME WorkspaceViewAssumption == MaxStrip \in Nat \ {0}

(* headlineMetrics: those the first two findings claim, then the others.   *)
Claimed(snapshot) ==
    LET lead == SubSeq(snapshot.findings, 1, Min({2, Len(snapshot.findings)}))
    IN UNION {Range(f.metricIds) : f \in Range(lead)}
HeadlineMetrics(snapshot) ==
    LET ordered == SelectSeq(snapshot.metrics, LAMBDA m : m.id \in Claimed(snapshot))
                   \o SelectSeq(snapshot.metrics, LAMBDA m : m.id \notin Claimed(snapshot))
    IN SubSeq(ordered, 1, Min({MaxStrip, Len(ordered)}))

(* findingBody: the figures its text has places for.  One that is not      *)
(* claimed by the finding or has no value leaves its place as written.     *)
ParamPlan(body) ==
    CASE body = "north" -> {"north-target-gap", "north-orders-change"}
      [] body = "downtime" ->
            {"north-downtime-change", "north-may-downtime", "north-june-downtime"}
      [] body \in {"applied", "pending"} ->
            {"quality-duplicate", "quality-category", "quality-missing"}
      [] OTHER -> {}
Resolved(snapshot, finding) ==
    {name \in ParamPlan(finding.bodyKey) :
        /\ HasId(snapshot.metrics, Id(name)) /\ ById(snapshot.metrics, Id(name)).defined
        /\ Id(name) \in Range(finding.metricIds)}

(* The chart of the selected finding, or the first; none for a finding     *)
(* without a chart.  Of the points that show its figures one is marked,    *)
(* the last where the points are months.                                   *)
HeroChart(snapshot, finding) ==
    LET own == First(snapshot.charts, LAMBDA c : c.id = finding.chartId)
    IN IF finding.chartId = NoChart THEN <<>>
       ELSE IF own # <<>> THEN own ELSE First(snapshot.charts, LAMBDA c : TRUE)
EmphasisKeyFor(chart, finding) ==
    LET matches == SelectSeq(chart.points, LAMBDA p :
                       Range(p.metricIds) \cap Range(finding.metricIds) # {})
    IN [i \in 1..Min({1, Len(matches)}) |->
           matches[IF chart.kind = "bars" THEN Len(matches) ELSE 1].key]

(* scenarioChartSpec: the margin before and after, over one and a half     *)
(* times the margin before; nothing is drawn over a margin of none.        *)
MarginOf(metrics) == SelectSeq(metrics, LAMBDA m : m.id \in {Id("june-margin"), ScenarioMarginId})
Plot(values, least, most) == [values |-> values, min |-> least, max |-> most]
ScenarioPlot(snapshot, scenario) ==
    LET before == MarginOf(snapshot.metrics)
        after == MarginOf(scenario.metrics)
        drawn == /\ before # <<>> /\ after # <<>>
                 /\ before[1].defined /\ after[1].defined
                 /\ before[1].unit = "ratio" /\ after[1].unit = "ratio"
                 /\ Less(Zero, before[1].value)
    IN When(drawn, Plot(<<before[1].value, after[1].value>>, Zero,
                        MultiplyDecimal(before[1].value, Dec(FALSE, 15, 1))))
ChartPlot(chart) ==
    Plot(FlattenSeq([i \in DOMAIN chart.points |-> chart.points[i].values]), Zero, chart.max)

(* prepareChart: the axis of a bar chart takes in zero and every value,    *)
(* and is never of no length.                                              *)
Least(values) == FoldLeft(LAMBDA a, v : IF Less(v, a) THEN v ELSE a, values[1], values)
Most(values) == FoldLeft(LAMBDA a, v : IF Less(a, v) THEN v ELSE a, values[1], values)
Declared(plot) == [min |-> plot.min, max |-> plot.max]
PrepareChart(plot) ==
    LET from == Least(<<plot.min, Zero>> \o plot.values)
        to == Most(<<plot.max, Zero>> \o plot.values)
        pad == IF IsZeroDecimal(from) THEN Whole(1)
               ELSE MultiplyDecimal(AbsDecimal(from), Dec(FALSE, 1, 1))
    IN IF Compare(from, to) = 0
       THEN [min |-> SubtractDecimal(from, pad), max |-> AddDecimal(to, pad)]
       ELSE [min |-> from, max |-> to]
=============================================================================
