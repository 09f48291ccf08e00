------------------------------ MODULE Briefing -------------------------------
(***************************************************************************)
(* The model both exports are written from:                                *)
(* packages/export-model/src/model.ts.  Titles and notes are left out,     *)
(* except that a note longer than its budget refuses the whole model.      *)
(***************************************************************************)
EXTENDS Contract

CONSTANT SampleRequiredIds   \* names of the metrics only the pack gives

NoScenario == [baselineAnalysisId |-> NoPeriod, costChange |-> Zero, scope |-> WholeSource,
               defined |-> FALSE, metrics |-> <<>>, provenance |-> <<>>]

(* buildExportModel refuses what was computed from another table, or for   *)
(* another snapshot, and a source whose name is too long for its note.     *)
Stale(table, snapshot) == table.revision # snapshot.revision
Mismatched(scenario, snapshot) ==
    \/ scenario.baselineAnalysisId # snapshot.id
    \/ scenario.scope # snapshot.scope
ModelRefused(table, snapshot, hasScenario, scenario) ==
    \/ Stale(table, snapshot)
    \/ hasScenario /\ Mismatched(scenario, snapshot)
    \/ table.longName

IsSampleModel(snapshot) ==
    \A name \in SampleRequiredIds : HasId(snapshot.metrics, Id(name))
First(items, P(_)) ==
    LET found == SelectSeq(items, P) IN IF found = <<>> THEN <<>> ELSE <<found[1]>>
LeadFinding(findings) ==
    LET told == First(findings, LAMBDA f : f.kind \notin {"quality", "descriptive"})
    IN IF told # <<>> THEN told ELSE First(findings, LAMBDA f : TRUE)

(* baselineMarginOf: the metric outside the scenario that one of its       *)
(* proofs subtracts, times a hundred.                                      *)
BaselineMarginOf(scenario) ==
    LET own == IdsOf(scenario.metrics)
        compares(p) ==
            /\ p.expression.op = "multiply" /\ p.expression.right = Literal(Hundred)
            /\ p.expression.left.op = "subtract"
            /\ p.expression.left.left.op = "metric" /\ p.expression.left.left.metric \in own
            /\ p.expression.left.right.op = "metric"
            /\ p.expression.left.right.metric \notin own
    IN [i \in DOMAIN First(scenario.provenance, compares) |->
           First(scenario.provenance, compares)[i].expression.left.right.metric]

(* The bars of the baseline margin and of the scenario's.                  *)
ScenarioMarginId == ScenarioMetric("margin")
ScenarioChart(snapshot, scenario) ==
    LET baseline == BaselineMarginOf(scenario)
        drawn == /\ scenario.defined /\ baseline # <<>>
                 /\ HasId(scenario.metrics, ScenarioMarginId)
                 /\ HasId(snapshot.metrics, baseline[1])
                 /\ ById(snapshot.metrics, baseline[1]).defined
        bar(key, metrics, id) == Point(key, <<ValueOf(metrics, id)>>, <<id>>)
    IN IF ~drawn THEN <<>>
       ELSE <<Chart("chart-scenario", "scenario-bars", "ratio",
                    <<bar("baseline", snapshot.metrics, baseline[1]),
                      bar("scenario", scenario.metrics, ScenarioMarginId)>>, snapshot.scope)>>

(* The slides.  What a slide names and the model lacks is dropped.         *)
KpiIds(snapshot, merged) ==
    LET shown == SelectSeq(merged, LAMBDA m : m.defined /\ m.unit # "ratio")
        ids == [i \in DOMAIN shown |-> shown[i].id]
    IN IF IsSampleModel(snapshot)
       THEN <<RevenueId, CostId, Id("june-contribution"), Id("june-margin")>>
       ELSE SubSeq(ids, 1, IF Len(ids) < 4 THEN Len(ids) ELSE 4)
ScenarioIds(snapshot, scenario) ==
    LET told == SelectSeq(scenario.metrics,
                    LAMBDA m : m.id \in {ScenarioMarginId, ScenarioMetric("contribution")})
    IN IF IsSampleModel(snapshot)
       THEN <<Id("june-margin"), ScenarioMarginId, ScenarioMetric("contribution")>>
       ELSE BaselineMarginOf(scenario) \o [i \in DOMAIN told |-> told[i].id]
SlideDef(kind, metricIds, findingIds, chartIds) ==
    [kind |-> kind, metricIds |-> metricIds, findingIds |-> findingIds, chartIds |-> chartIds]
SlideDefs(snapshot, scenario, chart) ==
    LET lead == LeadFinding(snapshot.findings)
        leadIds == [i \in DOMAIN lead |-> lead[i].id]
        quality == First(snapshot.findings, LAMBDA f : f.kind = "quality")
        merged == snapshot.metrics \o scenario.metrics
    IN <<SlideDef("summary", <<>>, leadIds, <<>>),
         SlideDef("kpis", KpiIds(snapshot, merged), <<>>, <<>>),
         SlideDef("finding", IF lead = <<>> THEN <<>> ELSE lead[1].metricIds, leadIds,
                  IF lead = <<>> \/ lead[1].chartId = NoChart THEN <<>> ELSE <<lead[1].chartId>>)>>
       \o When(scenario.defined,
               SlideDef("scenario", ScenarioIds(snapshot, scenario), <<>>,
                        [i \in DOMAIN chart |-> chart[i].id]))
       \o <<SlideDef("quality", QualityIds, [i \in DOMAIN quality |-> quality[i].id], <<>>),
            SlideDef("methodology", <<>>, <<>>, <<>>)>>
SlidesOf(snapshot, scenario, defs, charts) ==
    LET known(ids, items) == SelectSeq(ids, LAMBDA id : HasId(items, id))
    IN [i \in DOMAIN defs |->
           [id |-> i, kind |-> defs[i].kind,
            metricIds |-> known(defs[i].metricIds, snapshot.metrics \o scenario.metrics),
            findingIds |-> known(defs[i].findingIds, snapshot.findings),
            chartIds |-> known(defs[i].chartIds, charts)]]
Slides(snapshot, scenario, chart, charts) ==
    SlidesOf(snapshot, scenario, SlideDefs(snapshot, scenario, chart), charts)

SheetIds == <<"summary", "clean", "quality", "kpis", "methodology">>
ExportId(snapshot, scenario) == [analysis |-> snapshot.id, scenario |-> scenario.defined,
                                 costChange |-> scenario.costChange]
BuildExportModel(table, snapshot, hasScenario, scenario) ==
    LET chart == ScenarioChart(snapshot, scenario)
        charts == snapshot.charts \o chart
    IN [exportId |-> ExportId(snapshot, scenario), analysisId |-> snapshot.id,
        scope |-> snapshot.scope, table |-> table, metrics |-> snapshot.metrics,
        findings |-> snapshot.findings, charts |-> charts,
        provenance |-> snapshot.provenance, qualitySummary |-> snapshot.qualitySummary,
        hasScenario |-> hasScenario, scenario |-> scenario,
        slides |-> Slides(snapshot, scenario, chart, charts),
        sheets |-> [i \in 1..5 |-> [id |-> SheetIds[i]]]]

(* numericParity: the k-th value of a point is that of its k-th metric.    *)
NumericParity(model) ==
    LET metrics == model.metrics \o model.scenario.metrics
        agrees(p, k) ==
            /\ k \in DOMAIN p.metricIds /\ HasId(metrics, p.metricIds[k])
            /\ LET m == ById(metrics, p.metricIds[k])
               IN m.defined /\ Compare(p.values[k], m.value) = 0
    IN \A i \in DOMAIN model.charts : \A j \in DOMAIN model.charts[i].points :
           LET p == model.charts[i].points[j] IN \A k \in DOMAIN p.values : agrees(p, k)
=============================================================================
