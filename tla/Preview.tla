------------------------------- MODULE Preview -------------------------------
(***************************************************************************)
(* The preview of the two reports on the screen:                           *)
(* apps/web/src/briefing/SlidePreview.tsx, which SlidePreview and          *)
(* WorkbookPreview draw from the export model and not from the deck or the *)
(* workbook.  A slide is again what it shows: its lines, chart, bars and   *)
(* source rows.  Titles, captions, directions and notes are left out.      *)
(***************************************************************************)
EXTENDS Deck, Display

CONSTANTS PreviewLines,    \* lines of a list of metrics
          PreviewKpis,     \* figures of the KPI slide
          PreviewPoints,   \* points of a chart
          MarkTrack        \* the highest mark, in percent

ASSUME PreviewAssumption ==
    {PreviewLines, PreviewKpis, PreviewPoints, MarkTrack} \subseteq Nat \ {0}

(* MiniChart: marks over the first points, on a scale of one at least.     *)
ChartTop(chart) == IF Less(chart.max, Whole(1)) THEN Whole(1) ELSE chart.max
OnTrack(height) ==
    IF Less(height, Zero) THEN Zero
    ELSE IF Less(Whole(MarkTrack), height) THEN Whole(MarkTrack) ELSE height
MarkHeight(value, chart) ==
    OnTrack(DivideDecimal(MultiplyDecimal(value, Whole(MarkTrack)), ChartTop(chart)))
MiniChart(chart) ==
    LET points == AtMost(chart.points, PreviewPoints)
    IN [chart |-> chart.id,
        bars |-> [i \in DOMAIN points |-> points[i].values],
        marks |-> [i \in DOMAIN points |->
                      [k \in DOMAIN points[i].values |-> MarkHeight(points[i].values[k], chart)]]]
ChartShown(model, slide) ==
    LET ids == Known(slide.chartIds, model.charts)
    IN [i \in 1..Min({1, Len(ids)}) |-> MiniChart(ById(model.charts, ids[i]))]

MetricList(metrics, limit) ==
    LET listed == AtMost(metrics, limit) IN [i \in DOMAIN listed |-> Line(listed[i])]
OwnMetrics(model, ids) ==
    LET known == Known(ids, model.metrics)
    IN [i \in DOMAIN known |-> ById(model.metrics, known[i])]

(* The bodies by kind: the finding is one the slide names, its figures     *)
(* those of the analysis; a body without it lists those of the slide.      *)
PreviewFinding(model, slide) ==
    LET ids == Known(slide.findingIds, model.findings)
    IN [i \in 1..Min({1, Len(ids)}) |-> ById(model.findings, ids[i])]
SummaryBody(model, metrics, finding) ==
    LET evidence == IF finding = <<>> THEN <<>> ELSE OwnMetrics(model, finding[1].metricIds)
    IN MetricList(IF metrics # <<>> THEN metrics ELSE evidence, PreviewLines)
FindingBody(model, metrics, finding) ==
    MetricList(IF finding = <<>> THEN metrics ELSE OwnMetrics(model, finding[1].metricIds),
               PreviewLines)
KpiBody(metrics) == MetricList(metrics, PreviewKpis)
ScenarioBody(model, metrics) ==
    IF model.hasScenario THEN MetricList(metrics, PreviewLines) ELSE <<>>
QualityBody(model) == [lines |-> QualityTrackMetrics(model), bars |-> QualityBars(model)]
MethodologyBody(model) ==
    [lines |-> VerifiedLines(model), spans |-> SpanTokensForModel(model, 3)]

(* SlidePreview: a metric of the scenario stands before one of the         *)
(* analysis of the same id.                                                *)
PreviewOf(model, slide, metrics, finding, drawn) ==
    LET body(lines, chart, bars, spans) ==
            [kind |-> slide.kind, lines |-> lines, chart |-> chart, bars |-> bars,
             spans |-> spans, folio |-> slide.id]
    IN CASE slide.kind = "summary" ->
              body(SummaryBody(model, metrics, finding), <<>>, LineageBars(model), <<>>)
         [] slide.kind = "kpis" -> body(KpiBody(metrics), <<>>, <<>>, <<>>)
         [] slide.kind = "finding" ->
              body(FindingBody(model, metrics, finding), drawn, <<>>, <<>>)
         [] slide.kind = "scenario" ->
              body(ScenarioBody(model, metrics),
                   IF model.hasScenario THEN drawn ELSE <<>>, <<>>, <<>>)
         [] slide.kind = "quality" ->
              body(QualityBody(model).lines, <<>>, QualityBody(model).bars, <<>>)
         [] OTHER ->
              body(MethodologyBody(model).lines, <<>>, <<>>, MethodologyBody(model).spans)
PreviewMetrics(all, ids) == [i \in DOMAIN Known(ids, all) |-> ById(all, Known(ids, all)[i])]
SlidePreview(model, slide) ==
    PreviewOf(model, slide,
              PreviewMetrics(model.scenario.metrics \o model.metrics, slide.metricIds),
              PreviewFinding(model, slide), ChartShown(model, slide))

(* WorkbookPreview: the sheets, the rows that are kept and all there were. *)
WorkbookPreview(model) ==
    [sheets |-> [i \in DOMAIN model.sheets |-> model.sheets[i].id],
     retained |-> model.qualitySummary.retainedRows, raw |-> model.qualitySummary.rawRows]
=============================================================================
