-------------------------------- MODULE Deck ---------------------------------
(***************************************************************************)
(* The presentation of a model: packages/export-pptx/src/presentation.ts   *)
(* and layouts.ts.  A slide is drawn as what it shows: the lines of its    *)
(* metrics, its chart, the bars it draws to scale and the source rows it   *)
(* names.  Geometry, colours and the fit of a text in its box are left out.*)
(***************************************************************************)
EXTENDS Briefing

CONSTANTS MaxLines,     \* metrics of a finding that a slide can list
          MaxKpis,      \* metrics of the slide of figures
          MaxPoints     \* points of a chart

Known(ids, items) == SelectSeq(ids, LAMBDA id : HasId(items, id))
AllMetrics(model) == model.metrics \o model.scenario.metrics
Line(m) == [metric |-> m.id, shown |-> m.defined, value |-> m.value]
Lines(model, ids) ==
    LET known == Known(ids, AllMetrics(model))
    IN [i \in DOMAIN known |-> Line(ById(AllMetrics(model), known[i]))]

(* chartBox: a chart of no points or of too many is refused.               *)
Drawable(chart) == Len(chart.points) \in 1..MaxPoints
ChartBox(model, slide) ==
    LET ids == Known(slide.chartIds, model.charts)
    IN IF ids = <<>> THEN <<>>
       ELSE LET chart == ById(model.charts, ids[1])
            IN <<[chart |-> chart.id, max |-> chart.max,
                  bars |-> [i \in DOMAIN chart.points |-> chart.points[i].values]]>>

(* The rows a slide names: of a finding the first two distinct spans and   *)
(* how many more there are, else of the first proof with a selection.      *)
SpansOf(proof) == FlattenSeq([i \in DOMAIN proof.selections |-> proof.selections[i].spans])
Distinct(spans) ==
    LET first == SelectSeq([i \in DOMAIN spans |-> i],
                     LAMBDA i : \A j \in 1..i - 1 : spans[j] # spans[i])
    IN [k \in DOMAIN first |-> spans[first[k]]]
FirstTwo(tokens) == [spans |-> AtMost(tokens, 2), more |-> Max({0, Len(tokens) - 2})]
FindingSpans(model, ids) ==
    FlattenSeq([i \in DOMAIN ids |-> SpansOf(ById(model.provenance, ids[i]))])
FindingSpanTokens(model, finding) ==
    FirstTwo(Distinct(FindingSpans(model, Known(finding.provenanceIds, model.provenance))))
SpanTokensForModel(model, maxSpans) ==
    LET with == SelectSeq(model.provenance, LAMBDA p : SpansOf(p) # <<>>)
        spans == IF with = <<>> THEN <<>> ELSE SpansOf(with[1])
    IN SubSeq(spans, 1, IF Len(spans) < maxSpans THEN Len(spans) ELSE maxSpans)
NoSpans == [spans |-> <<>>, more |-> 0]
FooterContent(model, slide) ==
    LET ids == Known(slide.findingIds, model.findings)
    IN IF ids = <<>> THEN NoSpans ELSE FindingSpanTokens(model, ById(model.findings, ids[1]))

(* The slides by kind.                                                     *)
Bar(length, track) == [length |-> length, track |-> track]
Shown(slide, lines, chart, bars, footer) ==
    [kind |-> slide.kind, lines |-> lines, chart |-> chart, bars |-> bars, footer |-> footer]
FindingShown(model, slide) ==
    LET ids == Known(slide.findingIds, model.findings)
    IN IF ids # <<>> THEN <<ById(model.findings, ids[1])>>
       ELSE IF slide.kind = "summary" THEN First(model.findings, LAMBDA f : TRUE) ELSE <<>>
FindingLines(model, slide) ==
    LET finding == FindingShown(model, slide)
    IN IF finding = <<>> THEN <<>> ELSE Lines(model, finding[1].metricIds)
QualityTrackMetrics(model) == Lines(model, QualityIds)
QualityBars(model) ==
    LET trio == QualityTrackMetrics(model)
        count(i) == trio[i].value.coefficient
        peak == Max({1} \cup {count(i) : i \in DOMAIN trio})
    IN [i \in DOMAIN trio |-> Bar(count(i), peak)]
LineageBars(model) == <<Bar(model.qualitySummary.retainedRows, model.qualitySummary.rawRows)>>
ScenarioNames == <<ScenarioMetric("cost"), ScenarioMetric("contribution"), ScenarioMarginId>>
(* The figures of the first two proofs.                                    *)
VerifiedLines(model) ==
    LET shown == SubSeq(model.provenance, 1, IF Len(model.provenance) < 2
                                             THEN Len(model.provenance) ELSE 2)
        of(p) == First(model.metrics, LAMBDA m : m.proof = p.id)
    IN FlattenSeq([i \in DOMAIN shown |-> [k \in DOMAIN of(shown[i]) |-> Line(of(shown[i])[k])]])
Render(model, slide) ==
    LET footer == FooterContent(model, slide)
    IN CASE slide.kind = "summary" ->
              Shown(slide, FindingLines(model, slide), <<>>, LineageBars(model), footer)
         [] slide.kind = "kpis" ->
              Shown(slide, Lines(model, slide.metricIds), <<>>, <<>>, footer)
         [] slide.kind = "finding" ->
              Shown(slide, FindingLines(model, slide), ChartBox(model, slide), <<>>, footer)
         [] slide.kind = "scenario" ->
              Shown(slide, Lines([model EXCEPT !.metrics = <<>>], ScenarioNames),
                    ChartBox(model, slide), <<>>, footer)
         [] slide.kind = "quality" ->
              Shown(slide, QualityTrackMetrics(model), <<>>, QualityBars(model), footer)
         [] slide.kind = "methodology" ->
              Shown(slide, VerifiedLines(model), <<>>, <<>>,
                    [spans |-> SpanTokensForModel(model, 3), more |-> 0])

DeckRefused(model) ==
    \/ CheckExportModel(model) # {}
    \/ \E i \in DOMAIN model.slides :
          LET slide == model.slides[i]
              finding == FindingShown(model, slide)
          IN \/ slide.kind = "kpis" /\ Len(Known(slide.metricIds, AllMetrics(model))) > MaxKpis
             \/ /\ slide.kind \in {"summary", "finding"} /\ finding # <<>>
                /\ Len(finding[1].metricIds) > MaxLines
             \/ /\ slide.kind \in {"finding", "scenario"}
                /\ \E id \in Range(slide.chartIds) :
                      HasId(model.charts, id) /\ ~Drawable(ById(model.charts, id))
BuildPresentation(model) ==
    [exportId |-> model.exportId,
     slides |-> [i \in DOMAIN model.slides |-> Render(model, model.slides[i])]]
=============================================================================
