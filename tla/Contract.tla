------------------------------ MODULE Contract -------------------------------
(***************************************************************************)
(* What a document must satisfy: the checkers of contracts/src/semantics.ts.*)
(* A checker yields the rules that are broken, none when the document is   *)
(* accepted.  Hashes, versions, currencies and translation keys are not in *)
(* the documents of this model, so neither are the rules about them.       *)
(***************************************************************************)
EXTENDS Scenario

Rule(holds, name) == IF holds THEN {} ELSE {name}
UniqueIds(items) == Rule(IsInjective([i \in DOMAIN items |-> items[i].id]), "id.unique")
CheckScope(scope) ==
    Rule(scope.period = NoPeriod \/ scope.period.first <= scope.period.last,
         "scope.period.order")

-----------------------------------------------------------------------------
(* The normalized table                                                    *)

CheckCellValue(t, column) ==
    CASE t = NoText -> {}
      [] column.type \in {"text", "identifier"} -> Rule(t.kind # "flag", "cell.type")
      [] column.type = "boolean" -> Rule(t.kind = "flag", "cell.type")
      [] column.type = "date" -> Rule(t.kind = "date" /\ t.form # "padded", "cell.date")
      [] column.type \in {"decimal", "integer"} ->
            IF ~IsAmount(t) THEN {"cell.decimal"}
            ELSE Rule(column.type = "integer" => IsIntegerDecimal(t.dec), "cell.integer")
                 \cup Rule(SignificantDigits(t.dec) <= MaxInputDigits, "cell.significantDigits")
      [] OTHER -> {}
CheckIssue(q, table) ==
    Rule(q.fieldId = NoField \/ HasColumn(table, q.fieldId), "issue.fieldId")
    \cup Rule(q.canonicalSourceRow = NoRow \/ q.canonicalSourceRow \in DOMAIN table.rows,
              "issue.canonicalRow")
CheckNormalizedTable(table) ==
    UniqueIds(table.columns) \cup UniqueIds(table.qualityIssues)
    \cup (UNION {Rule(DOMAIN table.rows[r] = {table.columns[i].id : i \in DOMAIN table.columns},
                      "row.values.columns") : r \in DOMAIN table.rows})
    \cup (UNION {UNION {CheckCellValue(table.rows[r][f], ById(table.columns, f)) :
                           f \in DOMAIN table.rows[r]} : r \in DOMAIN table.rows})
    \cup (UNION {CheckIssue(table.qualityIssues[i], table) : i \in DOMAIN table.qualityIssues})

-----------------------------------------------------------------------------
(* Metrics, proofs, findings and charts                                    *)

(* The first span is compared with row 0, so that one from row 1 is        *)
(* refused.                                                                *)
CheckSpans(selection) ==
    LET spans == selection.spans
        last(i) == Max({0} \cup {spans[j].last : j \in 1..(i - 1)})
    IN (UNION {Rule(spans[i].first <= spans[i].last, "rowSpan.order")
               \cup Rule(spans[i].first > last(i) + 1, "rowSpan.canonical") : i \in DOMAIN spans})
       \cup Rule(Len(SelectionRows(spans)) = selection.rowCount, "rowSpan.count")
CheckContributing(selection, table) ==
    LET rows == IF CheckSpans(selection) = {} THEN Range(SelectionRows(selection.spans)) ELSE {}
    IN CheckSpans(selection)
       \cup Rule(rows \cap selection.excludedRowIds = {}, "selection.exclusion.contributing")
       \cup Rule(\A f \in selection.fieldIds : HasColumn(table, f), "selection.fieldId")
       \cup Rule(rows \subseteq DOMAIN table.rows, "selection.row.missing")

CheckOperandRef(t, pools) ==
    CASE t.op = "sum" -> Rule(t.selection \in pools.selections, "expression.selectionId.missing")
      [] t.op = "metric" -> Rule(t.metric \in pools.metrics, "expression.metricId.missing")
      [] t.op = "count-issues" ->
            Rule(Range(t.issueIds) \subseteq pools.issues, "expression.issueIds.missing")
      [] t.op = "literal" -> {}
CheckExpressionRefs(e, pools) == UNION {CheckOperandRef(t, pools) : t \in Leaves(e)}

IdsOf(items) == {items[i].id : i \in DOMAIN items}
CheckProofOf(p, table, revision, pools) ==
    LET status(t) == ById(table.qualityIssues, t).status
    IN Rule(p.revision = revision, "normalizationRevision.mismatch")
       \cup (UNION {CheckContributing(p.selections[i], table) : i \in DOMAIN p.selections})
       \cup Rule(p.transformIds \subseteq pools.issues, "transformId.missing")
       \cup Rule(\A t \in p.transformIds \cap pools.issues : status(t) = "resolved",
                 "transformId.resolved")
       \cup CheckExpressionRefs(p.expression, pools)
CheckMetricOf(m, proofs) ==
    Rule(m.defined => IsDecimal(m.value), "status.defined.value") \cup CheckScope(m.scope)
    \cup Rule(m.eligibleRows <= m.totalRows, "metric.rows")
    \cup IF ~HasId(proofs, m.proof) THEN {"metric.provenance.missing"}
         ELSE Rule(ById(proofs, m.proof).defined = m.defined, "metric.proofStatus")
CheckFinding(f, charts, proofIds, pools) ==
    CheckScope(f.scope)
    \cup Rule(Range(f.metricIds) \subseteq pools.metrics, "finding.metricId")
    \cup Rule(Range(f.provenanceIds) \subseteq proofIds, "finding.provenanceId")
    \cup Rule(f.qualityIssueIds \subseteq pools.issues, "finding.qualityIssueId")
    \cup Rule(f.chartId = NoChart \/ f.chartId \in IdsOf(charts), "finding.chartId")
    \cup Rule(IsDecimal(f.coverage) /\ IsDecimal(f.magnitude), "finding.rank")
CheckChart(c, proofIds, pools) ==
    CheckScope(c.scope)
    \cup Rule(\A i \in DOMAIN c.points : Range(c.points[i].metricIds) \subseteq pools.metrics,
              "chart.metricId")
    \cup Rule(~Less(c.max, Zero), "chart.domain")
    \cup Rule(Range(c.provenanceIds) \subseteq proofIds, "chart.provenanceId")

Bundle(metrics, proofs, findings, charts) ==
    [metrics |-> metrics, proofs |-> proofs, findings |-> findings, charts |-> charts]
NoBundle == Bundle(<<>>, <<>>, <<>>, <<>>)
CheckMetricBundle(bundle, merged, table, revision) ==
    LET selections == SelectionsOf(bundle.proofs)
        pools == [metrics |-> IdsOf(bundle.metrics) \cup IdsOf(merged.metrics),
                  selections |-> IdsOf(selections) \cup IdsOf(SelectionsOf(merged.proofs)),
                  issues |-> IdsOf(table.qualityIssues)]
        proofIds == IdsOf(bundle.proofs) \cup IdsOf(merged.proofs)
    IN UniqueIds(bundle.metrics) \cup UniqueIds(bundle.proofs)
       \cup UniqueIds(SelectionsOf(merged.proofs \o bundle.proofs))
       \cup (UNION {CheckProofOf(bundle.proofs[i], table, revision, pools) :
                       i \in DOMAIN bundle.proofs})
       \cup (UNION {CheckMetricOf(bundle.metrics[i], bundle.proofs) : i \in DOMAIN bundle.metrics})
       \cup UniqueIds(bundle.findings) \cup UniqueIds(bundle.charts)
       \cup (UNION {CheckFinding(bundle.findings[i], bundle.charts, proofIds, pools) :
                       i \in DOMAIN bundle.findings})
       \cup (UNION {CheckChart(bundle.charts[i], proofIds, pools) : i \in DOMAIN bundle.charts})

(* Each defined metric, recomputed, is what it and its proof state.        *)
CheckProofArithmetic(bundle, merged, table) ==
    LET ctx == EvalContext(table, merged.metrics \o bundle.metrics,
                           merged.proofs \o bundle.proofs)
        check(m) ==
            LET outcome == EvaluateMetric(m.id, ctx)
            IN IF ~outcome.defined THEN {"metric.evaluate"}
               ELSE Rule(HasId(bundle.proofs, m.proof) =>
                             Compare(outcome.value, ById(bundle.proofs, m.proof).result) = 0,
                         "proof.result.mismatch")
                    \cup Rule(Compare(outcome.value, m.value) = 0, "metric.value.mismatch")
    IN UNION {check(bundle.metrics[i]) : i \in {j \in DOMAIN bundle.metrics :
                                                   bundle.metrics[j].defined}}

-----------------------------------------------------------------------------
(* The snapshot and the scenario                                           *)

SnapshotBundle(s) == Bundle(s.metrics, s.provenance, s.findings, s.charts)
ScenarioBundle(s) == Bundle(s.metrics, s.provenance, <<>>, <<>>)
CheckAnalysisSnapshot(snapshot, table) ==
    CheckMetricBundle(SnapshotBundle(snapshot), NoBundle, table, snapshot.revision)
    \cup Rule(snapshot.revision = table.revision, "normalizationRevision.mismatch")
    \cup Rule(snapshot.qualitySummary = QualitySummaryOf(table), "qualitySummary")
    \cup CheckProofArithmetic(SnapshotBundle(snapshot), NoBundle, table)
CheckScenarioResult(scenario, snapshot, table) ==
    Rule(CostChangeAccepted(scenario.costChange), "scenario.bounds")
    \cup CheckScope(scenario.scope)
    \cup Rule(scenario.baselineAnalysisId = snapshot.id, "scenario.baseline")
    \cup Rule(scenario.scope = snapshot.scope, "scenario.scope")
    \cup Rule(BaselineDefined(snapshot), "scenario.requiresMetric")
    \cup Rule(BaselineDefined(snapshot) /\ scenario.defined => ~Disabled(snapshot),
              "scenario.disabled")
    \cup Rule(IdsOf(scenario.metrics) \cap IdsOf(snapshot.metrics) = {}, "id.unique")
    \cup CheckMetricBundle(ScenarioBundle(scenario), SnapshotBundle(snapshot), table,
                           snapshot.revision)
    \cup CheckProofArithmetic(ScenarioBundle(scenario), SnapshotBundle(snapshot), table)

-----------------------------------------------------------------------------
(* The export model                                                        *)

CheckSlides(model) ==
    LET committed == model.scenario.defined
        scenarioSlides == SelectSeq(model.slides, LAMBDA s : s.kind = "scenario")
        metricIds == IdsOf(model.metrics) \cup IdsOf(model.scenario.metrics)
        refs(s) == Rule(Range(s.metricIds) \subseteq metricIds, "slide.metricId")
                   \cup Rule(Range(s.findingIds) \subseteq IdsOf(model.findings), "slide.findingId")
                   \cup Rule(Range(s.chartIds) \subseteq IdsOf(model.charts), "slide.chartId")
    IN UniqueIds(model.slides)
       \cup Rule(Len(model.slides) = IF committed THEN 6 ELSE 5, "slides.count")
       \cup Rule(Len(scenarioSlides) = IF committed THEN 1 ELSE 0, "slides.scenario")
       \cup (UNION {refs(model.slides[i]) : i \in DOMAIN model.slides})
CheckExportModel(model) ==
    LET own == Bundle(model.metrics, model.provenance, model.findings, model.charts)
        scenario == ScenarioBundle(model.scenario)
    IN UniqueIds(model.sheets) \cup Rule(Len(model.sheets) = 5, "sheets.count")
       \cup CheckSlides(model)
       \cup CheckMetricBundle(own, scenario, model.table, model.table.revision)
       \cup IF ~model.hasScenario THEN {}
            ELSE Rule(model.scenario.baselineAnalysisId = model.analysisId,
                      "export.scenarioBaseline")
                 \cup CheckMetricBundle(scenario, own, model.table, model.table.revision)
=============================================================================
