------------------------------ MODULE Workbook -------------------------------
(***************************************************************************)
(* The spreadsheet of a model: packages/export-xlsx/src/workbook.ts.  A    *)
(* sheet is the sequence of its rows after the header, so that entry k is  *)
(* in row k + 1.  Styles, widths and labels are left out.                  *)
(***************************************************************************)
EXTENDS Briefing

CONSTANT MaxExportRows   \* MAX_EXPORT_DATA_ROWS

WorkbookRefused(model) ==
    \/ Cardinality(DOMAIN model.table.rows) > MaxExportRows
    \/ CheckExportModel(model) # {}

(* The methodology: ten fixed rows, then one for each proof.               *)
FixedRows == 10
MethodRows(model) ==
    [k \in 1..FixedRows |-> Id("method")]
        \o [i \in DOMAIN model.provenance |-> model.provenance[i].id]
ProofRow(model, id) ==
    FixedRows + 1 + Max({i \in DOMAIN model.provenance : model.provenance[i].id = id})
ProofLink(model, id) == IF HasId(model.provenance, id) THEN ProofRow(model, id) ELSE 0

(* The cleaned data.  A decimal of many digits stays a text.               *)
NumberCell(dec) == [type |-> "number", dec |-> dec]
TextCell == [type |-> "text", dec |-> Zero]
ToSheetValue(t, column) ==
    IF column.type = "date" /\ t.kind = "date" /\ t.form # "padded" THEN NumberCell(t.dec)
    ELSE IF IsAmount(t) /\ SignificantDigits(t.dec) <= MaxNumberDigits THEN NumberCell(t.dec)
    ELSE TextCell
CleanRows(model) ==
    LET rows == RowsIn(DOMAIN model.table.rows)
        fields == IdsOf(model.table.columns)
    IN [k \in DOMAIN rows |->
           [sourceRow |-> rows[k], texts |-> model.table.rows[rows[k]],
            cells |-> [f \in fields |-> ToSheetValue(model.table.rows[rows[k]][f],
                                                     ById(model.table.columns, f))]]]

(* The quality sheet: the ledger.                                          *)
QualityRows(model) == model.table.qualityIssues

(* Formulas of the metrics sheet.  A reference is to the cell of a metric. *)
NoFormula == [op |-> "none"]
SumIfs(field, regions, period) ==
    [op |-> "sumifs", field |-> field, regions |-> regions, period |-> period]
SumAll(field) == [op |-> "sum", field |-> field]
Ref(name) == Id(name)
GuardedRatio(positive, numerator, from) ==
    [op |-> "ratio", positive |-> Ref(positive), numerator |-> Ref(numerator), from |-> from]
FieldFor ==
    [n \in {"north-june-revenue", "june-revenue"} |-> "revenue"]
        @@ [n \in {"north-june-target"} |-> "target_revenue"]
        @@ [n \in {"north-may-orders", "north-june-orders"} |-> "order_volume"]
        @@ [n \in {"north-may-downtime", "north-june-downtime"} |-> "downtime_minutes"]
        @@ [n \in {"june-operating-cost"} |-> "operating_cost"]
SumOfPeriod(metric) == SumIfs(Field(FieldFor[metric.id[1]]), {}, metric.scope.period)
SumFormula(metric) ==
    LET field == Field(FieldFor[metric.id[1]])
    IN IF metric.scope.period # NoPeriod /\ Cardinality(metric.scope.regions) <= 1
       THEN SumIfs(field, metric.scope.regions, metric.scope.period)
       ELSE IF metric.scope.regions = {} THEN SumAll(field) ELSE NoFormula
FormulaForMetric(metric) ==
    LET name == metric.id[1]
    IN CASE name \in DOMAIN FieldFor -> SumFormula(metric)
         [] name = "north-target-gap" ->
              GuardedRatio("north-june-target", "north-june-revenue", TRUE)
         [] name = "north-orders-change" ->
              GuardedRatio("north-may-orders", "north-june-orders", TRUE)
         [] name = "north-downtime-change" ->
              GuardedRatio("north-may-downtime", "north-june-downtime", TRUE)
         [] name = "june-contribution" ->
              [op |-> "minus", left |-> RevenueId, right |-> CostId]
         [] name = "june-margin" -> GuardedRatio("june-revenue", "june-contribution", FALSE)
         [] OTHER -> NoFormula

(* The metrics sheet: a row for each metric but the quality counts.        *)
Listed(model) == SelectSeq(model.metrics, LAMBDA m : m.id \notin Range(QualityIds))
KpiRows(model) ==
    LET listed == Listed(model)
    IN [k \in DOMAIN listed |->
           [metric |-> listed[k].id, defined |-> listed[k].defined, cached |-> listed[k].value,
            link |-> ProofLink(model, listed[k].proof),
            formula |-> IF listed[k].defined THEN FormulaForMetric(listed[k]) ELSE NoFormula]]

(* The summary: the four headline metrics, each linked to its proof.       *)
Headline(model) ==
    LET sample == SelectSeq(<<RevenueId, CostId, Id("june-contribution"), Id("june-margin")>>,
                            LAMBDA id : HasId(model.metrics, id))
        others == SelectSeq([k \in DOMAIN Listed(model) |-> Listed(model)[k].id],
                            LAMBDA id : id \notin Range(sample))
        all == sample \o others
    IN SubSeq(all, 1, IF Len(all) < 4 THEN Len(all) ELSE 4)
SummaryRows(model) ==
    [k \in DOMAIN Headline(model) |->
        LET m == ById(model.metrics, Headline(model)[k])
        IN [metric |-> m.id, defined |-> m.defined, value |-> m.value,
            link |-> ProofLink(model, m.proof)]]

BuildWorkbook(model) ==
    [exportId |-> model.exportId, summary |-> SummaryRows(model), clean |-> CleanRows(model),
     quality |-> QualityRows(model), kpis |-> KpiRows(model),
     methodology |-> MethodRows(model), scenarioTold |-> model.scenario.defined]
=============================================================================
