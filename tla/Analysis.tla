------------------------------ MODULE Analysis -------------------------------
(***************************************************************************)
(* The analysis engine: packages/analysis, scope.ts, analyze.ts and the    *)
(* rule pack of the bound sample, sample.ts.                               *)
(*                                                                         *)
(* A date cell carries its date as a number, 20260601 for 2026-06-01.  An  *)
(* id is a name and a column; a proof has the id of its metric.            *)
(***************************************************************************)
EXTENDS Evidence, Statistics

CONSTANTS CatalogColumns,      \* columns the catalog has a metric label for
          SampleColumnIds,     \* SAMPLE_COLUMN_IDS
          SampleCurrency,      \* SAMPLE_CURRENCY_COLUMNS
          MinComparisonRows,   \* thresholds.minComparisonRows
          TargetGap, OrdersIncrease, PeriodChange,   \* the fractions of the rules
          TrendPeriods         \* thresholds.trendMinPeriods

Id(name) == <<name, NoField>>
NorthText == Text("north", "plain", "word", Zero)
Field(slug) == <<slug, 1>>
ColumnsWhere(table, P(_)) == {i \in DOMAIN table.columns : P(table.columns[i])}
HasColumn(table, id) == HasId(table.columns, id)
UnitOf(table, slug) == ById(table.columns, Field(slug)).unit

-----------------------------------------------------------------------------
(* scope.ts                                                                *)

DateColumns(table) == ColumnsWhere(table, LAMBDA c : c.role = "date" /\ c.type = "date")
DateField(table) == table.columns[Min(DateColumns(table))].id
RegionField == Field("region")

Period(first, last) == [first |-> first, last |-> last]
NoPeriod == Period(0, 0)
PreviousMonth(first) ==
    LET month == first \div 100
        previous == IF month % 100 = 1 THEN month - 89 ELSE month - 1
    IN Period(100 * previous + 1, 100 * previous + 31)
Within(text, period) ==
    /\ text.kind = "date" /\ text.form # "padded"
    /\ text.dec.coefficient \in period.first..period.last

ScopeRows(table, period, regions) ==
    IF regions # {} /\ ~HasColumn(table, RegionField) THEN {}
    ELSE {r \in DOMAIN table.rows :
            /\ Within(table.rows[r][DateField(table)], period)
            /\ regions # {} => table.rows[r][RegionField] \in regions}
EveryRow(table, rows, field) == rows
Amounts(table, rows, field) == {r \in rows : IsAmount(table.rows[r][field])}
SumField(table, rows, field) ==
    FoldLeft(LAMBDA total, r : AddDecimal(total, table.rows[r][field].dec), Zero,
             RowsIn(Amounts(table, rows, field)))
SharedMask(table, rows, fields) ==
    {r \in rows : \A f \in fields : IsAmount(table.rows[r][f])}
ScheduledCovered(scheduled, present) ==
    IF scheduled = {} THEN present # {} ELSE scheduled \subseteq present
IsPeriodComplete(table, period, confirmed) ==
    confirmed /\ ScheduledCovered(
        {d \in table.calendarDates : d \in period.first..period.last},
        {table.rows[r][DateField(table)].dec.coefficient : r \in ScopeRows(table, period, {})})

-----------------------------------------------------------------------------
(* Metrics and their proofs                                                *)

Scope(period, regions, complete) == [period |-> period, regions |-> regions, complete |-> complete]
WholeSource == Scope(NoPeriod, {}, TRUE)
Metric(id, unit, scope, eligible, total) ==
    [id |-> id, defined |-> TRUE, value |-> Zero, unit |-> unit, scope |-> scope,
     eligibleRows |-> eligible, totalRows |-> total, proof |-> id, warnings |-> {}]
Proof(id, table, selections, expression, result) ==
    [id |-> id, selections |-> selections, expression |-> expression, defined |-> TRUE,
     result |-> result, revision |-> table.revision,
     transformIds |-> {table.qualityIssues[i].id : i \in {j \in DOMAIN table.qualityIssues :
                           table.qualityIssues[j].status = "resolved"}}]
IssueIdsOf(table, P(_)) ==
    [i \in DOMAIN SelectSeq(table.qualityIssues, P) |-> SelectSeq(table.qualityIssues, P)[i].id]
HasIssue(table, P(_)) == \E i \in DOMAIN table.qualityIssues : P(table.qualityIssues[i])

(* A sum at the scale its amounts are written with, the rows it adds and   *)
(* the excluded copies of those rows.                                      *)
CopiesOf(table, rows) ==
    {q.sourceRow : q \in {t \in Range(table.qualityIssues) :
        t.kind = "duplicate" /\ t.status = "resolved" /\ t.canonicalSourceRow \in rows}}
WarningsOf(table, field) ==
    IF HasIssue(table, LAMBDA q : q.kind = "formula-cache" /\ q.status = "resolved"
                                     /\ q.fieldId = field)
    THEN {"cache"} ELSE {}
WrittenScale(table, field, rows) == Max({0} \cup {table.rows[r][field].dec.scale : r \in rows})
SumWith(table, id, unit, field, scope, rows, totalRows, value) ==
    [metric |-> [Metric(id, unit, scope, Cardinality(rows), totalRows) EXCEPT
                    !.value = value, !.warnings = WarningsOf(table, field)],
     proof |-> Proof(id, table, <<Selection(id, rows, {field}, CopiesOf(table, rows))>>,
                     SumOf(id, field), value)]
SumOver(table, id, unit, field, scope, rows, totalRows) ==
    SumWith(table, id, unit, field, scope, rows, totalRows,
            FormatScale(SumField(table, rows, field), WrittenScale(table, field, rows)))
BuildSum(table, id, unit, field, scope, mask, totalRows) ==
    SumOver(table, id, unit, field, scope, Amounts(table, mask, field), totalRows)
Composite(table, id, unit, scope, eligible, total, expression, value) ==
    [metric |-> [Metric(id, unit, scope, eligible, total) EXCEPT !.value = value],
     proof |-> Proof(id, table, <<>>, expression, value)]
(* A metric without a value names the proof of a metric that has one.      *)
NotDefined(id, scope, eligible, total, proof) ==
    [Metric(id, "ratio", scope, eligible, total) EXCEPT !.defined = FALSE, !.proof = proof]

QualityKinds == <<"duplicate", "category", "missing">>
QualityId(kind) == Id("quality-" \o kind)
CountOf(table, kind, ids) ==
    Composite(table, QualityId(kind), "records", WholeSource, Cardinality(DOMAIN table.rows),
              Cardinality(DOMAIN table.rows), CountIssues(ids), Whole(Len(ids)))
QualityCount(table, kind) == CountOf(table, kind, IssueIdsOf(table, LAMBDA q : q.kind = kind))
QualityTrio(table) == [i \in 1..3 |-> QualityCount(table, QualityKinds[i])]
QualityIds == [i \in 1..3 |-> QualityId(QualityKinds[i])]

-----------------------------------------------------------------------------
(* Findings and charts                                                     *)

Finding(id, kind, class, magnitude, metricIds, scope, chart, issueIds, body) ==
    [id |-> Id(id), kind |-> kind, classPriority |-> class, coverage |-> Whole(1),
     magnitude |-> magnitude, metricIds |-> metricIds, provenanceIds |-> metricIds,
     scope |-> scope, chartId |-> chart, qualityIssueIds |-> issueIds, bodyKey |-> body]
NoChart == Id("none")
QualityFinding(table) ==
    IF table.qualityIssues = <<>> THEN <<>>
    ELSE <<Finding("finding-quality", "quality", 3, Whole(Len(table.qualityIssues)), QualityIds,
                   WholeSource, Id("chart-quality"),
                   Range(IssueIdsOf(table, LAMBDA q : TRUE)),
                   IF HasIssue(table, LAMBDA q : q.status = "proposed")
                   THEN "pending" ELSE "applied")>>
Ranks(a, b) ==
    \/ a.classPriority < b.classPriority
    \/ /\ a.classPriority = b.classPriority
       /\ \/ Compare(b.coverage, a.coverage) < 0
          \/ Compare(b.coverage, a.coverage) = 0 /\ Compare(b.magnitude, a.magnitude) < 0
AtMost(items, limit) == SubSeq(items, 1, Min({limit, Len(items)}))
TopFindings(findings) == AtMost(SortSeq(findings, Ranks), 3)

Point(key, values, metricIds) == [key |-> key, values |-> values, metricIds |-> metricIds]
Chart(id, kind, unit, points, scope) ==
    [id |-> Id(id), kind |-> kind, unit |-> unit, points |-> points, scope |-> scope,
     max |-> DomainMax(FlattenSeq([i \in DOMAIN points |-> points[i].values])),
     provenanceIds |-> FlattenSeq([i \in DOMAIN points |-> points[i].metricIds])]
ValueOf(metrics, id) == Parse(ById(metrics, id).value)
QualityChart(metrics) ==
    Chart("chart-quality", "quality-bars", "records",
          [i \in 1..3 |-> Point(QualityKinds[i], <<ValueOf(metrics, QualityIds[i])>>,
                                <<QualityIds[i]>>)], WholeSource)
=============================================================================
