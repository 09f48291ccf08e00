----------------------------- MODULE SamplePack ------------------------------
(***************************************************************************)
(* The rule pack of the bound sample, packages/analysis/src/sample.ts, and *)
(* the choice between it and the generic analysis, analyze.ts.  "June" is  *)
(* the period of the scope, "May" the month before it.                     *)
(***************************************************************************)
EXTENDS Analysis

HasSampleColumns(table) == \A slug \in SampleColumnIds : HasColumn(table, Field(slug))
BindSampleCurrency(table) ==
    [table EXCEPT !.columns = [i \in DOMAIN @ |->
        IF @[i].id \in {Field(slug) : slug \in SampleCurrency}
        THEN [@[i] EXCEPT !.unit = "USD"] ELSE @[i]]]
(* The pack refuses a table without a date column, a scope without a period.*)
PackRefused(table, scope) == DateColumns(table) = {} \/ scope.period = NoPeriod

(* The eight sums.  Revenue and target share one mask, so do revenue and   *)
(* cost.                                                                   *)
Month(table, period, confirmed) ==
    [period |-> period, complete |-> IsPeriodComplete(table, period, confirmed),
     northRows |-> ScopeRows(table, period, {NorthText}),
     allRows |-> ScopeRows(table, period, {})]
ContextOf(table, june, may) ==
    [juneComplete |-> june.complete, mayComplete |-> may.complete,
     juneNorth |-> Scope(june.period, {NorthText}, june.complete),
     mayNorth |-> Scope(may.period, {NorthText}, may.complete),
     juneAll |-> Scope(june.period, {}, june.complete),
     juneNorthRows |-> june.northRows, mayNorthRows |-> may.northRows,
     juneAllRows |-> june.allRows, mayAllRows |-> may.allRows,
     pairMask |-> SharedMask(table, june.northRows, {Field("revenue"), Field("target_revenue")}),
     juneMask |-> SharedMask(table, june.allRows, {Field("revenue"), Field("operating_cost")})]
PackContext(table, scope) ==
    ContextOf(table, Month(table, scope.period, scope.complete),
              Month(table, PreviousMonth(scope.period.first), scope.complete))
PackSums(table, ctx) ==
    LET sum(name, slug, scope, mask, rows) ==
            BuildSum(table, Id(name), UnitOf(table, slug), Field(slug), scope, mask,
                     Cardinality(rows))
        north(name, slug, mask) == sum(name, slug, ctx.juneNorth, mask, ctx.juneNorthRows)
        may(name, slug) == sum(name, slug, ctx.mayNorth, ctx.mayNorthRows, ctx.mayNorthRows)
        all(name, slug) == sum(name, slug, ctx.juneAll, ctx.juneMask, ctx.juneAllRows)
    IN <<north("north-june-revenue", "revenue", ctx.pairMask),
         north("north-june-target", "target_revenue", ctx.pairMask),
         may("north-may-orders", "order_volume"),
         north("north-june-orders", "order_volume", ctx.juneNorthRows),
         may("north-may-downtime", "downtime_minutes"),
         north("north-june-downtime", "downtime_minutes", ctx.juneNorthRows),
         all("june-revenue", "revenue"), all("june-operating-cost", "operating_cost")>>
MetricsOf(parts) == [i \in DOMAIN parts |-> parts[i].metric]
ProofsOf(parts) == [i \in DOMAIN parts |-> parts[i].proof]

-----------------------------------------------------------------------------
(* The ratios                                                              *)

M(name) == MetricOf(Id(name))
ChangeOf(current, previous) ==
    Binary("divide", Binary("subtract", M(current), M(previous)), M(previous))
(* A ratio with its proof, or one that is not defined and has none.        *)
Ratio(table, name, scope, rows, total, expression, value) ==
    <<Composite(table, Id(name), "ratio", scope, rows, total, expression, value)>>
NoRatio(name, scope, rows, total, proof) ==
    <<[metric |-> NotDefined(Id(name), scope, rows, total, Id(proof))]>>
Amount(metrics, name) == ById(metrics, Id(name)).value

TargetGapPart(table, ctx, metrics) ==
    LET revenue == Amount(metrics, "north-june-revenue")
        target == Amount(metrics, "north-june-target")
        rows == Cardinality(ctx.pairMask)
        total == Cardinality(ctx.juneNorthRows)
    IN IF Less(Zero, target)
       THEN Ratio(table, "north-target-gap", ctx.juneNorth, rows, total,
                  ChangeOf("north-june-revenue", "north-june-target"),
                  DivideDecimal(SubtractDecimal(revenue, target), target))
       ELSE NoRatio("north-target-gap", ctx.juneNorth, rows, total, "north-june-target")
ChangePartOf(table, ctx, name, june, may, change, rows) ==
    IF change.status = "not_computable"
    THEN NoRatio(name, ctx.juneNorth, rows, rows, may)
    ELSE Ratio(table, name, ctx.juneNorth, rows, rows, ChangeOf(june, may), change.value)
ChangePart(table, ctx, metrics, name, june, may) ==
    ChangePartOf(table, ctx, name, june, may,
                 RelativeChange(Amount(metrics, june), Amount(metrics, may)),
                 Cardinality(ctx.juneNorthRows))
ContributionPart(table, ctx, metrics) ==
    LET revenue == Amount(metrics, "june-revenue")
        cost == Amount(metrics, "june-operating-cost")
        scale == Larger(FractionScale(revenue), FractionScale(cost))
    IN <<Composite(table, Id("june-contribution"), UnitOf(table, "revenue"), ctx.juneAll,
                   Cardinality(ctx.juneMask), Cardinality(ctx.juneAllRows),
                   Binary("subtract", M("june-revenue"), M("june-operating-cost")),
                   FormatScale(SubtractDecimal(revenue, cost), scale))>>
MarginPart(table, ctx, metrics, contribution) ==
    LET revenue == Amount(metrics, "june-revenue")
        rows == Cardinality(ctx.juneMask)
        total == Cardinality(ctx.juneAllRows)
    IN IF Less(Zero, revenue)
       THEN Ratio(table, "june-margin", ctx.juneAll, rows, total,
                  Binary("divide", M("june-contribution"), M("june-revenue")),
                  DivideDecimal(contribution, revenue))
       ELSE NoRatio("june-margin", ctx.juneAll, rows, total, "june-contribution")
PartsOver(table, ctx, sums) ==
    LET metrics == MetricsOf(sums)
        contribution == ContributionPart(table, ctx, metrics)
    IN sums \o TargetGapPart(table, ctx, metrics)
            \o ChangePart(table, ctx, metrics, "north-orders-change",
                          "north-june-orders", "north-may-orders")
            \o ChangePart(table, ctx, metrics, "north-downtime-change",
                          "north-june-downtime", "north-may-downtime")
            \o contribution
            \o MarginPart(table, ctx, metrics, contribution[1].metric.value)
            \o QualityTrio(table)
PackParts(table, ctx) == PartsOver(table, ctx, PackSums(table, ctx))
ProofsStated(parts) ==
    ProofsOf(Keep(parts, LAMBDA part : part.metric.defined))

-----------------------------------------------------------------------------
(* The findings of the pack and its charts                                 *)

EnoughRows(ctx) ==
    Cardinality(ctx.mayNorthRows) >= MinComparisonRows
        /\ Cardinality(ctx.juneNorthRows) >= MinComparisonRows
BothComplete(ctx) == ctx.juneComplete /\ ctx.mayComplete
Negated(d) == SubtractDecimal(Zero, d)
DivergenceFinding(ctx, metrics) ==
    LET gap == ById(metrics, Id("north-target-gap"))
        orders == ById(metrics, Id("north-orders-change"))
        diverges == /\ gap.defined /\ orders.defined
                    /\ ~Less(Negated(TargetGap), gap.value)
                    /\ ~Less(orders.value, OrdersIncrease)
                    /\ Cardinality(ctx.pairMask) >= MinComparisonRows
                    /\ Cardinality(ctx.juneNorthRows) >= MinComparisonRows
                    /\ BothComplete(ctx)
    IN When(diverges,
            Finding("finding-north-target", "divergence", 1, AbsDecimal(gap.value),
                    <<Id("north-june-revenue"), Id("north-june-target"),
                      Id("north-target-gap"), Id("north-orders-change")>>,
                    ctx.juneNorth, Id("chart-north-target"), {}, "north"))
(* The change must be large for North and for all regions of the month.    *)
DowntimeChanged(ctx, may, change, materiality) ==
    /\ EnoughRows(ctx) /\ Less(Zero, may) /\ BothComplete(ctx)
    /\ ~Less(AbsDecimal(change.value), PeriodChange)
    /\ ~Less(AbsDecimal(change.absolute), materiality)
DowntimeFindingOf(table, ctx, may, change) ==
    When(DowntimeChanged(ctx, may, change,
             DivideDecimal(SumField(table, ctx.mayAllRows, Field("downtime_minutes")), Whole(20))),
         Finding("finding-north-downtime", "period-change", 2, change.value,
                 <<Id("north-may-downtime"), Id("north-june-downtime"),
                   Id("north-downtime-change")>>,
                 ctx.juneNorth, Id("chart-downtime"), {}, "downtime"))
DowntimeFinding(table, ctx, metrics) ==
    DowntimeFindingOf(table, ctx, Amount(metrics, "north-may-downtime"),
                      RelativeChange(Amount(metrics, "north-june-downtime"),
                                     Amount(metrics, "north-may-downtime")))
PackFindings(table, ctx, metrics) ==
    DivergenceFinding(ctx, metrics) \o DowntimeFinding(table, ctx, metrics)
        \o QualityFinding(table)
PackCharts(table, ctx, metrics) ==
    LET bar(key, names) == Point(key, [i \in DOMAIN names |-> ValueOf(metrics, Id(names[i]))],
                                 [i \in DOMAIN names |-> Id(names[i])])
    IN <<Chart("chart-north-target", "target-bars", UnitOf(table, "revenue"),
               <<bar("north", <<"north-june-revenue", "north-june-target">>)>>, ctx.juneNorth),
         Chart("chart-downtime", "bars", UnitOf(table, "downtime_minutes"),
               <<bar("may", <<"north-may-downtime">>), bar("june", <<"north-june-downtime">>)>>,
               ctx.juneNorth),
         QualityChart(metrics)>>

-----------------------------------------------------------------------------
(* Candidates below the cap of three findings: trends and outliers         *)

TrailingMonths(first, count) ==
    [i \in 1..count |->
        LET back == count - i
            months == 12 * (first \div 10000) + ((first \div 100) % 100) - 1 - back
            month == 100 * (months \div 12) + (months % 12) + 1
        IN Period(100 * month + 1, 100 * month + 31)]
Regions(table) == {table.rows[r][RegionField] : r \in DOMAIN table.rows}
SummarizeMonthly(table, region, field, months) ==
    [i \in DOMAIN months |->
        LET rows == ScopeRows(table, months[i], {region})
        IN [total |-> SumField(table, rows, field), rows |-> Cardinality(rows)]]
Measures(table, P(_)) ==
    {table.columns[i].id : i \in ColumnsWhere(table,
        LAMBDA c : c.role = "measure" /\ c.additive /\ c.confirmed /\ P(c))}
EvaluateTrends(table, scope) ==
    LET months == TrailingMonths(scope.period.first, TrendPeriods)
        monthly(g, f) == SummarizeMonthly(table, g, f, months)
        covered(g, f) == \A i \in DOMAIN months :
            /\ IsPeriodComplete(table, months[i], scope.complete)
            /\ monthly(g, f)[i].rows > 0
        direction(g, f) == TrendDirection([i \in DOMAIN months |-> monthly(g, f)[i].total])
        pairs == Regions(table) \X Measures(table, LAMBDA c : c.unit = "USD")
    IN IF ~HasColumn(table, RegionField) THEN {}
       ELSE {[region |-> p[1], field |-> p[2], direction |-> direction(p[1], p[2])] :
                p \in {q \in pairs : covered(q[1], q[2]) /\ direction(q[1], q[2]) # "none"}}
FlaggedRows(table, f, rows, d) == {r \in rows : IqrFlagged(d, table.rows[r][f].dec)}
EvaluateOutliers(table, scope) ==
    LET rows(g, f) == Amounts(table, ScopeRows(table, scope.period, {g}), f)
        amounts(g, f) == LET ordered == RowsIn(rows(g, f))
                         IN [i \in DOMAIN ordered |-> table.rows[ordered[i]][f].dec]
        flagged(g, f) ==
            IF Cardinality(rows(g, f)) < OutlierMinRows THEN {}
            ELSE FlaggedRows(table, f, rows(g, f), Describe(amounts(g, f)))
        pairs == Regions(table) \X Measures(table, LAMBDA c : c.type = "integer")
    IN IF ~HasColumn(table, RegionField) THEN {}
       ELSE UNION {{[region |-> p[1], field |-> p[2], row |-> r] : r \in flagged(p[1], p[2])} :
                       p \in pairs}

-----------------------------------------------------------------------------
(* analyze                                                                 *)

PackResult(table, scope, ctx, parts) ==
    LET metrics == MetricsOf(parts)
    IN [metrics |-> metrics, provenance |-> ProofsStated(parts),
        findings |-> TopFindings(PackFindings(table, ctx, metrics)),
        charts |-> PackCharts(table, ctx, metrics),
        candidates |-> <<EvaluateTrends(table, scope), EvaluateOutliers(table, scope)>>]
BuildSamplePack(unbound, scope) ==
    LET table == BindSampleCurrency(unbound)
        ctx == PackContext(table, scope)
    IN PackResult(table, scope, ctx, PackParts(table, ctx))

(* A confirmed additive measure with a label gets a total.                 *)
GenericTotals(table, scope) ==
    LET inScope == IF DateColumns(table) # {} /\ scope.period # NoPeriod
                   THEN ScopeRows(table, scope.period, scope.regions) ELSE DOMAIN table.rows
        measures == Keep(table.columns, LAMBDA c :
            /\ c.role = "measure" /\ c.additive /\ c.confirmed
            /\ c.type \in {"decimal", "integer", "mixed"}
            /\ c.id[1] \in CatalogColumns /\ c.id[2] = 1)
    IN [i \in DOMAIN measures |->
           BuildSum(table, <<"total", measures[i].id>>, measures[i].unit, measures[i].id, scope,
                    inScope, Cardinality(inScope))]
Generic(table, scope) ==
    LET totals == GenericTotals(table, scope)
        parts == totals \o QualityTrio(table)
        ids == [i \in DOMAIN totals |-> totals[i].metric.id]
        descriptive == Finding("finding-descriptive", "descriptive", 4, Zero, ids, scope,
                               NoChart, {}, "descriptive")
    IN [metrics |-> MetricsOf(parts), provenance |-> ProofsOf(parts),
        findings |-> TopFindings(QualityFinding(table) \o <<descriptive>>),
        charts |-> When(table.qualityIssues # <<>>, QualityChart(MetricsOf(parts))),
        candidates |-> <<{}, {}>>]

QualitySummaryOf(table) ==
    LET count(P(_)) == Cardinality({i \in DOMAIN table.qualityIssues : P(table.qualityIssues[i])})
        retained == Cardinality(DOMAIN table.rows)
    IN [rawRows |-> retained + count(LAMBDA q : q.action = "exclude-row" /\ q.status = "resolved"),
        retainedRows |-> retained, issueCount |-> Len(table.qualityIssues),
        resolved |-> count(LAMBDA q : q.status = "resolved"),
        unresolved |-> count(LAMBDA q : q.status = "unresolved")]
SnapshotId(scope) == [period |-> scope.period, regions |-> scope.regions]

UsesPack(table, bound) == bound /\ HasSampleColumns(table)
SnapshotOf(table, scope, result) ==
    [id |-> SnapshotId(scope), revision |-> table.revision, scope |-> scope,
     metrics |-> result.metrics, findings |-> result.findings,
     provenance |-> result.provenance, charts |-> result.charts,
     candidates |-> result.candidates, qualitySummary |-> QualitySummaryOf(table)]
Analyze(table, scope, bound) ==
    SnapshotOf(table, scope, IF UsesPack(table, bound) THEN BuildSamplePack(table, scope)
                             ELSE Generic(table, scope))
=============================================================================
