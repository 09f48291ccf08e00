------------------------------ MODULE Scenario -------------------------------
(***************************************************************************)
(* The cost scenario: packages/scenario/src/scenario.ts.                   *)
(***************************************************************************)
EXTENDS SamplePack

CONSTANTS CostMin, CostMax, TypedStep   \* the definition's parameter

RevenueId == Id("june-revenue")
CostId == Id("june-operating-cost")
RequiredIds == <<RevenueId, CostId>>
ScenarioMetric(name) == Id("scenario-" \o name)
Hundred == Whole(100)

(* assertCostChange and requireBaseline: no clamping, both amounts there.  *)
CostChangeAccepted(d) ==
    /\ IsDecimal(d) /\ ~Less(d, CostMin) /\ ~Less(CostMax, d)
    /\ IsMultipleOfStep(d, TypedStep)
BaselineDefined(snapshot) ==
    \A i \in DOMAIN RequiredIds : /\ HasId(snapshot.metrics, RequiredIds[i])
                                  /\ ById(snapshot.metrics, RequiredIds[i]).defined

(* The first defined ratio of the snapshot's own scope.                    *)
BaselineMargins(snapshot) ==
    {i \in DOMAIN snapshot.metrics :
        /\ snapshot.metrics[i].defined /\ snapshot.metrics[i].unit = "ratio"
        /\ snapshot.metrics[i].scope = snapshot.scope}
BaselineMarginId(snapshot) == snapshot.metrics[Min(BaselineMargins(snapshot))].id

ScenarioProof(id, snapshot, expression, result) ==
    [id |-> id, selections |-> <<>>, expression |-> expression, defined |-> TRUE,
     result |-> result, revision |-> snapshot.revision, transformIds |-> {}]
Leg(name, of, unit, snapshot, expression, value) ==
    LET id == ScenarioMetric(name)
        base == [of EXCEPT !.id = id, !.value = value, !.unit = unit, !.proof = id]
    IN [metric |-> base, proof |-> ScenarioProof(id, snapshot, expression, value)]

(* Cost at the changed rate, rounded to the scale the amounts show, then   *)
(* the contribution and the margin of the rounded cost.                    *)
ScenarioLegs(snapshot, costChange) ==
    LET revenue == ById(snapshot.metrics, RevenueId)
        cost == ById(snapshot.metrics, CostId)
        scale == Larger(FractionScale(revenue.value), FractionScale(cost.value))
        changed == QuantizeMoney(
            MultiplyDecimal(cost.value, AddDecimal(Whole(1), costChange)), scale)
        contribution == QuantizeMoney(SubtractDecimal(revenue.value, changed), scale)
        margin == DivideDecimal(contribution, revenue.value)
        baseline == DivideDecimal(SubtractDecimal(revenue.value, cost.value), revenue.value)
        factor == Binary("add", Literal(Whole(1)), Literal(costChange))
        sm(name) == MetricOf(ScenarioMetric(name))
        delta == Leg("margin-delta-pp", revenue, "pp", snapshot,
                     Binary("multiply",
                            Binary("subtract", sm("margin"),
                                   MetricOf(BaselineMarginId(snapshot))), Literal(Hundred)),
                     MultiplyDecimal(SubtractDecimal(margin, baseline), Hundred))
    IN <<Leg("cost", cost, cost.unit, snapshot,
             Binary("multiply", MetricOf(CostId), factor), changed),
         Leg("contribution", revenue, revenue.unit, snapshot,
             Binary("subtract", MetricOf(RevenueId), sm("cost")), contribution),
         Leg("margin", revenue, "ratio", snapshot,
             Binary("divide", sm("contribution"), MetricOf(RevenueId)), margin)>>
       \o IF BaselineMargins(snapshot) = {} THEN <<>> ELSE <<delta>>

(* No scenario without revenue, on a negative cost or across currencies.   *)
Currencies == {"USD"}
Disabled(snapshot) ==
    LET revenue == ById(snapshot.metrics, RevenueId)
        cost == ById(snapshot.metrics, CostId)
    IN \/ ~Less(Zero, revenue.value) \/ Less(cost.value, Zero)
       \/ {revenue.unit, cost.unit} \subseteq Currencies /\ revenue.unit # cost.unit
ResultOf(snapshot, costChange, legs) ==
    [baselineAnalysisId |-> snapshot.id, costChange |-> costChange,
     scope |-> snapshot.scope, defined |-> ~Disabled(snapshot),
     metrics |-> MetricsOf(legs), provenance |-> ProofsOf(legs)]
RunScenario(snapshot, costChange) ==
    ResultOf(snapshot, costChange,
             IF Disabled(snapshot) THEN <<>> ELSE ScenarioLegs(snapshot, costChange))
=============================================================================
