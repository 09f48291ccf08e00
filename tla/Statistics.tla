----------------------------- MODULE Statistics ------------------------------
(***************************************************************************)
(* The comparison mechanics of packages/analysis/src/mechanics.ts over the *)
(* decimals of Decimal: relative change, type-7 quantiles, the conservative*)
(* outlier rule, monotonic trends and the ceiling of a chart axis.         *)
(***************************************************************************)
EXTENDS Decimal, SequencesExt

CONSTANT OutlierMinRows    \* fewest values of the outlier rule, 30 in the code

ASSUME StatisticsAssumption == OutlierMinRows \in Nat \ {0}

Less(a, b) == Compare(a, b) < 0
AbsDecimal(d) == IF Less(d, Zero) THEN SubtractDecimal(Zero, d) ELSE d

(* relativeChange: no change relative to zero.                             *)
BaseStatus(previous) ==
    CASE Compare(previous, Zero) = 0 -> "not_computable"
      [] Less(previous, Zero) -> "negative-base"
      [] OTHER -> "defined"
ChangeBy(absolute, previous) ==
    [status |-> BaseStatus(previous), absolute |-> absolute,
     value |-> IF Compare(previous, Zero) = 0 THEN Zero ELSE DivideDecimal(absolute, previous)]
RelativeChange(current, previous) == ChangeBy(SubtractDecimal(current, previous), previous)

(* floorDecimal, as a number.                                              *)
FloorDecimal(d) ==
    LET whole == d.coefficient \div 10^d.scale
        exact == d.coefficient % 10^d.scale = 0
    IN IF ~d.negative THEN whole ELSE IF exact THEN -whole ELSE -whole - 1

(* quantileType7 over an ascending sequence, quartile q of four.           *)
Quarter(q) == Minimal(FALSE, 25 * q, 2)
QuantileAt(sorted, h) ==
    LET j == FloorDecimal(h)
        last == Len(sorted) - 1
        clamped == IF j < 1 THEN 1 ELSE IF j > last THEN last ELSE j
        g == SubtractDecimal(h, Whole(clamped))
    IN AddDecimal(sorted[clamped],
           MultiplyDecimal(g, SubtractDecimal(sorted[clamped + 1], sorted[clamped])))
QuantileType7(sorted, q) ==
    IF Len(sorted) = 1 THEN sorted[1]
    ELSE QuantileAt(sorted, AddDecimal(MultiplyDecimal(Whole(Len(sorted) - 1), Quarter(q)), Whole(1)))
Ascending(values) == SortSeq(values, Less)
Described(sorted) ==
    [count |-> Len(sorted), min |-> sorted[1], max |-> sorted[Len(sorted)],
     q1 |-> QuantileType7(sorted, 1), median |-> QuantileType7(sorted, 2),
     q3 |-> QuantileType7(sorted, 3)]
Describe(values) == Described(Ascending(values))

(* iqrFlag: the candidates beyond three interquartile ranges.              *)
IqrRange(d) == SubtractDecimal(d.q3, d.q1)
IqrEligible(d) == d.count >= OutlierMinRows /\ Compare(IqrRange(d), Zero) # 0
Beyond(d, margin, candidate) ==
    \/ Less(candidate, SubtractDecimal(d.q1, margin))
    \/ Less(AddDecimal(d.q3, margin), candidate)
IqrFlagged(d, candidate) ==
    IqrEligible(d) /\ Beyond(d, MultiplyDecimal(Whole(3), IqrRange(d)), candidate)

TrendDirection(totals) ==
    LET steps == {Compare(totals[i + 1], totals[i]) : i \in 1..Len(totals) - 1}
    IN CASE steps = {1} -> "up" [] steps = {-1} -> "down" [] OTHER -> "none"

(* domainMax: the least number of two significant digits at or above the   *)
(* largest magnitude with a tenth of headroom.                             *)
Magnitude(d) == Dec(FALSE, d.coefficient, d.scale)
Largest(values) ==
    FoldLeft(LAMBDA m, v : IF Less(m, Magnitude(v)) THEN Magnitude(v) ELSE m, Zero, values)
CeilingOf(stretched) ==
    LET order == Digits(stretched.coefficient) - 2
        two == IF order >= 0 THEN stretched.coefficient \div 10^order
                             ELSE stretched.coefficient * 10
        bound(t) == Placed(FALSE, t, order - stretched.scale)
    IN IF IsZeroDecimal(stretched) THEN Whole(10)
       ELSE IF Less(bound(two), stretched) THEN bound(two + 1) ELSE bound(two)
DomainMax(values) == CeilingOf(MultiplyDecimal(Largest(values), Dec(FALSE, 11, 1)))
=============================================================================
