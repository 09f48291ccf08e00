----------------------------- MODULE Arithmetic ------------------------------
(***************************************************************************)
(* What the numbers of Decimal and Statistics say: decimals read as        *)
(* integers at one common scale.  Each fact is about one calculation, for  *)
(* an assumption of a module that checks it over bounded operands.         *)
(***************************************************************************)
EXTENDS Statistics

CommonScale == 3
At(d) == Signed(d, CommonScale)
Order(a, b) == IF At(a) < At(b) THEN -1 ELSE IF At(a) > At(b) THEN 1 ELSE 0
Distance(n) == IF n < 0 THEN -n ELSE n

(* Sums, differences and products are exact, comparison is that of the     *)
(* numbers whatever zeros the strings end in, and every result is in its   *)
(* shortest form.  (addDecimal, multiplyDecimal, compareDecimal)           *)
ExactSums(a, b) ==
    /\ At(AddDecimal(a, b)) = At(a) + At(b) /\ At(SubtractDecimal(a, b)) = At(a) - At(b)
    /\ Signed(MultiplyDecimal(a, b), a.scale + b.scale)
          = Signed(a, a.scale) * Signed(b, b.scale)
    /\ Compare(a, b) = Order(a, b)
    /\ \A result \in {AddDecimal(a, b), SubtractDecimal(a, b), MultiplyDecimal(a, b)} :
          IsCanonicalDecimal(result)

(* A quotient is off by at most half a unit of its last significant digit, *)
(* and not at all when the precision holds all of it.  (divideDecimal)     *)
LastUnit(result) ==
    IF Digits(result.coefficient) >= Precision
    THEN 10^(Digits(result.coefficient) - Precision) ELSE 0
Nearest(result, n, d) ==
    2 * Distance(result.coefficient * d - n * 10^result.scale) <= LastUnit(result) * d
Divides(a, b, result) ==
    /\ result.negative = (At(a) # 0 /\ a.negative # b.negative)
    /\ Nearest(result, Distance(At(a)), Distance(At(b))) /\ IsCanonicalDecimal(result)
NearestQuotient(a, b) == ~IsZeroDecimal(b) => Divides(a, b, DivideDecimal(a, b))

(* An amount of money shows the places asked for, is a decimal (no "-0.00")*)
(* and differs from the exact amount by at most half a unit of the last.   *)
(* (quantizeMoney)                                                         *)
NearestMoney(a, places) ==
    LET result == QuantizeMoney(a, places)
    IN /\ IsDecimal(result) /\ result.scale = places
       /\ 2 * Distance(At(result) - At(a)) <= 10^(CommonScale - places)

(* The median splits the values in halves, the quartiles bracket it, no    *)
(* value between them is an outlier; an axis clears its data by a tenth    *)
(* and no two-digit number that does is smaller.                           *)
(* (describe, iqrFlag, domainMax)                                          *)
SoundDescription(values, d) ==
    LET below(v) == Cardinality({i \in DOMAIN values : Less(values[i], v)})
        above(v) == Cardinality({i \in DOMAIN values : Less(v, values[i])})
    IN /\ 2 * below(d.median) <= d.count /\ 2 * above(d.median) <= d.count
       /\ \A bracket \in {<<d.min, d.q1>>, <<d.q1, d.median>>, <<d.median, d.q3>>, <<d.q3, d.max>>} :
             ~Less(bracket[2], bracket[1])
       /\ \A i \in DOMAIN values : IqrFlagged(d, values[i]) =>
             Less(values[i], d.q1) \/ Less(d.q3, values[i])
Clears(values, b) == \A i \in DOMAIN values : 11 * Distance(At(values[i])) <= 10 * b
LeastCeiling(values, b) ==
    /\ Clears(values, b)
    /\ \A t \in 10..99, k \in 0..5 : Clears(values, t * 10^k) => b <= t * 10^k
SoundStatistics(values) ==
    /\ SoundDescription(values, Describe(values))
    /\ (\E i \in DOMAIN values : At(values[i]) # 0) => LeastCeiling(values, At(DomainMax(values)))
=============================================================================
