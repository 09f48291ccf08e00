----------------------------- MODULE MCPipeline ------------------------------
(* Uploads of two to four rows drawn from patterns that meet each rule of  *)
(* the profile, and one of twenty amounts of which one is a formula; tables*)
(* of callers of the packages with such rows; and scaled-down images of    *)
(* the bound sample: two months, two regions, a repeated row, a spelling   *)
(* outside the compared rows, a missing value in the optional column.      *)
EXTENDS Pipeline, Arithmetic, TLC

Header(name) == [slug |-> name, fold |-> name, label |-> name, blank |-> FALSE, names |-> "plain"]
Word(fold, form) == Text(fold, form, "word", Zero)
Amt(n, scale, form) == Text(ToString(<<n, scale>>), form, "decimal", Dec(n < 0, IF n < 0 THEN -n ELSE n, scale))
Day(n) == Text(ToString(n), "plain", "date", Whole(n))
Str(t) == Cell("text", t, NoText)
Num(t) == Cell("number", t, NoText)

Formula == Cell("formula", Text("=a1", "plain", "formula", Zero), Amt(3, 0, "plain"))
Row(region, city, amount) == <<region, city, amount>>
North1 == Row(Str(Word("north", "plain")), Str(Word("cairo", "plain")), Num(Amt(150, 2, "plain")))
Variant == Row(Str(Word("north", "variant")), Str(Word("cairo", "variant")), Num(Amt(2, 0, "plain")))
Computed == Row(Str(Word("south", "plain")), Str(Word("cairo", "variant")), Formula)
Patterns ==
    {North1,
     Variant,
     Row(Str(Word("north", "padded")), Str(Word("cairo", "plain")), Absent),
     Computed,
     Row(Str(Word("south", "plain")), Absent, Num(Amt(-12345, 1, "plain"))),
     Row(Absent, Absent, Absent)}
Raw(headers, rows, long) == [headers |-> headers, cells |-> rows, longName |-> long]
Headers == <<Header("region"), Header("city"), Header("revenue")>>
Upload(headers, rows, long) == Raw(headers, [r \in 2..Len(rows) + 1 |-> rows[r - 1]], long)
(* Two headings that differ in case, one without a text, a date that can   *)
(* be read two ways, a number that starts with zero, a yes.                *)
OddHeaders == <<Header("region"), [Header("region") EXCEPT !.label = "REGION"],
                [Header("column") EXCEPT !.fold = "", !.blank = TRUE]>>
OddRow == Row(Str(Text("01/02/2026", "plain", "slashDate", Zero)),
              Str(Text("007", "plain", "leadingZero", Zero)),
              Str(Text("yes", "padded", "boolean", Zero)))
Ledgered ==
    [r \in 1..20 |-> Row(Str(Word("north", "plain")), Str(Word("cairo", "plain")),
                         IF r = 2 THEN Formula ELSE Num(Amt(r, 0, "plain")))]
(* Reviewed in up to three moves: copies in groups of one and of two,      *)
(* several spellings in one row and in many, formulas that repeat.         *)
Reviewed ==
    {Upload(Headers, rows, FALSE) : rows \in
        {<<North1, Variant, North1, Variant>>, <<Variant, Variant, North1, Variant>>,
         <<Computed, North1, Computed>>}}
MCUploads ==
    Reviewed
        \cup {Upload(Headers, rows, FALSE) : rows \in {<<p, q>> : p, q \in Patterns}
                                                    \cup {<<p, Variant, p>> : p \in Patterns}}
        \cup {Upload(Headers, <<North1>>, TRUE), Upload(OddHeaders, <<OddRow, OddRow>>, FALSE),
              Upload(Headers, Ledgered, FALSE)}

(* Of a caller of the packages: the same rows, also with a text amid the   *)
(* amounts, and rows with dates of which some are beyond the period, cannot*)
(* be read or leave gaps.                                                  *)
Dated == <<Header("date"), Header("region"), Header("revenue")>>
DatedRow(date, amount) == <<Str(date), Str(Word("north", "plain")), amount>>
Slash == Text("01/02/2026", "plain", "slashDate", Zero)
Calendar ==
    <<DatedRow(Day(20260601), Num(Amt(150, 2, "plain"))), DatedRow(Day(20260531), Num(Amt(7, 0, "plain"))),
      DatedRow(Day(20260602), Formula), DatedRow(Slash, Num(Amt(11, 0, "plain"))),
      DatedRow(Day(20260603), Str(Word("abc", "plain"))), DatedRow(Day(20260604), Absent),
      DatedRow(Day(20260630), Num(Amt(-25, 1, "plain"))),
      DatedRow(Day(20260601), Num(Amt(150, 2, "plain")))>>
MCPackaged ==
    {Upload([Headers EXCEPT ![2] = Header("town")], rows, FALSE) :
        rows \in {<<p, q>> : p, q \in Patterns} \cup {<<p, Computed, Variant, p>> : p \in Patterns}}
        \cup {Upload(Dated, Calendar, FALSE), Upload(Dated, SubSeq(Calendar, 1, 3), FALSE),
              Upload([Headers EXCEPT ![2] = Header("town")], Ledgered, FALSE)}
MCMeasured == {"revenue"}

SampleHeaders == <<Header("date"), Header("region"), Header("revenue"), Header("target_revenue"),
                   Header("order_volume"), Header("downtime_minutes"), Header("operating_cost"),
                   Header("csat_score")>>
SampleRow(day, region, revenue, target, orders, downtime, cost, score) ==
    <<Str(Day(day)), Str(region), Num(Amt(revenue, 1, "plain")), Num(Amt(target, 1, "plain")),
      Num(Amt(orders, 0, "plain")), Num(Amt(downtime, 0, "plain")), Num(Amt(cost, 1, "plain")),
      score>>
Score(n) == Num(Amt(n, 0, "plain"))
North == Word("north", "plain")
South == Word("south", "plain")
SampleImage(revenue, cost) ==
    LET first == SampleRow(20260501, North, 95, 100, 100, 20, 70, Score(80))
    IN Raw(SampleHeaders,
           [r \in 2..8 |->
               CASE r = 2 -> first
                 [] r = 3 -> SampleRow(20260502, North, 94, 100, 90, 30, 69, Score(81))
                 [] r = 4 -> SampleRow(20260501, Word("south", "variant"), 99, 101, 95, 25, 70, Score(79))
                 [] r = 5 -> SampleRow(20260601, North, revenue, 100, 120, 60, cost, Absent)
                 [] r = 6 -> SampleRow(20260602, North, revenue + 5, 100, 110, 45, cost, Score(82))
                 [] r = 7 -> SampleRow(20260601, South, 106, 101, 96, 26, 77, Score(83))
                 [] r = 8 -> first], FALSE)
Planned == SampleImage(88, 75)
MCSamples == {SampleImage(88, 74), SampleImage(101, 73), SampleImage(95, 97), Planned}
(* Two plans for these, everything approved or nothing for the sample.     *)
MCReplanned == {Planned, Upload(Headers, <<North1, Variant>>, FALSE)}
MCMaxMoves ==
    [src \in MCUploads \cup MCSamples \cup MCPackaged |->
        IF src \in Reviewed THEN 3 ELSE IF src = SampleImage(88, 74) THEN 2
        ELSE IF src = Planned THEN 0 ELSE 1]
MCCostChanges ==
    {Typed("plain", Dec(FALSE, 5, 1)), Typed("percent", Dec(TRUE, 200, 1)),
     Typed("plain", Dec(FALSE, 31, 0)), Typed("plus", Dec(FALSE, 8, 0))}
MCSampleCurrency == {"revenue", "target_revenue", "operating_cost"}
MCSampleColumns == {SampleHeaders[i].slug : i \in DOMAIN SampleHeaders}
MCSampleRequired == {"june-revenue", "june-operating-cost", "june-contribution", "june-margin",
                     "north-target-gap", "north-orders-change"}
MCPeriod == Period(20260601, 20260630)
MCStep == Dec(FALSE, 1, 3)
MCMin == Dec(TRUE, 20, 2)
MCMax == Dec(FALSE, 30, 2)
MCGap == Dec(FALSE, 5, 2)
MCTwentieth == Dec(FALSE, 20, 2)

(* The arithmetic against the integers: both signs, coefficients that end  *)
(* in zeros, carry and repeat, up to two fraction digits; up to four of a  *)
(* few values.                                                             *)
SomeDecimals ==
    {d \in [negative : BOOLEAN, scale : 0..2,
            coefficient : {0, 1, 2, 3, 7, 9, 10, 45, 50, 99, 100, 995}] : IsDecimal(d)}
SomeValues ==
    BoundedSeq({Zero, Whole(1), Whole(9), Dec(TRUE, 15, 1), Dec(FALSE, 995, 2)}, 4) \ {<<>>}
ASSUME ArithmeticSound ==
    /\ \A a, b \in SomeDecimals : ExactSums(a, b) /\ NearestQuotient(a, b)
    /\ \A a \in SomeDecimals, places \in 0..2 : NearestMoney(a, places)
    /\ \A values \in SomeValues : SoundStatistics(values)
=============================================================================
