------------------------------- MODULE Display -------------------------------
(***************************************************************************)
(* Numbers as the reader sees and types them: packages/i18n (format.ts,    *)
(* parse.ts), the writers' packages/export-pptx/src/format.ts, the unit    *)
(* rules of workspace/format.ts and evidence/model.ts, and the cost change *)
(* typed in workspace/ScenarioPanel.tsx.                                   *)
(*                                                                         *)
(* What is shown of a number is again a decimal record, its scale being    *)
(* the fraction digits on the screen; a percentage is the number before    *)
(* its sign.  Grouping, digits of a script and places of a currency are    *)
(* left out.                                                               *)
(***************************************************************************)
EXTENDS Decimal

CONSTANTS MaxFraction,      \* MAX_FRACTION_DIGITS
          GroupDigits,      \* digits between "k" and "m", 3 in the code
          PercentMin, PercentMax, PercentStep   \* what the panel accepts, as fractions

ASSUME DisplayAssumption == {MaxFraction, GroupDigits} \subseteq Nat \ {0}

WholePart(d) == d.coefficient \div 10^d.scale
Scaled(d, scale) == Dec(d.negative, d.coefficient * 10^(scale - d.scale), scale)

-----------------------------------------------------------------------------
(* i18n/format.ts: digits beyond the most are cut and round half up, with  *)
(* a carry; digits short of the least are zeros.                           *)

CarryLost(n) == IF n % 10 = 9 THEN n - 9 ELSE n + 1
IncrementDigits(n) == n + 1
CutTo(d, places) ==
    LET kept == d.coefficient \div 10^(d.scale - places)
        next == (d.coefficient \div 10^(d.scale - places - 1)) % 10
    IN Dec(d.negative, IF next >= 5 THEN IncrementDigits(kept) ELSE kept, places)
ApplyFractionBounds(d, least, most) ==
    LET cut == IF d.scale > most THEN CutTo(d, most) ELSE d
    IN IF cut.scale < least THEN Scaled(cut, least) ELSE cut

ShiftForPercent(d) ==
    IF d.scale <= 2 THEN Dec(d.negative, d.coefficient * 10^(2 - d.scale), 0)
                    ELSE Dec(d.negative, d.coefficient, d.scale - 2)

FormatNumber(d, most) == ApplyFractionBounds(d, 0, most)
FormatPercent(d, most) == ApplyFractionBounds(ShiftForPercent(d), 0, most)
IsFormattedInteger(d) == d.coefficient % 10^d.scale = 0
FormatInteger(d) == Dec(d.negative, WholePart(d), 0)

-----------------------------------------------------------------------------
(* export-pptx/format.ts, on its own digits: a percentage has one decimal, *)
(* its carry done by hand; an integer is cut; thousands and millions are   *)
(* cut to two decimals, never rounded.                                     *)

SlidePercent(d) ==
    LET shifted == ShiftForPercent(d)
        tenths == ((10 * shifted.coefficient) \div 10^shifted.scale) % 10
        hundredths == ((100 * shifted.coefficient) \div 10^shifted.scale) % 10
        rounded == tenths + (IF hundredths >= 5 THEN 1 ELSE 0)
        carry == IF rounded = 10 THEN 1 ELSE 0
    IN Dec(d.negative, 10 * (WholePart(shifted) + carry)
                           + (IF rounded = 10 THEN 0 ELSE rounded), 1)
Truncated(d, places) ==
    IF d.scale > places THEN Dec(d.negative, d.coefficient \div 10^(d.scale - places), places) ELSE d
Compact(shown, factor) == [shown |-> shown, factor |-> factor]
FormatCompact(d) ==
    LET magnitude == IF WholePart(d) = 0 THEN 0 ELSE Digits(WholePart(d))
        moved(places) == Dec(d.negative, d.coefficient, d.scale + places)
    IN CASE magnitude > 2 * GroupDigits ->
              Compact(Truncated(moved(2 * GroupDigits), 2), 10^(2 * GroupDigits))
         [] magnitude \in GroupDigits + 1..2 * GroupDigits ->
              Compact(Truncated(moved(GroupDigits), 2), 10^GroupDigits)
         [] OTHER -> Compact(d, 1)

-----------------------------------------------------------------------------
(* By unit: the workspace, the slides, the evidence dialog.                *)

Counted == {"records", "orders", "minutes", "score"}
WorkspaceShows(value, unit) ==
    CASE unit = "ratio" -> FormatPercent(value, 1)
      [] unit \in Counted -> FormatInteger(value)
      [] OTHER -> FormatNumber(value, 2)
WorkspaceRefuses(value, unit) == unit \in Counted /\ ~IsFormattedInteger(value)
SlideShows(value, unit) ==
    CASE unit = "ratio" -> SlidePercent(value)
      [] unit \in Counted -> FormatInteger(value)
      [] OTHER -> value
EvidenceShows(value, unit) ==
    IF unit \in {"ratio", "pp"} THEN FormatPercent(value, MaxFraction)
    ELSE FormatNumber(value, MaxFraction)

-----------------------------------------------------------------------------
(* A typed text: how it is written and the number that its digits spell.   *)
(* The parser takes plain digits and whole groups of three, no plus sign   *)
(* and no comma that could be a decimal one; its result is the shortest.   *)

Typed(form, dec) == [form |-> form, dec |-> dec]
ParsesAsDecimal(t) == t.form \in {"plain", "grouped"}
ParseLocalizedDecimal(t) == Parse(t.dec)

(* parsePercentInput drops one percent sign; the point of the parsed       *)
(* number then moves two places, counted from digits without their leading *)
(* zeros but a whole part that still has its own.                          *)
WithoutSign(t) == IF t.form = "percent" THEN [t EXCEPT !.form = "plain"] ELSE t
ShiftTwo(d) ==
    LET whole == Larger(Digits(d.coefficient) - d.scale, 1)
        digits == Digits(d.coefficient)
        point == whole - 2
    IN IF point <= 0 THEN Dec(d.negative, d.coefficient, digits - point)
       ELSE IF point >= digits THEN Dec(d.negative, d.coefficient * 10^(point - digits), 0)
       ELSE Dec(d.negative, d.coefficient, digits - point)
PercentAccepted(t) ==
    /\ ParsesAsDecimal(WithoutSign(t))
    /\ LET fraction == ShiftTwo(ParseLocalizedDecimal(WithoutSign(t)))
       IN /\ Compare(fraction, PercentMin) >= 0 /\ Compare(fraction, PercentMax) <= 0
          /\ IsMultipleOfStep(fraction, PercentStep)
ParsePercentInput(t) == ShiftTwo(ParseLocalizedDecimal(WithoutSign(t)))
=============================================================================
