------------------------------- MODULE Decimal -------------------------------
(***************************************************************************)
(* Exact base-ten arithmetic: packages/contracts/src/decimal.ts, with the  *)
(* display scales of packages/analysis and packages/scenario.              *)
(*                                                                         *)
(* A decimal string is the record of what it says: a sign, the number its  *)
(* digits spell without the point, and how many of them follow the point.  *)
(* "-0.50" is [negative |-> TRUE, coefficient |-> 50, scale |-> 2].        *)
(***************************************************************************)
EXTENDS Integers, FiniteSets, FiniteSetsExt

CONSTANTS Precision,    \* significant digits of a quotient, 40 in the code
          MaxLength     \* DECIMAL_MAX_LENGTH, 100 in the code

ASSUME DecimalAssumption == Precision \in Nat \ {0} /\ MaxLength \in Nat \ {0}

Dec(negative, coefficient, scale) ==
    [negative |-> negative, coefficient |-> coefficient, scale |-> scale]
Whole(n) == Dec(FALSE, n, 0)
Zero == Whole(0)
Digits(n) == IF n = 0 THEN 1 ELSE CHOOSE d \in 1..10 : n \in 10^(d - 1)..(10^d - 1)
Larger(a, b) == IF a < b THEN b ELSE a

(* The characters of the string.                                           *)
Length(d) ==
    LET point == IF d.scale > 0 THEN 1 ELSE 0
    IN Larger(Digits(d.coefficient), d.scale + 1) + point + (IF d.negative THEN 1 ELSE 0)

(* fromSigned: no trailing zero after the point, no sign on zero.          *)
SignedZero(negative, n, scale) == Dec(negative, n, scale)
Minimal(negative, n, scale) ==
    LET k == Max({j \in 0..scale : n % 10^j = 0})
    IN IF n = 0 THEN Zero ELSE Dec(negative, n \div 10^k, scale - k)

(* parseDecimal and its callers: is the string one of the language, is it  *)
(* its own shortest form, how many digits does it show.                    *)
Parse(d) == Minimal(d.negative, d.coefficient, d.scale)
IsDecimal(d) == Length(d) <= MaxLength /\ ~(d.coefficient = 0 /\ d.negative)
IsCanonicalDecimal(d) == Length(d) <= MaxLength /\ Parse(d) = d
SignificantDigits(d) == Digits(d.coefficient)
WithinSignificantDigitLimit(d, limit) ==
    Length(d) <= MaxLength /\ Digits(Parse(d).coefficient) <= limit
IsZeroDecimal(d) == Parse(d) = Zero
IsIntegerDecimal(d) == Parse(d).scale = 0

(* The value at a scale no smaller than its own, an integer.               *)
Signed(d, scale) ==
    (IF d.negative THEN -d.coefficient ELSE d.coefficient) * 10^(scale - d.scale)
Common(a, b) == Larger(a.scale, b.scale)
FromSigned(n, scale) == Minimal(n < 0, IF n < 0 THEN -n ELSE n, scale)

Ordering(x, y) == IF x < y THEN -1 ELSE IF x > y THEN 1 ELSE 0
Compare(a, b) == Ordering(Signed(a, Common(a, b)), Signed(b, Common(a, b)))
AddDecimal(a, b) == FromSigned(Signed(a, Common(a, b)) + Signed(b, Common(a, b)), Common(a, b))
SubtractDecimal(a, b) ==
    FromSigned(Signed(a, Common(a, b)) - Signed(b, Common(a, b)), Common(a, b))
Product(p, q) == FromSigned(Signed(p, p.scale) * Signed(q, q.scale), p.scale + q.scale)
MultiplyDecimal(a, b) == Product(Parse(a), Parse(b))
Beside(p, q) == p.coefficient * 10^(Common(p, q) - p.scale)
IsMultipleOfStep(value, step) ==
    step.coefficient # 0 /\ Beside(value, step) % Beside(step, value) = 0

(* divideDecimal: the fraction digits that the long division collects, the *)
(* rounding of the digits beyond the precision, and their place.           *)
Fraction(n, d) ==
    CHOOSE f \in 0..10 :
        LET ends(k) == \/ (n * 10^k) % d = 0
                       \/ /\ (n * 10^k) \div d # 0
                          /\ Digits((n * 10^k) \div d) >= Precision + 1
        IN ends(f) /\ \A k \in 0..f - 1 : ~ends(k)
RoundHalfEven(digits) ==
    LET drop == Digits(digits) - Precision
        rest == (digits \div 10^(drop - 1)) % 10
    IN digits \div 10^drop + (IF rest > 5 THEN 1 ELSE 0)
RoundHalfUp(digits) ==
    LET drop == Digits(digits) - Precision
        rest == (digits \div 10^(drop - 1)) % 10
    IN digits \div 10^drop + (IF rest >= 5 THEN 1 ELSE 0)
Placed(negative, digits, exponent) ==
    IF exponent >= 0 THEN Dec(negative, digits * 10^exponent, 0)
                     ELSE Minimal(negative, digits, -exponent)
Rounded(negative, digits, f) ==
    IF Digits(digits) <= Precision THEN Placed(negative, digits, -f)
    ELSE Placed(negative, RoundHalfUp(digits), Digits(digits) - Precision - f)
Quotient(p, q) ==
    LET n == Beside(p, q)
        d == Beside(q, p)
        f == Fraction(n, d)
    IN IF n = 0 THEN Zero ELSE Rounded(p.negative # q.negative, (n * 10^f) \div d, f)
DivideDecimal(a, b) == Quotient(Parse(a), Parse(b))

(* The display scales: padding of an exact total (formatScale), rounding   *)
(* of an amount of money (quantizeMoney).                                  *)
FractionScale(d) == d.scale
FormatScale(total, scale) ==
    IF total.scale >= scale THEN total
    ELSE Dec(total.negative, total.coefficient * 10^(scale - total.scale), scale)
QuantizeMoney(d, places) ==
    LET drop == 10^(d.scale - places)
        up == IF 2 * (d.coefficient % drop) >= drop THEN 1 ELSE 0
        kept == IF d.scale <= places THEN d.coefficient * 10^(places - d.scale)
                                     ELSE d.coefficient \div drop + up
    IN Dec(d.negative /\ kept # 0, kept, places)
=============================================================================
