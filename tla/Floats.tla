-------------------------------- MODULE Floats --------------------------------
(***************************************************************************)
(* Binary floating point as far as extension/ needs it: halves of integers *)
(* with Precision significant bits (53 in a double) up to a largest one,   *)
(* infinities and NaN.  A half is the smallest number there is, and zero   *)
(* has no sign, which shows in quotients by zero only.  This is LLVM's and *)
(* the processor's, not code of this repository.                           *)
(***************************************************************************)
EXTENDS Integers

CONSTANTS Precision, MaxHalves  \* the largest finite float, in halves

ASSUME PrecisionAssumption == Precision \in Nat /\ Precision > 1 /\ MaxHalves \in Nat

Finite(halves) == [cls |-> "finite", halves |-> halves]
PosInf == [cls |-> "+inf", halves |-> 0]
NegInf == [cls |-> "-inf", halves |-> 0]
NaN    == [cls |-> "nan", halves |-> 0]

IsFinite(f) == f.cls = "finite"
IsFloat(f) == f \in {PosInf, NegInf, NaN} \/ (f.halves \in Int /\ f = Finite(f.halves))

\* Rounding of an integer to Precision bits, to nearest and to even on a tie:
\* to a multiple of 2^Shift, the spacing of floats where it lies.
Shift(abs) == CHOOSE s \in 0 .. abs : /\ abs < 2^(Precision + s)
                                      /\ s > 0 => abs >= 2^(Precision + s - 1)
RoundTo(unit, abs) ==
    LET below == abs \div unit
        twice == 2 * (abs % unit)
        up    == twice > unit \/ (twice = unit /\ below % 2 = 1)
    IN unit * (IF up THEN below + 1 ELSE below)
Round(n) == IF n < 0 THEN -RoundTo(2^Shift(-n), -n) ELSE RoundTo(2^Shift(n), n)

FromInt(n) == Finite(2 * Round(n))

\* The float nearest to num / den halves, den > 0; infinite beyond the largest.
Abs(n) == IF n < 0 THEN -n ELSE n
Nearest(num, den) ==
    LET abs == RoundTo(2^Shift(Abs(num) \div den) * den, Abs(num)) \div den
    IN IF abs <= MaxHalves THEN Finite(IF num < 0 THEN -abs ELSE abs)
       ELSE IF num < 0 THEN NegInf ELSE PosInf

\* Sum, product and quotient.  x / 0 may be either infinity, for want of signed zeros.
Sgn(f) == CASE f = PosInf -> 1 [] f = NegInf -> -1
            [] OTHER -> IF f.halves > 0 THEN 1 ELSE IF f.halves < 0 THEN -1 ELSE 0
Infinity(sign) == IF sign > 0 THEN PosInf ELSE IF sign < 0 THEN NegInf ELSE NaN
Negated(f) == CASE f = PosInf -> NegInf [] f = NegInf -> PosInf
                [] f = NaN -> NaN [] OTHER -> Finite(-f.halves)
Sum(a, b) ==
    IF NaN \in {a, b} THEN NaN
    ELSE IF IsFinite(a) /\ IsFinite(b) THEN Nearest(a.halves + b.halves, 1)
    ELSE IF IsFinite(a) THEN b
    ELSE IF IsFinite(b) \/ a = b THEN a ELSE NaN
Product(a, b) ==
    IF NaN \in {a, b} THEN NaN
    ELSE IF IsFinite(a) /\ IsFinite(b) THEN Nearest(a.halves * b.halves, 2)
    ELSE Infinity(Sgn(a) * Sgn(b))
Quotients(a, b) ==
    IF NaN \in {a, b} THEN {NaN}
    ELSE IF ~IsFinite(b) THEN {IF IsFinite(a) THEN Finite(0) ELSE NaN}
    ELSE IF b.halves = 0 THEN IF Sgn(a) = 0 THEN {NaN} ELSE {PosInf, NegInf}
    ELSE {IF IsFinite(a) THEN Nearest(Sgn(b) * a.halves * 2, Abs(b.halves))
                         ELSE Infinity(Sgn(a) * Sgn(b))}

\* The integer part, rounding towards zero.
Truncate(f) == IF f.halves >= 0 THEN f.halves \div 2 ELSE -((-f.halves) \div 2)

\* The ordered comparisons: false when an operand is NaN.
Ordered(a, b) == a # NaN /\ b # NaN
OEQ(a, b) == Ordered(a, b) /\ a = b
ONE(a, b) == Ordered(a, b) /\ a # b
OLT(a, b) == /\ Ordered(a, b) /\ a # b
             /\ \/ a = NegInf
                \/ b = PosInf
                \/ IsFinite(a) /\ IsFinite(b) /\ a.halves < b.halves
OLE(a, b) == OLT(a, b) \/ OEQ(a, b)
UNO(a, b) == ~Ordered(a, b)
=============================================================================
