------------------------------ MODULE Arithmetic ------------------------------
(***************************************************************************)
(* The LLVM code emitted for integers, floats, conversions between them,   *)
(* logic and rotations, executed on one wire.  A program applies           *)
(* operations to the wire in any order its type allows; the other operand  *)
(* of a binary operation is a constant.  An integer wire holds v, the bits *)
(* of the LLVM value, beside m, the integer the HUGR's operations mean.    *)
(*                                                                         *)
(* int<l> has 2^l bits and is lowered to an LLVM integer of StorageWidth   *)
(* bits: NarrowLog (3 in the code) and below share one type, i8.  Widths   *)
(* are scaled down with Precision so that, as in the code, Precision lies  *)
(* between the two largest widths: some integers are not floats.           *)
(***************************************************************************)
EXTENDS Integers, Sequences, FiniteSets, Floats

CONSTANTS NarrowLog,    \* the largest l lowered to the narrowest LLVM type
          MaxLog,       \* the largest l (6 in the code)
          Logs,         \* the l of the int<l> the program computes with
          IntConsts(_), \* IntConsts(l): the constants of int<l> it loads
          FloatConsts   \* the float constants it loads

\* Floats hold the integers of all types but the widest, and are more than one
\* bit short of those (in the code 32 < 53 < 63).
ASSUME WidthAssumption ==
    /\ MaxLog \in Nat /\ NarrowLog \in 1 .. MaxLog /\ Logs \subseteq 0 .. MaxLog
    /\ 2^(MaxLog - 1) < Precision /\ Precision < 2^MaxLog - 1
    /\ 2 * 2^(2^MaxLog) <= MaxHalves
    /\ \A l \in Logs : IntConsts(l) \subseteq 0 .. 2^(2^l) - 1
    /\ \A f \in FloatConsts : IsFloat(f)

VARIABLES x,      \* the wire
          halted, \* the program has panicked
          astray  \* an instruction took the bits of a wire for another number
                  \* than the operation means

vars == <<x, halted, astray>>

Width(l) == 2^l
StorageWidth(l) == IF l <= NarrowLog THEN Width(NarrowLog) ELSE Width(l)

Wrap(n, width)   == n % 2^width
Signed(n, width) == IF n >= 2^(width - 1) THEN n - 2^width ELSE n

Poison == -1

NoWire == [t |-> "none"]
IntWire(l, v, m) == [t |-> "int", log |-> l, v |-> v, m |-> m]
BoolWire(v, m)   == [t |-> "bool", v |-> v, m |-> m]
\* Float wires remember the integer they were converted from, if any.
FloatWire(f, from) == [t |-> "float", v |-> f, from |-> from]
NoInt == [log |-> -1, signed |-> FALSE, m |-> 0]
\* The result of a trunc: its variant and field, and the float it was applied to.
Truncated(l, signed, tag, v, arg, from) ==
    [t |-> "truncated", log |-> l, signed |-> signed, tag |-> tag, v |-> v,
     arg |-> arg, from |-> from]
\* Rotations remember whether they are sums; the optional rotation that
\* from_halfturns makes, the float it was applied to.
Rotation(f, sum) == [t |-> "rotation", v |-> f, sum |-> sum]
Halfturns(tag, f, arg) == [t |-> "option", tag |-> tag, v |-> f, arg |-> arg]

\* The number an instruction reads off an integer's bits is the one meant.
ReadsRight(w, signed) ==
    IF signed THEN Signed(w.v, StorageWidth(w.log)) = Signed(w.m, Width(w.log)) ELSE w.v = w.m

PutRead(right, w) == x' = w /\ astray' = (astray \/ ~right) /\ UNCHANGED halted
Put(w) == x' = w /\ UNCHANGED <<halted, astray>>
\* A wire that means what its value is: nothing has gone astray yet.
PutFresh(w) == x' = w /\ astray' = FALSE /\ UNCHANGED halted

-----------------------------------------------------------------------------
(* extension/int.rs *)

\* emit_const_int: the unsigned value, with no sign extension.
ConstInt(l, k) == IntWire(l, Wrap(k, StorageWidth(l)), k)

LoadInt(l, k) == PutFresh(ConstInt(l, k))

\* A binary operation on numbers of the given width, in two's complement; signed
\* quotients are rounded towards zero.
Divisions == {"idiv_u", "idiv_s", "imod_s"}
BinaryOps == {"iadd", "isub", "imul"} \cup Divisions
Quotient(a, b) == LET q == IF b = 0 THEN 0 ELSE Abs(a) \div Abs(b)
                  IN IF (a < 0) = (b < 0) THEN q ELSE -q
Apply(op, a, b, width) ==
    LET s == Signed(a, width)
        r == Signed(b, width)
    IN CASE op = "iadd"   -> Wrap(a + b, width)
         [] op = "isub"   -> Wrap(a - b, width)
         [] op = "imul"   -> Wrap(a * b, width)
         [] op = "idiv_u" -> Wrap(Quotient(a, b), width)
         [] op = "idiv_s" -> Wrap(Quotient(s, r), width)
         [] op = "imod_s" -> Wrap(s - r * Quotient(s, r), width)

\* Divisions by zero, and of the smallest number by -1, are undefined in LLVM.
Defined(op, a, b, width) ==
    /\ op \in Divisions => b # 0
    /\ op \in {"idiv_s", "imod_s"} => ~(a = 2^(width - 1) /\ b = 2^width - 1)

\* Faulty: every integer is computed with in the largest type.
LlvmBinaryWide(op, l, a, b) == Apply(op, a, b, Width(MaxLog))

\* emit_int_op: one instruction of the storage type.  x is the left or right operand.
LlvmBinary(op, l, a, b) == Apply(op, a, b, StorageWidth(l))

\* Sums, differences and products of the bits are right up to the width whatever
\* lies beyond it, but a division reads the bits it is given as a number.  What a
\* signed division means for negative numbers this repository does not say.
DividesRight(op, a, b) ==
    LET signed == op # "idiv_u" IN
    /\ ReadsRight(a, signed) /\ ReadsRight(b, signed)
    /\ signed => Signed(a.m, Width(a.log)) >= 0 /\ Signed(b.m, Width(b.log)) > 0

IntBinary(op, k, left) ==
    /\ x.t = "int"
    /\ LET c == ConstInt(x.log, k)
           a == IF left THEN x ELSE c
           b == IF left THEN c ELSE x
       IN /\ Defined(op, a.v, b.v, StorageWidth(x.log))
          /\ PutRead(op \in Divisions => DividesRight(op, a, b),
                     IntWire(x.log, LlvmBinary(op, x.log, a.v, b.v),
                             Apply(op, a.m, b.m, Width(x.log))))

IntNeg == /\ x.t = "int"
          /\ Put(IntWire(x.log, Wrap(-x.v, StorageWidth(x.log)), Wrap(-x.m, Width(x.log))))

\* emit_icmp: an LLVM comparison, as a bool.
SignedPredicates == {"ilt_s", "ile_s", "igt_s", "ige_s"}
Predicates == {"ieq", "ilt_u", "ile_u", "igt_u", "ige_u"} \cup SignedPredicates
Holds(pred, a, b, width) ==
    LET s == Signed(a, width)
        r == Signed(b, width)
    IN CASE pred = "ieq" -> a = b
         [] pred = "ilt_u" -> a < b  [] pred = "ilt_s" -> s < r
         [] pred = "ile_u" -> a <= b [] pred = "ile_s" -> s <= r
         [] pred = "igt_u" -> a > b  [] pred = "igt_s" -> s > r
         [] pred = "ige_u" -> a >= b [] pred = "ige_s" -> s >= r

IntCompare(pred, k) ==
    /\ x.t = "int"
    /\ LET c == ConstInt(x.log, k)
           signed == pred \in SignedPredicates
       IN PutRead(ReadsRight(x, signed) /\ ReadsRight(c, signed),
                  BoolWire(Holds(pred, x.v, c.v, StorageWidth(x.log)),
                           Holds(pred, x.m, k, Width(x.log))))

-----------------------------------------------------------------------------
(* extension/float.rs *)

LoadFloat(f) == PutFresh(FloatWire(f, NoInt))

\* Arithmetic, by the LLVM instruction of the same name.
FloatBinaryOps == {"fadd", "fsub", "fmul", "fdiv"}
LlvmFloatBinary(op, a, b) ==
    CASE op = "fadd" -> {Sum(a, b)}     [] op = "fsub" -> {Sum(a, Negated(b))}
      [] op = "fmul" -> {Product(a, b)} [] op = "fdiv" -> Quotients(a, b)

FloatBinary(op, f, left) ==
    /\ x.t = "float"
    /\ \E r \in LlvmFloatBinary(op, IF left THEN x.v ELSE f, IF left THEN f ELSE x.v) :
          PutFresh(FloatWire(r, NoInt))

FloatNeg == x.t = "float" /\ PutFresh(FloatWire(Negated(x.v), NoInt))

LlvmFloatCompare(pred, a, b) ==
    CASE pred = "feq" -> OEQ(a, b) [] pred = "fne" -> ONE(a, b)
      [] pred = "flt" -> OLT(a, b) [] pred = "fgt" -> OLT(b, a)
      [] pred = "fle" -> OLE(a, b) [] pred = "fge" -> OLE(b, a)

\* What a comparison means: as real numbers between two infinities, and false on NaN.
Sign(f) == CASE f = PosInf -> 1 [] f = NegInf -> -1 [] OTHER -> 0
Difference(a, b) == IF Sign(a) # Sign(b) THEN Sign(a) - Sign(b) ELSE a.halves - b.halves
MeansCompare(pred, a, b) ==
    /\ NaN \notin {a, b}
    /\ LET d == Difference(a, b)
       IN CASE pred = "feq" -> d = 0 [] pred = "fne" -> d # 0
            [] pred = "flt" -> d < 0 [] pred = "fgt" -> d > 0
            [] pred = "fle" -> d <= 0 [] pred = "fge" -> d >= 0

FloatCompare(pred, f) ==
    /\ x.t = "float"
    /\ PutFresh(BoolWire(LlvmFloatCompare(pred, x.v, f), MeansCompare(pred, x.v, f)))

-----------------------------------------------------------------------------
(* extension/conversions.rs *)

\* The integer on the wire, as it is read and as it is meant.
Converted(signed) == [log |-> x.log, signed |-> signed,
                      m |-> IF signed THEN Signed(x.m, Width(x.log)) ELSE x.m]

\* Faulty: converts every integer as unsigned.
ConvertUnsigned(signed) ==
    /\ x.t = "int"
    /\ PutRead(ReadsRight(x, signed), FloatWire(FromInt(x.v), Converted(signed)))

\* convert_u and convert_s, by uitofp and sitofp.
Convert(signed) ==
    /\ x.t = "int"
    /\ PutRead(ReadsRight(x, signed),
               FloatWire(FromInt(IF signed THEN Signed(x.v, StorageWidth(x.log)) ELSE x.v),
                         Converted(signed)))

MaxInt(l, signed) == IF signed THEN 2^(Width(l) - 1) - 1 ELSE 2^Width(l) - 1
MinInt(l, signed) == IF signed THEN -(2^(Width(l) - 1)) ELSE 0

\* Faulty: lets the bound itself through.
WithinUpperBoundInclusive(f, l, signed) == OLE(f, FromInt(MaxInt(l, signed)))

\* Faulty: refuses the lower bound itself.
WithinLowerBoundStrict(f, l, signed) == OLT(FromInt(MinInt(l, signed)), f)

\* The checks of build_trunc_op, against the bounds as floats.
WithinUpperBound(f, l, signed) == OLT(f, FromInt(MaxInt(l, signed)))
WithinLowerBound(f, l, signed) == OLE(FromInt(MinInt(l, signed)), f)

\* fptosi and fptoui: poison when the integer part is not in the LLVM type.
FloatToInt(f, signed, width) ==
    IF IsFinite(f) /\ Truncate(f) \in (IF signed THEN -(2^(width - 1)) ELSE 0)
                                      .. (IF signed THEN 2^(width - 1) - 1 ELSE 2^width - 1)
    THEN Wrap(Truncate(f), width) ELSE Poison

\* build_trunc_op: the conversion is done in any case, and selected or not.
Trunc(l, signed) ==
    /\ x.t = "float"
    /\ LET success == WithinUpperBound(x.v, l, signed) /\ WithinLowerBound(x.v, l, signed)
           v == FloatToInt(x.v, signed, StorageWidth(l))
       IN Put(IF success THEN Truncated(l, signed, 1, v, x.v, x.from)
                         ELSE Truncated(l, signed, 0, 0, x.v, x.from))

\* The program takes the integer out of a successful trunc.
UnwrapTrunc == /\ x.t = "truncated" /\ x.tag = 1
               /\ PutFresh(IntWire(x.log, x.v, Wrap(Truncate(x.arg), Width(x.log))))

\* itobool and ifrombool, between bool and int<0>.
IToBool == /\ x.t = "int" /\ x.log = 0
           /\ PutRead(ReadsRight(x, FALSE), BoolWire(x.v = 1, x.m = 1))
IFromBool == /\ x.t = "bool"
             /\ Put(IntWire(0, IF x.v THEN 1 ELSE 0, IF x.m THEN 1 ELSE 0))

-----------------------------------------------------------------------------
(* extension/logic.rs: And, Or and Eq on two or more inputs, folded over the *)
(* tags.  x is the first or the last of the inputs, bs are the others.       *)

\* Faulty: Eq compares each input with the result so far.
NaryEqOfEq(op, tags) ==
    LET Parity == {i \in 1 .. Len(tags) : ~tags[i]}
    IN CASE op = "And" -> Parity = {}
         [] op = "Or"  -> Parity # 1 .. Len(tags)
         [] op = "Eq"  -> Cardinality(Parity) % 2 = 0

Nary(op, tags) ==
    LET n == Len(tags) IN
    CASE op = "And" -> \A i \in 1 .. n : tags[i]
      [] op = "Or"  -> \E i \in 1 .. n : tags[i]
      [] op = "Eq"  -> \* the last two are popped, the others compared with the last
                       (tags[n] = tags[n - 1]) /\ \A i \in 1 .. n - 2 : tags[i] = tags[n]

MeansLogic(op, S) == CASE op = "And" -> S = {TRUE} [] op = "Or" -> TRUE \in S
                       [] op = "Eq"  -> \E b \in BOOLEAN : S = {b}

Logic(op, bs, first) ==
    /\ x.t = "bool"
    /\ Put(BoolWire(Nary(op, IF first THEN <<x.v>> \o bs ELSE Append(bs, x.v)),
                MeansLogic(op, {x.m} \cup {bs[i] : i \in 1 .. Len(bs)})))

-----------------------------------------------------------------------------
(* extension/rotation.rs: a rotation is a float, a number of half turns. *)

\* The constant is finite: the extension's ConstRotation is made of no other.
LoadRotation(f) == IsFinite(f) /\ PutFresh(Rotation(f, FALSE))

\* radd: one addition and no check.  The other rotation may be a sum too, so
\* it is any float.
RAdd(f) == x.t = "rotation" /\ Put(Rotation(Sum(x.v, f), TRUE))

\* Faulty: forgets the negative infinity.
HalfturnsOkNegInf(f) == ~(OEQ(f, PosInf) \/ UNO(f, Finite(0)))

\* emit_from_halfturns: neither an infinity nor NaN, by three comparisons.
HalfturnsOk(f) == ~(OEQ(f, PosInf) \/ OEQ(f, NegInf) \/ UNO(f, Finite(0)))

FromHalfturns == /\ x.t = "float"
                 /\ Put(IF HalfturnsOk(x.v) THEN Halfturns(1, x.v, x.v)
                                            ELSE Halfturns(0, Finite(0), x.v))

UnwrapRotation == /\ x.t = "option" /\ x.tag = 1
                  /\ Put(Rotation(x.v, FALSE))

\* from_halfturns_unchecked: the fail block panics, the success block goes on.
FromHalfturnsUnchecked ==
    /\ x.t = "float"
    /\ IF HalfturnsOk(x.v) THEN Put(Rotation(x.v, FALSE))
                           ELSE halted' = TRUE /\ UNCHANGED <<x, astray>>

ToHalfturns == /\ x.t = "rotation"
               /\ Put(FloatWire(x.v, NoInt))

-----------------------------------------------------------------------------
Init == x = NoWire /\ halted = FALSE /\ astray = FALSE

Step == \/ \E l \in Logs : \E k \in IntConsts(l) : LoadInt(l, k)
        \/ \E l \in Logs : \E k \in IntConsts(l) :
              /\ x.t = "int" /\ x.log = l
              /\ \/ \E op \in BinaryOps, left \in BOOLEAN : IntBinary(op, k, left)
                 \/ \E pred \in Predicates : IntCompare(pred, k)
        \/ x.t = "int" /\ x.log \in Logs /\ (IntNeg \/ \E signed \in BOOLEAN : Convert(signed))
        \/ \E f \in FloatConsts : \/ LoadFloat(f) \/ LoadRotation(f) \/ RAdd(f)
                                 \/ \E op \in FloatBinaryOps, left \in BOOLEAN :
                                       FloatBinary(op, f, left)
        \/ FloatNeg
        \/ \E f \in FloatConsts, pred \in {"feq", "fne", "flt", "fgt", "fle", "fge"} :
              FloatCompare(pred, f)
        \/ \E l \in Logs, signed \in BOOLEAN : Trunc(l, signed)
        \/ UnwrapTrunc \/ IToBool \/ IFromBool
        \/ \E op \in {"And", "Or", "Eq"}, n \in 1 .. 2, first \in BOOLEAN :
              \E bs \in [1 .. n -> BOOLEAN] : Logic(op, bs, first)
        \/ FromHalfturns \/ UnwrapRotation \/ FromHalfturnsUnchecked \/ ToHalfturns

Next == ~halted /\ Step

Spec == Init /\ [][Next]_vars

-----------------------------------------------------------------------------
(* Properties. *)

\* The type invariant.
TypeOK ==
    /\ halted \in BOOLEAN /\ astray \in BOOLEAN
    /\ x.t \in {"none", "int", "bool", "float", "truncated", "rotation", "option"}
    /\ x.t = "int" => /\ x.log \in Logs \cup {0}
                      /\ x.v \in {Poison} \cup 0 .. 2^StorageWidth(x.log) - 1
                      /\ x.m \in 0 .. 2^Width(x.log) - 1
    /\ x.t = "bool" => x.v \in BOOLEAN /\ x.m \in BOOLEAN

\* The emitted instructions compute what the operations mean, after any sequence
\* of them.  An integer narrower than its LLVM type is right up to its width,
\* whatever its overflows left beyond: until an operation reads those bits as
\* part of the number.  One that fills its LLVM type is right throughout.
ComputesTheOperations ==
    /\ x.t = "int" => /\ NarrowLog <= x.log => x.v = x.m
                      /\ ~astray => Wrap(x.v, Width(x.log)) = x.m
    /\ x.t = "bool" /\ ~astray => x.v = x.m
    /\ x.t = "float" /\ x.from # NoInt /\ ~astray => x.v = FromInt(x.from.m)

\* The conversion that trunc does unconditionally gives poison when the float is
\* out of range: that value is never the one selected, not even where the bound,
\* rounded to a float, is larger than every integer of the type.
PoisonIsNotSelected == x.t \in {"int", "truncated"} => x.v # Poison

\* A trunc that succeeds gives the integer part, which is in the range of int<l>;
\* one that fails was applied to a float outside [min, max), NaN included.
TruncIsRight ==
    x.t = "truncated" =>
        LET n == Truncate(x.arg) IN
        IF x.tag = 1
        THEN /\ n \in MinInt(x.log, x.signed) .. MaxInt(x.log, x.signed)
             /\ x.v = Wrap(n, StorageWidth(x.log))
        ELSE ~ /\ IsFinite(x.arg)
               /\ 2 * MinInt(x.log, x.signed) <= x.arg.halves
               /\ x.arg.halves < 2 * MaxInt(x.log, x.signed)

\* An integer of the largest width, converted and truncated back: exact up to
\* 2^Precision, and beyond that an error or off by at most half the spacing of
\* floats there (the tests of conversions.rs:476-568, on some of the values).
RoundTrips ==
    x.t = "truncated" /\ x.log = MaxLog /\ x.from.log = MaxLog /\ x.from.signed = x.signed =>
        LET n == IF x.signed THEN Signed(x.v, Width(MaxLog)) ELSE x.v
            d == n - x.from.m
        IN /\ x.from.m \in -(2^Precision) .. 2^Precision => x.tag = 1 /\ d = 0
           /\ x.tag = 1 => LET r == 2^(Width(MaxLog) - Precision - 1) IN -r <= d /\ d <= r

\* from_halfturns and from_halfturns_unchecked let a float through exactly when it
\* is finite, also one that was a rotation before: a rotation that is not finite
\* is a sum, and does not survive being taken to half turns and back.
HalfturnsAreChecked ==
    /\ x.t = "option" => (x.tag = 1 <=> IsFinite(x.arg)) /\ (x.tag = 1 => x.v = x.arg)
    /\ x.t = "rotation" /\ ~IsFinite(x.v) => x.sum
    /\ halted => x.t = "float" /\ ~IsFinite(x.v)

\* What the tests say of round trips (conversions.rs:492), at every width: exact
\* up to 2^Precision.  The largest integer of a type comes out as an error.
RoundTripsAreExact ==
    x.t = "truncated" /\ x.from.log = x.log /\ x.from.signed = x.signed
      /\ x.from.m \in -(2^Precision) .. 2^Precision
    => x.tag = 1 /\ Truncate(x.arg) = x.from.m

\* What emit_const_int's comment relies on (int.rs:142-144): the bits of the
\* constant, not sign-extended, are the two's complement value of the LLVM type.
ConstantsKeepTheirSign ==
    \A l \in Logs : \A k \in IntConsts(l) :
        x = ConstInt(l, k) => Signed(x.v, StorageWidth(l)) = Signed(k, Width(l))
=============================================================================
