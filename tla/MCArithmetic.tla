----------------------------- MODULE MCArithmetic -----------------------------
(***************************************************************************)
(* Integers of 1, 2, 4 and 8 bits, the first three stored in 4 bits, and   *)
(* floats of 5 bits, for widths up to 64, i8 and doubles.  Constants are   *)
(* at and around the bounds of the types, of the exact floats and of all   *)
(* floats, the largest of which is 31 * 2^6 halves.                        *)
(***************************************************************************)
EXTENDS Arithmetic

MCIntConsts(l) == IF l <= 2 THEN 0 .. 2^(2^l) - 1
                  ELSE {0, 1, 2, 31, 32, 33, 35, 99, 127, 128, 129, 223, 224, 254, 255}

MCFloatConsts ==
    {PosInf, NegInf, NaN} \cup
    {Finite(h) : h \in {0, 1, 2, 3, 14, 15, 16, 29, 30, 31, 32, 248, 256, 496, 512, 1984}
                       \cup {-1, -2, -3, -16, -18, -32, -248, -256, -272, -1984}}
=============================================================================
