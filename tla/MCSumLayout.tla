------------------------------ MODULE MCSumLayout ------------------------------
(***************************************************************************)
(* SumLayout on small sum types: the empty sum, tuples, booleans, options, *)
(* and sums of variants of different lengths.                              *)
(***************************************************************************)
EXTENDS SumLayout

CONSTANT MaxFields

MCSumTypes == {<<>>, <<0>>, <<2>>, <<0, 0>>, <<0, 1>>, <<2, 1>>, <<1, 0, 2>>}
MCRows == UNION {[1 .. n -> Value] : n \in 0 .. MaxFields}
=============================================================================
