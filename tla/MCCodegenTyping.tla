---------------------------- MODULE MCCodegenTyping ----------------------------
(***************************************************************************)
(* CodegenTyping with the repository's extensions, a PreludeCodegen like   *)
(* the one of its tests, one with an error type of its own, and single     *)
(* type callbacks such as a user may register.                             *)
(***************************************************************************)
EXTENDS CodegenTyping, FiniteSetsExt

-----------------------------------------------------------------------------
(* HUGR types *)

Usize == Custom("usize")
Qubit == Custom("qubit")
String == Custom("string")
Error == Custom("error")
Rot == Rotation
FuncT(ins, outs) == [is |-> "func", ins |-> ins, outs |-> outs]
Var == [is |-> "var"]
Tuple(ts) == SumOf(<<ts>>)
Option(ts) == SumOf(<<<<>>, ts>>)
OrError(t) == SumOf(<<<<Error>>, <<t>>>>)
Either(ts) == SumOf(<<ts, ts>>)

Pair == ArrayT(Rot, 2)
Map == FuncT(<<String, Float64>>, <<Float64>>)

MCHugrTypes ==
    {Usize, Qubit, String, Error, Float64, Rot, Var, Bool, Pair, ArrayT(Rot, 1), ArrayT(Rot, 0), Map,
     Tuple(<<Usize, Map>>), Tuple(<<Var>>), Tuple(<<Qubit>>), Option(<<Rot>>), Option(<<Pair>>),
     Option(<<Rot, ArrayT(Rot, 1)>>), Either(<<Rot, Pair>>), Either(<<Pair>>),
     OrError(IntT(5))}
      \cup {IntT(w) : w \in {0, 3, 5, 6, 7}}

MCDepth[t \in MCHugrTypes] ==
    IF Within(t) = {} THEN 0 ELSE 1 + Max({MCDepth[u] : u \in Within(t)})

-----------------------------------------------------------------------------
(* What is lowered *)

Load(key, of) == [is |-> "const", key |-> key, of |-> of]
Op(key, ins, outs) == [is |-> "op", key |-> key, ins |-> ins, outs |-> outs, row |-> <<>>]
OpOf(key, ins, sum) ==
    [is |-> "op", key |-> key, ins |-> ins, outs |-> <<sum>>, row |-> sum.rows[Len(sum.rows)]]

MCRequests ==
    {Load("ConstUsize", Usize), Load("ConstExternalSymbol", Qubit),
     Load("ConstString", String), Load("ConstError", Error), Load("ConstInt", IntT(3)),
     Load("ConstInt", IntT(7)), Load("ConstF64", Float64), Load("ConstRotation", Rot),
     Op("MakeTuple", <<Usize, Map>>, <<Tuple(<<Usize, Map>>)>>),
     Op("UnpackTuple", <<Tuple(<<Qubit>>)>>, <<Qubit>>),
     Op("MakeTuple", <<Var>>, <<Tuple(<<Var>>)>>),
     [Op("new_array", <<Rot, Rot>>, <<Pair>>) EXCEPT !.row = <<Rot>>],
     [Op("new_array", <<>>, <<ArrayT(Rot, 0)>>) EXCEPT !.row = <<Rot>>],
     Op("discard_empty", <<ArrayT(Rot, 0)>>, <<>>),
     OpOf("get", <<Pair, Usize>>, Option(<<Rot>>)),
     OpOf("set", <<Pair, Usize, Rot>>, Either(<<Rot, Pair>>)),
     OpOf("swap", <<Pair, Usize, Usize>>, Either(<<Pair>>)),
     OpOf("pop_left", <<Pair>>, Option(<<Rot, ArrayT(Rot, 1)>>)),
     Op("print", <<String>>, <<>>), Op("panic", <<Error, Qubit>>, <<Qubit>>),
     Op("iadd", <<IntT(5), IntT(5)>>, <<IntT(5)>>), Op("ieq", <<IntT(5), IntT(5)>>, <<Bool>>),
     Op("ishl", <<IntT(5), IntT(5)>>, <<IntT(5)>>),
     Op("fadd", <<Float64, Float64>>, <<Float64>>), Op("feq", <<Float64, Float64>>, <<Bool>>),
     Op("fabs", <<Float64>>, <<Float64>>),
     Op("And", <<Bool, Bool>>, <<Bool>>), Op("And", <<>>, <<Bool>>),
     Op("Eq", <<Bool>>, <<Bool>>), Op("Not", <<Bool>>, <<Bool>>),
     OpOf("trunc_u", <<Float64>>, OrError(IntT(5))), Op("convert_u", <<IntT(5)>>, <<Float64>>),
     Op("itousize", <<IntT(6)>>, <<Usize>>), Op("ifromusize", <<Usize>>, <<IntT(6)>>),
     Op("itobool", <<IntT(0)>>, <<Bool>>), Op("ifrombool", <<Bool>>, <<IntT(0)>>),
     Op("radd", <<Rot, Rot>>, <<Rot>>), Op("to_halfturns", <<Rot>>, <<Float64>>),
     OpOf("from_halfturns", <<Float64>>, Option(<<Rot>>)),
     Op("from_halfturns_unchecked", <<Float64>>, <<Rot>>)}

-----------------------------------------------------------------------------
(* What is registered *)

Overrides ==
    {<<CustomTypeCall("string", "fixed", Struct(<<>>))>>,
     <<CustomTypeCall("usize", "fixed", Ptr)>>,
     <<CustomTypeCall("rotation", "fixed", <<"float", 32>>)>>,
     <<CustomTypeCall("array", "fixed", Ptr)>>,
     <<CustomTypeCall("error", "fixed", LlvmInt(32))>>}

\* The int, float, logic and conversion extensions, added by one chain.
Standard == AddIntExtensions \o AddFloatExtensions \o AddLogicExtensions

MCExtensions ==
    {DefaultPrelude,
     Prelude(LlvmInt(32), F64, DefaultError),                          \* of the tests
     Prelude(LlvmInt(64), LlvmInt(16), Struct(<<LlvmInt(64), Ptr>>)),
     Standard \o ConversionExtension, RotationExtension}
      \cup Overrides

KeysIn(ext) == UNION {ext[i].keys : i \in DOMAIN ext}
MCKey == UNION {KeysIn(ext) : ext \in MCExtensions}
MCHandler == UNION {{ext[i].handler : i \in DOMAIN ext} : ext \in MCExtensions}
=============================================================================
