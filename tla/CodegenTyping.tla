----------------------------- MODULE CodegenTyping -----------------------------
(***************************************************************************)
(* What the registered callbacks do with one another: the extensions of    *)
(* src/extension/ fill the registry of CodegenExts, and constants and      *)
(* operations are lowered with it.  A type is looked up when it is needed, *)
(* in the finished table; what a PreludeCodegen decides for its own        *)
(* callbacks is decided when it is registered.  The two meet in the types  *)
(* of the values that are stored into mailboxes.                           *)
(*                                                                         *)
(* Lowering is followed as far as types go: a request ends in a value      *)
(* stored in each output mailbox, in an Err, in a panic of the emitter, or *)
(* in an instruction on operands of the wrong types, which nothing stops   *)
(* in a build without debug assertions.                                    *)
(***************************************************************************)
EXTENDS CodegenExts

CONSTANTS HugrTypes,   \* the HUGR types in use, closed under their parts
          Depth,       \* how deep each of them is nested
          Requests     \* the constants and operations that may be lowered

\* What the callbacks registered for constants run.
ConstFns == {"ConstUsize", "ConstExternalSymbol", "ConstString", "ConstError", "ConstInt",
             "ConstF64", "ConstRotation"}

ASSUME ConstFnsAssumption ==
    \A ext \in Extensions : \A i \in DOMAIN ext :
      ext[i].table = "consts" => ext[i].handler.fn \in ConstFns

VARIABLES request,     \* what was lowered last, or NoRequest
          verdict      \* how that went

vars == <<extsVars, request, verdict>>

NoRequest == [is |-> "none"]

(* A HUGR type is one of                                                   *)
(*   [is |-> "custom", key, width]   an extension's type; width of an int  *)
(*   [is |-> "array", len, of]       the prelude's array type              *)
(*   [is |-> "sum", rows], [is |-> "func", ins, outs], [is |-> "var"]      *)
(* A request is one of                                                     *)
(*   [is |-> "const", key, of]            a LoadConstant of type of        *)
(*   [is |-> "op", key, ins, outs, row]   an ExtensionOp; row are the      *)
(*     fields its sum is built of, or the element of a new_array           *)

-----------------------------------------------------------------------------
(* LLVM types *)

LlvmInt(n) == <<"int", n>>
F64 == <<"float", 64>>
Ptr == <<"ptr">>
Struct(ts) == <<"struct", ts>>
ArrayOf(elem, n) == <<"array", elem, n>>
Void == <<"void">>
NoType == <<"no_type">>          \* an Err of map_type

IsInt(t) == t[1] = "int"
IsFloat(t) == t[1] = "float"
IsStruct(t) == t[1] = "struct"
IsArray(t) == t[1] = "array"
Elem(t) == t[2]

\* LLVMSumType::try_new2
SumStruct(rows) ==
    Struct((IF Len(rows) >= 2 THEN <<LlvmInt(32)>> ELSE <<>>)
             \o [i \in DOMAIN rows |-> Struct(rows[i])])

BoolType == SumStruct(<<<<>>, <<>>>>)

\* LLVMTypeMapping::map_function_type, by way of func_into_out
FuncPtr(ins, outs) ==
    <<"fnptr", ins, CASE Len(outs) = 0 -> Void
                      [] Len(outs) = 1 -> outs[1]
                      [] OTHER -> Struct(outs)>>

AllTyped(ts) == \A i \in DOMAIN ts : ts[i] # NoType

\* int.rs llvm_type
IntTypeOf(width) == CASE width \in 0 .. 3 -> LlvmInt(8)
                      [] width = 4 -> LlvmInt(16)
                      [] width = 5 -> LlvmInt(32)
                      [] width = 6 -> LlvmInt(64)
                      [] OTHER -> NoType

Custom(key) == [is |-> "custom", key |-> key, width |-> 0]
SumOf(rows) == [is |-> "sum", rows |-> rows]
ArrayT(of, len) == [is |-> "array", len |-> len, of |-> of]
Bool == SumOf(<<<<>>, <<>>>>)

Rows(t) == {t.rows[i] : i \in DOMAIN t.rows}

\* The types a type is made of.
Within(t) ==
    LET Of(ts) == {ts[i] : i \in DOMAIN ts}
    IN CASE t.is = "array" -> {t.of}
         [] t.is = "sum" -> UNION {Of(row) : row \in Rows(t)}
         [] t.is = "func" -> Of(t.ins) \cup Of(t.outs)
         [] OTHER -> {}

\* Types are finite trees, and the operations that may fail have an error type.
ASSUME TypesAssumption ==
    /\ Custom("error") \in HugrTypes
    /\ Depth \in [HugrTypes -> Nat]
    /\ \A t \in HugrTypes : \A u \in Within(t) : u \in HugrTypes /\ Depth[u] < Depth[t]

\* TypeMap::map_type, given the types of the parts.
MapType(t, Known) ==
    LET Map(ts) == [i \in DOMAIN ts |-> Known[ts[i]]]
        rows == [i \in DOMAIN t.rows |-> Map(t.rows[i])]
    IN CASE t.is = "custom" /\ t.key \in DOMAIN custom_hooks ->
              LET h == custom_hooks[t.key]
              IN IF h.fn = "int_type" THEN IntTypeOf(t.width) ELSE h.ty
         [] t.is = "array" /\ "array" \in DOMAIN custom_hooks ->
              LET h == custom_hooks["array"]
                  elem == Known[t.of]
              IN IF h.fn # "array_type" THEN h.ty
                 ELSE IF elem = NoType THEN NoType ELSE ArrayOf(elem, t.len)
         [] t.is = "sum" ->
              IF \A i \in DOMAIN rows : AllTyped(rows[i]) THEN SumStruct(rows) ELSE NoType
         [] t.is = "func" ->
              IF AllTyped(Map(t.ins)) /\ AllTyped(Map(t.outs))
              THEN FuncPtr(Map(t.ins), Map(t.outs)) ELSE NoType
         [] OTHER -> NoType

LlvmType[t \in HugrTypes] == MapType(t, LlvmType)

TypesOf(ts) == [i \in DOMAIN ts |-> LlvmType[ts[i]]]

-----------------------------------------------------------------------------
(* The codegen extensions.  A handler is the function it runs and, where   *)
(* it captured one, an LLVM type: the one a type callback returns, or the  *)
(* error_type of the PreludeCodegen it was registered with.                *)

CustomTypeCall(key, fn, ty) ==
    [table |-> "types", keys |-> {key}, handler |-> [fn |-> fn, ty |-> ty]]
CustomConstCall(key, ty) ==
    [table |-> "consts", keys |-> {key}, handler |-> [fn |-> key, ty |-> ty]]
ExtensionOpCall(key, ty) ==
    [table |-> "ops", keys |-> {key}, handler |-> [fn |-> key, ty |-> ty]]
SimpleExtensionOpCall(ops, fn, ty) ==
    [table |-> "ops", keys |-> ops, handler |-> [fn |-> fn, ty |-> ty]]

TupleOps == {"MakeTuple", "UnpackTuple"}
ArrayOpNames ==
    {"new_array", "get", "set", "swap", "pop_left", "pop_right", "discard_empty"}
IntOps == {"iadd", "ieq", "ishl"}           \* the ishl are not implemented
FloatOps == {"fadd", "fneg", "feq", "fabs"} \* nor the fabs
ConvertOps == {"trunc_u", "convert_u", "itousize", "ifromusize", "itobool", "ifrombool"}
RotationOps == {"radd", "from_halfturns", "from_halfturns_unchecked", "to_halfturns"}
LogicOps == {"Eq", "And", "Or", "Not"}

\* Faulty: leaves out a callback.
PreludeWithoutStrings(usize, qubit, error) ==
    <<CustomTypeCall("qubit", "fixed", qubit),
      CustomTypeCall("usize", "fixed", usize),
      CustomTypeCall("error", "fixed", error),
      CustomTypeCall("array", "array_type", NoType),
      CustomConstCall("ConstUsize", NoType),
      CustomConstCall("ConstExternalSymbol", NoType),
      CustomConstCall("ConstError", error),
      SimpleExtensionOpCall(TupleOps, "tuple", NoType),
      SimpleExtensionOpCall(ArrayOpNames, "array", NoType),
      ExtensionOpCall("print", NoType),
      ExtensionOpCall("panic", error)>>

\* add_prelude_extensions, with what the PreludeCodegen makes of three types
Prelude(usize, qubit, error) ==
    <<CustomTypeCall("qubit", "fixed", qubit),
      CustomTypeCall("usize", "fixed", usize),
      CustomTypeCall("string", "fixed", Ptr),
      CustomTypeCall("error", "fixed", error),
      CustomTypeCall("array", "array_type", NoType),
      CustomConstCall("ConstUsize", NoType),
      CustomConstCall("ConstExternalSymbol", NoType),
      CustomConstCall("ConstString", NoType),
      CustomConstCall("ConstError", error),
      SimpleExtensionOpCall(TupleOps, "tuple", NoType),
      SimpleExtensionOpCall(ArrayOpNames, "array", NoType),
      ExtensionOpCall("print", NoType),
      ExtensionOpCall("panic", error)>>

\* PreludeCodegen::error_type and the other defaults
DefaultError == Struct(<<LlvmInt(32), Ptr>>)
DefaultPrelude == Prelude(LlvmInt(64), LlvmInt(16), DefaultError)

AddIntExtensions ==
    <<CustomConstCall("ConstInt", NoType),
      CustomTypeCall("int", "int_type", NoType),
      SimpleExtensionOpCall(IntOps, "int", NoType)>>

AddFloatExtensions ==
    <<CustomTypeCall("float64", "fixed", F64),
      CustomConstCall("ConstF64", NoType),
      SimpleExtensionOpCall(FloatOps, "float", NoType)>>

\* Not is registered, though emit_logic_op refuses it.
AddLogicExtensions ==
    <<SimpleExtensionOpCall({"Eq"}, "logic", NoType),
      SimpleExtensionOpCall({"And"}, "logic", NoType),
      SimpleExtensionOpCall({"Or"}, "logic", NoType),
      SimpleExtensionOpCall({"Not"}, "logic", NoType)>>

ConversionExtension == <<SimpleExtensionOpCall(ConvertOps, "conversion", NoType)>>

\* RotationCodegenExtension, which takes only emit_panic from its
\* PreludeCodegen.
RotationExtension ==
    <<CustomTypeCall("rotation", "fixed", F64),
      CustomConstCall("ConstRotation", NoType),
      SimpleExtensionOpCall(RotationOps, "rotation", NoType)>>

\* The functions of these extensions, and the operations they are given.
OpsOf(fn) ==
    CASE fn = "tuple" -> TupleOps
      [] fn = "array" -> ArrayOpNames
      [] fn = "int" -> IntOps
      [] fn = "float" -> FloatOps
      [] fn = "logic" -> LogicOps
      [] fn = "conversion" -> ConvertOps
      [] fn = "rotation" -> RotationOps
      [] OTHER -> {fn} \cap {"print", "panic"}

ASSUME OpFnsAssumption ==
    \A ext \in Extensions : \A i \in DOMAIN ext :
      ext[i].table = "ops" => ext[i].keys \subseteq OpsOf(ext[i].handler.fn)

-----------------------------------------------------------------------------
(* What may be lowered: operations with inputs and outputs of the types    *)
(* that their signatures say.                                              *)

IntT(w) == [Custom("int") EXCEPT !.width = w]
IsIntType(t) == t.is = "custom" /\ t.key = "int"
Float64 == Custom("float64")
Rotation == Custom("rotation")

Signature(r) ==
    LET t == r.ins[1]
        Is(ins, outs, row) == r.ins = ins /\ r.outs = outs /\ r.row = row
        IsSum(ins, first, row) == Is(ins, <<SumOf(<<first, row>>)>>, row)
        All(type) == [i \in DOMAIN r.ins |-> type]
        Index == Custom("usize")
    IN CASE r.key = "MakeTuple" -> Is(r.ins, <<SumOf(<<r.ins>>)>>, <<>>)
         [] r.key = "UnpackTuple" -> Is(<<SumOf(<<r.outs>>)>>, r.outs, <<>>)
         [] r.key = "new_array" ->
              LET of == r.row[1]
              IN Is(All(of), <<ArrayT(of, Len(r.ins))>>, <<of>>)
         [] r.key \in ArrayOpNames \ {"new_array"} ->
              /\ r.ins # <<>> /\ t.is = "array"
              /\ LET row == <<t.of, ArrayT(t.of, t.len - 1)>>
                 IN CASE r.key = "get" -> IsSum(<<t, Index>>, <<>>, <<t.of>>)
                      [] r.key = "set" -> IsSum(<<t, Index, t.of>>, <<t.of, t>>, <<t.of, t>>)
                      [] r.key = "swap" -> IsSum(<<t, Index, Index>>, <<t>>, <<t>>)
                      [] r.key = "discard_empty" -> Is(<<t>>, <<>>, <<>>)
                      [] OTHER -> IsSum(<<t>>, <<>>, row)
         [] r.key = "print" -> Is(<<Custom("string")>>, <<>>, <<>>)
         [] r.key = "panic" -> r.ins # <<>> /\ t = Custom("error")
         [] r.key \in {"iadd", "ishl"} -> r.ins # <<>> /\ IsIntType(t) /\ Is(<<t, t>>, <<t>>, <<>>)
         [] r.key = "ieq" -> r.ins # <<>> /\ IsIntType(t) /\ Is(<<t, t>>, <<Bool>>, <<>>)
         [] r.key = "fadd" -> Is(<<Float64, Float64>>, <<Float64>>, <<>>)
         [] r.key = "feq" -> Is(<<Float64, Float64>>, <<Bool>>, <<>>)
         [] r.key \in {"fneg", "fabs"} -> Is(<<Float64>>, <<Float64>>, <<>>)
         [] r.key \in LogicOps -> Is(All(Bool), <<Bool>>, <<>>)
         [] r.key = "trunc_u" ->
              /\ Len(r.row) = 1 /\ IsIntType(r.row[1])
              /\ IsSum(<<Float64>>, <<Custom("error")>>, <<r.row[1]>>)
         [] r.key = "convert_u" -> r.ins # <<>> /\ IsIntType(t) /\ Is(<<t>>, <<Float64>>, <<>>)
         [] r.key = "itousize" -> Is(<<IntT(6)>>, <<Index>>, <<>>)
         [] r.key = "ifromusize" -> Is(<<Index>>, <<IntT(6)>>, <<>>)
         [] r.key = "itobool" -> Is(<<IntT(0)>>, <<Bool>>, <<>>)
         [] r.key = "ifrombool" -> Is(<<Bool>>, <<IntT(0)>>, <<>>)
         [] r.key = "radd" -> Is(<<Rotation, Rotation>>, <<Rotation>>, <<>>)
         [] r.key = "from_halfturns" -> IsSum(<<Float64>>, <<>>, <<Rotation>>)
         [] r.key = "from_halfturns_unchecked" -> Is(<<Float64>>, <<Rotation>>, <<>>)
         [] r.key = "to_halfturns" -> Is(<<Rotation>>, <<Float64>>, <<>>)

ASSUME RequestsAssumption ==
    \A r \in Requests :
      \/ r.is = "const" /\ r.of \in HugrTypes
      \/ /\ r.is = "op"
         /\ \A ts \in {r.ins, r.outs, r.row} : ts \in Seq(HugrTypes)
         /\ Signature(r)

\* CustomConst::get_type: an external symbol may have any type.
ConstOf(key, t) ==
    CASE key = "ConstUsize" -> t = Custom("usize")
      [] key = "ConstExternalSymbol" -> TRUE
      [] key = "ConstString" -> t = Custom("string")
      [] key = "ConstError" -> t = Custom("error")
      [] key = "ConstInt" -> IsIntType(t)
      [] key = "ConstF64" -> t = Float64
      [] key = "ConstRotation" -> t = Rotation

\* The types, constants and operations are those of these extensions.
ASSUME NamesAssumption ==
    /\ \A t \in HugrTypes :
         t.is = "custom" =>
           t.key \in {"usize", "qubit", "string", "error", "int", "float64", "rotation"}
    /\ \A r \in Requests :
         IF r.is = "const" THEN r.key \in ConstFns /\ ConstOf(r.key, r.of)
         ELSE r.key \in TupleOps \cup ArrayOpNames \cup IntOps \cup FloatOps \cup LogicOps
                          \cup ConvertOps \cup RotationOps \cup {"print", "panic"}

-----------------------------------------------------------------------------
(* How a handler ends. *)

Stores(types) == [is |-> "stored", types |-> types]
Err == [is |-> "err"]
Panic == [is |-> "panic"]
Mistyped == [is |-> "mistyped"]

\* RowPromise::finish: storing asks no questions.
Unchecked(outs, end) == IF end.is = "stored" /\ end.types # outs THEN Mistyped ELSE end

\* Faulty: compares only how many there are.
CheckedCount(outs, end) ==
    IF end.is = "stored" /\ Len(end.types) # Len(outs) THEN Err ELSE Unchecked(outs, end)

\* emit_custom_unary_op and emit_custom_binary_op compare the results with
\* the types of the promised mailboxes before they store them.
Checked(outs, end) == IF end.is = "stored" /\ end.types # outs THEN Err ELSE end

\* An instruction on operands of the wrong types came before the end.
IllTyped(end) == IF end.is = "stored" THEN Mistyped ELSE end

\* build_tag with values of types vals for a variant whose fields have types row.
BuildTag(row, vals, end) == IF row # vals THEN IllTyped(end) ELSE end

CodeAndMessage(ty) == Len(ty[2]) = 2 /\ IsInt(ty[2][1]) /\ ty[2][2] = Ptr

\* The ConstError handler: emit_const_error fills the error type that is
\* registered now, and what comes out must be the one the handler captured.
EmitConstError(pcgError) ==
    LET ty == LlvmType[Custom("error")] IN
    IF ty = NoType THEN Err
    ELSE IF ~IsStruct(ty) THEN Panic
    ELSE IF ty[2] = <<>> \/ ~IsInt(ty[2][1]) THEN Panic
    ELSE IF ty # pcgError THEN Err
    ELSE IF ~CodeAndMessage(ty) THEN Mistyped
    ELSE Stores(<<ty>>)

\* Whatever the handler of a constant does with the type it looks up.
LoadedBy(h, of) ==
    LET ty == LlvmType[of]
        Using(refused, ok) == IF ty = NoType THEN Err
                              ELSE IF ok THEN Stores(<<ty>>) ELSE refused
    IN CASE h.fn = "ConstUsize" -> Using(Err, IsInt(ty))
         [] h.fn = "ConstExternalSymbol" -> Using(Err, TRUE)
         [] h.fn = "ConstString" -> Stores(<<Ptr>>)
         [] h.fn = "ConstError" -> EmitConstError(h.ty)
         [] h.fn = "ConstInt" -> Using(Panic, IsInt(ty))
         [] h.fn = "ConstF64" -> Using(Panic, IsFloat(ty))
         [] h.fn = "ConstRotation" -> Stores(<<F64>>)

\* Faulty: trusts the handler.
EmitLoadConstantUnchecked(key, of) ==
    IF key \notin DOMAIN load_constant_handlers THEN Err
    ELSE LoadedBy(load_constant_handlers[key], of)

\* LoadConstantsMap::emit_load_constant: what the handler made must have the
\* type the finished table gives the constant.
EmitLoadConstant(key, of) ==
    IF key \notin DOMAIN load_constant_handlers THEN Err
    ELSE LET end == LoadedBy(load_constant_handlers[key], of)
         IN IF end.is = "stored" /\ end.types # <<LlvmType[of]>> THEN Err ELSE end

\* The default emit_panic, given an error value of type ty.
EmitPanic(ty, end) ==
    IF ty = Struct(<<LlvmInt(32), Ptr>>) THEN end ELSE Err

-----------------------------------------------------------------------------
(* The operations, given the LLVM types of their inputs and outputs. *)

EmitTuple(op, ins, outs) ==
    CASE op = "MakeTuple" -> Unchecked(outs, Stores(<<SumStruct(<<ins>>)>>))
      [] op = "UnpackTuple" ->
           IF ins[1] # SumStruct(<<outs>>) THEN Err ELSE Unchecked(outs, Stores(outs))

\* row are the types of the fields of the result's last variant, or of the
\* elements of a new_array, as looked up.
EmitArray(op, ins, outs, row) ==
    LET elem == Elem(ins[1])
        Tagged == CASE op = "get" -> <<elem>>
                    [] op = "set" -> <<elem, ins[1]>>
                    [] op = "swap" -> <<ins[1]>>
                    [] op \in {"pop_left", "pop_right"} ->
                         <<elem, ArrayOf(elem, ins[1][3] - 1)>>
    IN IF op = "new_array"       \* what the default array_type makes
       THEN Unchecked(outs, Stores(<<ArrayOf(row[1], Len(ins))>>))
       ELSE IF op = "discard_empty" THEN Stores(<<>>)
       ELSE IF ~IsArray(ins[1]) \/ (op \in {"get", "set", "swap"} /\ ~IsInt(ins[2]))
       THEN Panic
       ELSE BuildTag(row, Tagged, Stores(outs))

EmitInt(op, ins, outs) ==
    IF op \notin {"iadd", "ieq"} THEN Err
    ELSE IF ~IsInt(ins[1]) THEN Panic
    ELSE Checked(outs, Stores(IF op = "iadd" THEN <<ins[1]>> ELSE <<BoolType>>))

EmitFloat(op, ins, outs) ==
    IF op \notin {"fadd", "fneg", "feq"} THEN Err
    ELSE IF ~IsFloat(ins[1]) THEN Panic
    ELSE Checked(outs, Stores(IF op = "feq" THEN <<BoolType>> ELSE <<ins[1]>>))

\* The folds of emit_logic_op index and pop inputs that need not be there.
TooFewInputs(op, ins) == \/ op \in {"And", "Or"} /\ Len(ins) < 1
                         \/ op = "Eq" /\ Len(ins) < 2

EmitLogic(op, ins, outs) ==
    IF ins # [i \in DOMAIN ins |-> BoolType] \/ op = "Not"   \* LLVMSumValue::try_new
    THEN Err
    ELSE IF TooFewInputs(op, ins) THEN Panic
    ELSE Unchecked(outs, Stores(<<BoolType>>))

\* Loads the error of a failing operation with whatever loads errors now.
WithError(end) ==
    LET error == EmitLoadConstant("ConstError", Custom("error")) IN
    IF error.is # "stored" THEN error ELSE end

\* emit_conversion_op and build_trunc_op, which compares with f64 constants.
EmitConversion(op, ins, outs, row) ==
    CASE op = "trunc_u" ->
           IF ~IsInt(row[1]) THEN Err
           ELSE IF ~IsFloat(ins[1]) THEN Panic
           ELSE WithError(IF ins[1] = F64 THEN Stores(outs) ELSE IllTyped(Stores(outs)))
      [] op = "convert_u" ->
           IF ~IsInt(ins[1]) \/ ~IsFloat(outs[1]) THEN Panic
           ELSE Checked(outs, Stores(outs))
      [] op \in {"itousize", "ifromusize"} -> Checked(outs, Stores(ins))
      [] op = "itobool" ->
           IF ~IsInt(ins[1]) THEN Panic ELSE Checked(outs, Stores(<<BoolType>>))
      [] op = "ifrombool" ->
           IF ~IsInt(outs[1]) THEN Panic ELSE Checked(outs, Stores(<<outs[1]>>))

\* emit_rotation_op; emit_from_halfturns compares with f64 constants.
EmitRotation(op, ins, outs, row) ==
    LET end == IF op = "from_halfturns" THEN BuildTag(row, ins, Stores(outs))
               ELSE Unchecked(outs, Stores(<<ins[1]>>))
        compared == IF ins[1] = F64 THEN end ELSE IllTyped(end)
    IN IF ~IsFloat(ins[1]) THEN Panic
       ELSE CASE op \in {"radd", "to_halfturns"} -> end
              [] op = "from_halfturns" -> compared
              [] op = "from_halfturns_unchecked" ->
                   WithError(EmitPanic(LlvmType[Custom("error")], compared))

\* emit_extension_op, from the handler's table to its end.
EmittedBy(h, op, ins, outs, row) ==
    CASE h.fn = "tuple" -> EmitTuple(op, ins, outs)
      [] h.fn = "array" -> EmitArray(op, ins, outs, row)
      [] h.fn = "int" -> EmitInt(op, ins, outs)
      [] h.fn = "float" -> EmitFloat(op, ins, outs)
      [] h.fn = "logic" -> EmitLogic(op, ins, outs)
      [] h.fn = "conversion" -> EmitConversion(op, ins, outs, row)
      [] h.fn = "rotation" -> EmitRotation(op, ins, outs, row)
      [] h.fn = "print" -> Unchecked(outs, Stores(<<>>))
      [] h.fn = "panic" ->      \* const_zero of every promised type
           IF ins[1] # h.ty THEN Err ELSE EmitPanic(ins[1], Stores(outs))

EmitExtensionOp(r) ==
    LET ins == TypesOf(r.ins)
        outs == TypesOf(r.outs)
    IN IF \/ ~AllTyped(ins) \/ ~AllTyped(outs)      \* node_ins_rmb, node_outs_rmb
          \/ r.key \notin DOMAIN extension_op_handlers
       THEN Err
       ELSE EmittedBy(extension_op_handlers[r.key], r.key, ins, outs, TypesOf(r.row))

Lower(r) ==
    /\ finished
    /\ request' = r
    /\ verdict' = (IF r.is = "op" THEN EmitExtensionOp(r)
                   ELSE IF LlvmType[r.of] = NoType THEN Err
                   ELSE Unchecked(<<LlvmType[r.of]>>, EmitLoadConstant(r.key, r.of))).is
    /\ UNCHANGED extsVars

Init == ExtsInit /\ request = NoRequest /\ verdict = "none"

Next == \/ Build /\ UNCHANGED <<request, verdict>>
        \/ \E r \in Requests : Lower(r)

Spec == Init /\ [][Next]_vars

-----------------------------------------------------------------------------
(* Properties. *)

TypeOK ==
    /\ ExtsTypeOK
    /\ request \in Requests \cup {NoRequest}
    /\ verdict \in {"none", "stored", "err", "panic", "mistyped"}
    /\ request = NoRequest <=> verdict = "none"
    /\ request # NoRequest => finished

\* The PreludeCodegen's error_type is one its emit_const_error can fill.
ErrorIsCodeAndMessage ==
    LET ty == LlvmType[Custom("error")]
    IN IsStruct(ty) /\ CodeAndMessage(ty)

\* "The type of this value must match the result of EmitFuncContext::llvm_type
\* on CustomConst::get_type": whatever callbacks have replaced whatever others,
\* a constant that is loaded has the type its users were promised.
ConstantsAreTyped ==
    request.is = "const" /\ verdict = "mistyped" => ~ErrorIsCodeAndMessage

\* The types some handler takes for granted.
Coherent ==
    /\ \A k \in {"float64", "rotation"} \cap DOMAIN custom_hooks :
         custom_hooks[k] = [fn |-> "fixed", ty |-> F64]
    /\ "array" \in DOMAIN custom_hooks => custom_hooks["array"].fn = "array_type"
    /\ "error" \in DOMAIN custom_hooks => ErrorIsCodeAndMessage

\* "The signature of that op determines the length and types of the inputs and
\* the outputs": a replaced type callback makes operations fail to lower, but no
\* handler stores a value of another type than its mailbox or mixes types in an
\* instruction, except where it takes the types of floats, rotations and arrays
\* for granted, which only a callback registered over them can change.
OpsAreTyped == request.is = "op" /\ verdict = "mistyped" => ~Coherent

\* The types a HUGR type consists of.
PartsOf[t \in HugrTypes] == {t} \cup UNION {PartsOf[u] : u \in Within(t)}

Parts(r) ==
    LET ts == IF r.is = "const" THEN <<r.of>> ELSE r.ins \o r.outs
    IN UNION {PartsOf[ts[i]] : i \in DOMAIN ts}

TakesAnError(r) == r.key \in {"trunc_u", "from_halfturns_unchecked"}

\* The keys lowering r looks up.
KeysNeeded(r) ==
    {r.key} \cup {t.key : t \in {u \in Parts(r) : u.is = "custom"}}
            \cup {t.is : t \in {u \in Parts(r) : u.is = "array"}}
            \cup (IF TakesAnError(r) THEN {"error", "ConstError"} ELSE {})

\* The preludes whose PreludeCodegen makes of usize, qubits and errors what its
\* own handlers can use.
Preludes ==
    LET types == {h.ty : h \in Handler}
        usizes == {ty \in types : IsInt(ty)}
        errors == {ty \in types : IsStruct(ty) /\ CodeAndMessage(ty)}
    IN {Prelude(p[1], p[2], p[3]) : p \in usizes \X (types \ {NoType}) \X errors}

\* The calls of the extension a key belongs to.
ExtensionsWith(key) ==
    CASE key \in {"int", "ConstInt"} \cup IntOps -> {AddIntExtensions}
      [] key \in {"float64", "ConstF64"} \cup FloatOps -> {AddFloatExtensions}
      [] key \in LogicOps -> {AddLogicExtensions}
      [] key \in ConvertOps -> {ConversionExtension}
      [] key \in {"rotation", "ConstRotation"} \cup RotationOps -> {RotationExtension}
      [] OTHER -> Preludes

\* The i-th of the calls cs was the last one of the extension ext.
EndsAt(cs, i, ext) ==
    LET before == i - Len(ext)
    IN Len(ext) <= i /\ \A l \in DOMAIN ext : cs[before + l] = ext[l]

\* The extension of key k has been added, and no other callback has been
\* registered over it since.
Available(k) ==
    \E i \in DOMAIN calls :
      /\ \E ext \in ExtensionsWith(k) : EndsAt(calls, i, ext)
      /\ \A j \in DOMAIN calls : k \in calls[j].keys => j <= i

Equipped(r) == \A k \in KeysNeeded(r) : Available(k)

\* Types int.rs and map_type have no LLVM type for.
Unmapped(t) ==
    \/ t.is \notin {"custom", "array", "sum", "func"}
    \/ IsIntType(t) /\ t.width \notin 0 .. 6

\* What an equipped registry does not lower: unmapped types; operations that are
\* registered and not implemented; the conversions between an int<6> and a usize
\* that is not 64 bits wide; a panic with an error that is not DefaultError.
Refused(r) ==
    \/ \E t \in Parts(r) : Unmapped(t)
    \/ r.key \in {"ishl", "fabs", "Not"}
    \/ r.key \in {"itousize", "ifromusize"} /\ LlvmType[Custom("usize")] # LlvmInt(64)
    \/ /\ r.key \in {"panic", "from_halfturns_unchecked"}
       /\ LlvmType[Custom("error")] # DefaultError

\* The extensions work together: with the extensions a constant or an operation
\* needs, added in whatever order and next to whatever others, it is lowered
\* unless it is one that is known not to be, and that one is refused by an Err.
\* Only the logic operations on too few inputs panic.
EquippedLowers ==
    request # NoRequest /\ Equipped(request) =>
      verdict = IF request.is = "op" /\ TooFewInputs(request.key, request.ins) THEN "panic"
                ELSE IF Refused(request) THEN "err" ELSE "stored"
=============================================================================
