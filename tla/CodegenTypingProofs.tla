-------------------------- MODULE CodegenTypingProofs --------------------------
(***************************************************************************)
(* Proofs about CodegenExts, for every set of extensions, and about        *)
(* CodegenTyping, for every set of HUGR types too.                         *)
(***************************************************************************)
EXTENDS CodegenTyping, WellFoundedInduction, TLAPS

(* The registry.                                                           *)

\* Taking the first call off a chain and noting it.
LEMMA ChainSteps ==
  ASSUME NEW s \in Seq(Call), s # <<>>, NEW t \in Seq(Call)
  PROVE  /\ Head(s) \in Call
         /\ Tail(s) \in Seq(Call)
         /\ Append(t, Head(s)) \in Seq(Call)
OBVIOUS

\* Filing a handler leaves a table of handlers.
LEMMA InsertType ==
  ASSUME NEW map, DOMAIN map \subseteq Key, map \in [DOMAIN map -> Handler],
         NEW keys \in SUBSET Key, NEW h \in Handler
  PROVE  /\ DOMAIN Insert(map, keys, h) \subseteq Key
         /\ Insert(map, keys, h) \in [DOMAIN Insert(map, keys, h) -> Handler]
BY DEF Insert

\* No table answers at first.
LEMMA ExtsInitType == ExtsInit => ExtsTypeOK
<1>1. DOMAIN NoHandlers \subseteq Key /\ NoHandlers \in [DOMAIN NoHandlers -> Handler]
  BY DEF NoHandlers
<1>2. <<>> \in Seq(Call)
  OBVIOUS
<1> SUFFICES ASSUME ExtsInit PROVE ExtsTypeOK
  OBVIOUS
<1>3. \A map \in {load_constant_handlers, extension_op_handlers, custom_hooks} :
        map = NoHandlers
  BY DEF ExtsInit
<1>4. /\ chain = <<>> /\ calls = <<>> /\ finished = FALSE /\ added = 0
  BY DEF ExtsInit
<1> HIDE DEF NoHandlers
<1> QED BY <1>1, <1>2, <1>3, <1>4 DEF ExtsTypeOK

\* Every call keeps tables of handlers.
LEMMA ExtsTypeStep == ExtsTypeOK /\ [Build]_extsVars => ExtsTypeOK'
<1> SUFFICES ASSUME ExtsTypeOK, [Build]_extsVars PROVE ExtsTypeOK'
  OBVIOUS
<1> USE DEF ExtsTypeOK
<1>1. ASSUME NEW ext \in Extensions, AddExtension(ext) PROVE ExtsTypeOK'
  <2>1. ext \in Seq(Call)
    BY ExtensionsAssumption
  <2> QED BY <1>1, <2>1 DEF AddExtension, registry
<1>2. ASSUME chain # <<>>, NextCall
      PROVE  /\ chain' \in Seq(Call) /\ calls' \in Seq(Call)
             /\ finished' \in BOOLEAN /\ added' \in Nat /\ finished' = FALSE
             /\ Head(chain).keys \in SUBSET Key /\ Head(chain).handler \in Handler
  BY <1>2, ChainSteps DEF NextCall, Call
<1>3. CASE CustomType
  <2>1. chain # <<>> /\ NextCall
    BY <1>3 DEF CustomType, Registers
  <2>2. /\ DOMAIN custom_hooks' \subseteq Key
        /\ custom_hooks' \in [DOMAIN custom_hooks' -> Handler]
    BY <1>2, <1>3, <2>1, InsertType DEF CustomType
  <2> QED BY <1>2, <1>3, <2>1, <2>2 DEF CustomType
<1>4. CASE CustomConst
  <2>1. chain # <<>> /\ NextCall
    BY <1>4 DEF CustomConst, Registers
  <2>2. /\ DOMAIN load_constant_handlers' \subseteq Key
        /\ load_constant_handlers' \in [DOMAIN load_constant_handlers' -> Handler]
    BY <1>2, <1>4, <2>1, InsertType DEF CustomConst
  <2> QED BY <1>2, <1>4, <2>1, <2>2 DEF CustomConst
<1>5. CASE ExtensionOp
  <2>1. chain # <<>> /\ NextCall
    BY <1>5 DEF ExtensionOp, Registers
  <2>2. /\ DOMAIN extension_op_handlers' \subseteq Key
        /\ extension_op_handlers' \in [DOMAIN extension_op_handlers' -> Handler]
    BY <1>2, <1>5, <2>1, InsertType DEF ExtensionOp
  <2> QED BY <1>2, <1>5, <2>1, <2>2 DEF ExtensionOp
<1>6. CASE Finish
  BY <1>6 DEF Finish, registry
<1>7. CASE UNCHANGED extsVars
  BY <1>7 DEF extsVars, registry
<1> QED BY <1>1, <1>3, <1>4, <1>5, <1>6, <1>7 DEF Build

\* Every table is one of handlers, and what is left of a chain is calls.
THEOREM ExtsTypeCorrect == ExtsSpec => []ExtsTypeOK
BY ExtsInitType, ExtsTypeStep, PTL DEF ExtsSpec

-----------------------------------------------------------------------------
\* The calls that name k in a table, after one more call.
LEMMA FiledAfter ==
  ASSUME NEW cs \in Seq(Call), NEW c \in Call, NEW table, NEW k
  PROVE  /\ Len(cs) \in Nat
         /\ \A i \in Filed(cs, table, k) : i \in 1 .. Len(cs) /\ Append(cs, c)[i] = cs[i]
         /\ Append(cs, c)[Len(cs) + 1] = c
         /\ Filed(Append(cs, c), table, k) = Filed(cs, table, k) \cup
              (IF c.table = table /\ k \in c.keys THEN {Len(cs) + 1} ELSE {})
<1> DEFINE cs2 == Append(cs, c)
<1>1. /\ DOMAIN cs = 1 .. Len(cs) /\ DOMAIN cs2 = 1 .. Len(cs) + 1
      /\ Len(cs) \in Nat /\ cs2[Len(cs) + 1] = c
      /\ \A i \in 1 .. Len(cs) : cs2[i] = cs[i]
  OBVIOUS
<1> HIDE DEF cs2
<1>2. \A i \in 1 .. Len(cs) + 1 : i \in 1 .. Len(cs) \/ i = Len(cs) + 1
  BY <1>1
<1>3. Filed(cs2, table, k) = Filed(cs, table, k) \cup
              (IF c.table = table /\ k \in c.keys THEN {Len(cs) + 1} ELSE {})
  BY <1>1, <1>2 DEF Filed
<1> QED BY <1>1, <1>3 DEF cs2, Filed

\* A table that a call is not for goes on resolving as it did.
LEMMA OthersResolve ==
  ASSUME NEW cs \in Seq(Call), NEW c \in Call,
         NEW table, c.table # table, NEW map, Resolves(cs, map, table)
  PROVE  Resolves(Append(cs, c), map, table)
<1>1. \A k : /\ Filed(Append(cs, c), table, k) = Filed(cs, table, k)
             /\ \A i \in Filed(cs, table, k) : Append(cs, c)[i] = cs[i]
  <2> TAKE k
  <2>1. Filed(Append(cs, c), table, k) = Filed(cs, table, k) \cup {}
    BY FiledAfter
  <2> QED BY <2>1, FiledAfter
<1> QED BY <1>1 DEF Resolves

\* The table a call is for resolves to it for its keys.
LEMMA NewResolves ==
  ASSUME NEW cs \in Seq(Call), NEW c \in Call, NEW table, c.table = table,
         NEW map, DOMAIN map \subseteq Key, Resolves(cs, map, table)
  PROVE  Resolves(Append(cs, c), Insert(map, c.keys, c.handler), table)
<1> DEFINE n == Len(cs) + 1
<1> DEFINE cs2 == Append(cs, c)
<1> DEFINE map2 == Insert(map, c.keys, c.handler)
<1>1. c.keys \subseteq Key
  BY DEF Call
<1>2. /\ DOMAIN map2 = DOMAIN map \cup c.keys
      /\ \A k \in DOMAIN map2 : map2[k] = IF k \in c.keys THEN c.handler ELSE map[k]
  BY DEF Insert
<1>3. \A k : Filed(cs2, table, k) = Filed(cs, table, k) \cup (IF k \in c.keys THEN {n} ELSE {})
  BY FiledAfter
<1>4. /\ \A k : \A i \in Filed(cs, table, k) : i \in 1 .. Len(cs) /\ cs2[i] = cs[i]
      /\ cs2[n] = c /\ Len(cs) \in Nat
  BY FiledAfter
<1> HIDE DEF cs2, map2
<1>5. DOMAIN map2 = {k \in Key : Filed(cs2, table, k) # {}}
  BY <1>1, <1>2, <1>3 DEF Resolves
<1>6. ASSUME NEW k \in DOMAIN map2
      PROVE  \E i \in Filed(cs2, table, k) :
               (\A j \in Filed(cs2, table, k) : j <= i) /\ map2[k] = cs2[i].handler
  <2>1. CASE k \in c.keys
    <3>1. n \in Filed(cs2, table, k) /\ cs2[n] = c
      BY <1>3, <1>4, <2>1
    <3>2. \A j \in Filed(cs2, table, k) : j <= n
      BY <1>3, <1>4, <2>1
    <3>3. map2[k] = c.handler
      BY <1>2, <2>1
    <3> HIDE DEF n
    <3> QED BY <3>1, <3>2, <3>3
  <2>2. CASE k \notin c.keys
    <3>1. Filed(cs2, table, k) = Filed(cs, table, k) /\ k \in DOMAIN map
      BY <1>2, <1>3, <2>2
    <3>2. PICK i \in Filed(cs, table, k) :
            (\A j \in Filed(cs, table, k) : j <= i) /\ map[k] = cs[i].handler
      BY <3>1 DEF Resolves
    <3>3. cs2[i] = cs[i] /\ map2[k] = map[k]
      BY <1>2, <1>4, <2>2, <3>2
    <3> QED BY <3>1, <3>2, <3>3
  <2> QED BY <2>1, <2>2
<1> QED BY <1>5, <1>6 DEF Resolves, cs2, map2

LEMMA ResolvesInit == ExtsInit => LastRegistrationWins
<1> SUFFICES ASSUME ExtsInit PROVE LastRegistrationWins
  OBVIOUS
<1>1. \A table, k : Filed(calls, table, k) = {}
  BY DEF ExtsInit, Filed
<1> QED BY <1>1 DEF ExtsInit, LastRegistrationWins, Resolves, NoHandlers

LEMMA ResolvesStep ==
  ExtsTypeOK /\ LastRegistrationWins /\ [Build]_extsVars => LastRegistrationWins'
<1> SUFFICES ASSUME ExtsTypeOK, LastRegistrationWins, [Build]_extsVars
             PROVE  LastRegistrationWins'
  OBVIOUS
<1> DEFINE c == Head(chain)
<1>1. calls \in Seq(Call)
  BY DEF ExtsTypeOK
<1>2. ASSUME chain # <<>>, NextCall PROVE c \in Call /\ calls' = Append(calls, c)
  BY <1>2, ChainSteps DEF ExtsTypeOK, NextCall
<1>3. CASE CustomType
  <2>1. c \in Call /\ calls' = Append(calls, c) /\ c.table = "types"
    BY <1>2, <1>3 DEF CustomType, Registers
  <2>2. Resolves(calls, custom_hooks, "types")'
    <3>1. DOMAIN custom_hooks \subseteq Key /\ Resolves(calls, custom_hooks, "types")
      BY <2>1 DEF ExtsTypeOK, LastRegistrationWins
    <3>2. custom_hooks' = Insert(custom_hooks, c.keys, c.handler)
      BY <1>3 DEF CustomType
    <3> HIDE DEF c
    <3> QED BY <1>1, <2>1, <3>1, <3>2, NewResolves
  <2>3. /\ Resolves(calls, load_constant_handlers, "consts")'
        /\ Resolves(calls, extension_op_handlers, "ops")'
    BY <1>1, <1>3, <2>1, OthersResolve DEF CustomType, LastRegistrationWins
  <2> QED BY <2>2, <2>3 DEF LastRegistrationWins
<1>4. CASE CustomConst
  <2>1. c \in Call /\ calls' = Append(calls, c) /\ c.table = "consts"
    BY <1>2, <1>4 DEF CustomConst, Registers
  <2>2. Resolves(calls, load_constant_handlers, "consts")'
    <3>1. DOMAIN load_constant_handlers \subseteq Key /\ Resolves(calls, load_constant_handlers, "consts")
      BY <2>1 DEF ExtsTypeOK, LastRegistrationWins
    <3>2. load_constant_handlers' = Insert(load_constant_handlers, c.keys, c.handler)
      BY <1>4 DEF CustomConst
    <3> HIDE DEF c
    <3> QED BY <1>1, <2>1, <3>1, <3>2, NewResolves
  <2>3. /\ Resolves(calls, custom_hooks, "types")'
        /\ Resolves(calls, extension_op_handlers, "ops")'
    BY <1>1, <1>4, <2>1, OthersResolve DEF CustomConst, LastRegistrationWins
  <2> QED BY <2>2, <2>3 DEF LastRegistrationWins
<1>5. CASE ExtensionOp
  <2>1. c \in Call /\ calls' = Append(calls, c) /\ c.table = "ops"
    BY <1>2, <1>5 DEF ExtensionOp, Registers
  <2>2. Resolves(calls, extension_op_handlers, "ops")'
    <3>1. DOMAIN extension_op_handlers \subseteq Key /\ Resolves(calls, extension_op_handlers, "ops")
      BY <2>1 DEF ExtsTypeOK, LastRegistrationWins
    <3>2. extension_op_handlers' = Insert(extension_op_handlers, c.keys, c.handler)
      BY <1>5 DEF ExtensionOp
    <3> HIDE DEF c
    <3> QED BY <1>1, <2>1, <3>1, <3>2, NewResolves
  <2>3. /\ Resolves(calls, custom_hooks, "types")'
        /\ Resolves(calls, load_constant_handlers, "consts")'
    BY <1>1, <1>5, <2>1, OthersResolve DEF ExtensionOp, LastRegistrationWins
  <2> QED BY <2>2, <2>3 DEF LastRegistrationWins
<1>6. CASE UNCHANGED <<registry, calls>>
  BY <1>6 DEF LastRegistrationWins, registry
<1>7. ASSUME NEW ext \in Extensions, AddExtension(ext) PROVE LastRegistrationWins'
  BY <1>6, <1>7 DEF AddExtension
<1>8. CASE Finish
  BY <1>6, <1>8 DEF Finish
<1>9. CASE UNCHANGED extsVars
  BY <1>6, <1>9 DEF extsVars
<1> QED BY <1>3, <1>4, <1>5, <1>7, <1>8, <1>9 DEF Build

\* Whatever extensions are added in whatever order, each table answers for
\* exactly the keys that were named, with the handler named last.
THEOREM LookupsResolve == ExtsSpec => []LastRegistrationWins
BY ResolvesInit, ResolvesStep, ExtsTypeCorrect, PTL DEF ExtsSpec

-----------------------------------------------------------------------------
(* Types.                                                                  *)

LEMMA LeastNumber ==
  ASSUME NEW S, S \subseteq Nat, S # {}
  PROVE  \E n \in S : \A k \in S : n <= k
<1> DEFINE R == {p \in Nat \X Nat : p[1] < p[2]}
<1>1. IsWellFoundedOn(R, Nat)
  BY NatLessThanWellFounded DEF OpToRel
<1>2. PICK n \in S : \A k \in S : <<k, n>> \notin R
  <2> HIDE DEF R
  <2> QED BY <1>1, WFMin
<1>3. ASSUME NEW k \in S PROVE n <= k
  <2>1. <<k, n>> \in Nat \X Nat /\ <<k, n>>[1] = k /\ <<k, n>>[2] = n
    OBVIOUS
  <2>2. ~(k < n)
    BY <1>2, <2>1
  <2>3. k \in Nat /\ n \in Nat
    OBVIOUS
  <2> QED BY <2>2, <2>3
<1> QED BY <1>3

\* A type is mapped by what its parts are mapped to.
LEMMA MapsByParts ==
  ASSUME NEW t, NEW f, NEW g, \A u \in Within(t) : f[u] = g[u]
  PROVE  MapType(t, f) = MapType(t, g)
<1> DEFINE Map(ts, k) == [i \in DOMAIN ts |-> k[ts[i]]]
           Row(k) == [i \in DOMAIN t.rows |-> Map(t.rows[i], k)]
<1>1. CASE t.is = "array"
  <2>1. f[t.of] = g[t.of]
    BY <1>1 DEF Within
  <2> QED BY <1>1, <2>1 DEF MapType
<1>2. CASE t.is = "sum"
  <2>1. ASSUME NEW i \in DOMAIN t.rows PROVE Map(t.rows[i], f) = Map(t.rows[i], g)
    <3>1. \A j \in DOMAIN t.rows[i] : t.rows[i][j] \in Within(t)
      BY <1>2 DEF Within, Rows
    <3> QED BY <3>1
  <2>2. Row(f) = Row(g)
    <3> HIDE DEF Map
    <3> QED BY <2>1
  <2>3. MapType(t, f) = (IF \A i \in DOMAIN Row(f) : AllTyped(Row(f)[i])
                         THEN SumStruct(Row(f)) ELSE NoType)
    BY <1>2 DEF MapType
  <2>4. MapType(t, g) = (IF \A i \in DOMAIN Row(g) : AllTyped(Row(g)[i])
                         THEN SumStruct(Row(g)) ELSE NoType)
    BY <1>2 DEF MapType
  <2> HIDE DEF Row
  <2> QED BY <2>2, <2>3, <2>4
<1>3. CASE t.is = "func"
  <2>1. \A ts \in {t.ins, t.outs} : \A i \in DOMAIN ts : ts[i] \in Within(t)
    BY <1>3 DEF Within
  <2>2. Map(t.ins, f) = Map(t.ins, g) /\ Map(t.outs, f) = Map(t.outs, g)
    BY <2>1
  <2>3. MapType(t, f) = (IF AllTyped(Map(t.ins, f)) /\ AllTyped(Map(t.outs, f))
                         THEN FuncPtr(Map(t.ins, f), Map(t.outs, f)) ELSE NoType)
    BY <1>3 DEF MapType
  <2>4. MapType(t, g) = (IF AllTyped(Map(t.ins, g)) /\ AllTyped(Map(t.outs, g))
                         THEN FuncPtr(Map(t.ins, g), Map(t.outs, g)) ELSE NoType)
    BY <1>3 DEF MapType
  <2> HIDE DEF Map
  <2> QED BY <2>2, <2>3, <2>4
<1>4. CASE t.is \notin {"array", "sum", "func"}
  BY <1>4 DEF MapType
<1> QED BY <1>1, <1>2, <1>3, <1>4

\* f maps the types that are nested less than n deep.
Maps(f, n) == \A t \in HugrTypes : Depth[t] < n => f[t] = MapType(t, f)

LEMMA MapsAlike ==
  ASSUME NEW f, NEW g, NEW n \in Nat, NEW m \in Nat, n <= m, Maps(f, n), Maps(g, m)
  PROVE  \A t \in HugrTypes : Depth[t] < n => f[t] = g[t]
<1> DEFINE S == {Depth[t] : t \in {u \in HugrTypes : Depth[u] < n /\ f[u] # g[u]}}
<1> SUFFICES ASSUME S # {} PROVE FALSE
  OBVIOUS
<1>1. S \subseteq Nat
  BY TypesAssumption
<1>2. PICK d \in S : \A k \in S : d <= k
  BY <1>1, LeastNumber
<1>3. PICK t \in HugrTypes : Depth[t] = d /\ Depth[t] < n /\ f[t] # g[t]
  OBVIOUS
<1>4. ASSUME NEW u \in Within(t) PROVE f[u] = g[u]
  <2>1. u \in HugrTypes /\ Depth[u] < d /\ Depth[u] \in Nat /\ d \in Nat
    BY <1>1, <1>3, TypesAssumption
  <2>2. Depth[u] \notin S /\ Depth[u] < n
    BY <1>1, <1>2, <1>3, <2>1
  <2> QED BY <2>1, <2>2
<1>5. MapType(t, f) = MapType(t, g)
  BY <1>4, MapsByParts
<1>6. Depth[t] < m
  BY <1>3, TypesAssumption
<1> QED BY <1>3, <1>5, <1>6 DEF Maps

LEMMA MapExists ==
  ASSUME NEW n \in Nat
  PROVE  \E f : Maps(f, n)
<1> DEFINE S == {k \in Nat : ~ \E f : Maps(f, k)}
<1> SUFFICES ASSUME S # {} PROVE FALSE
  OBVIOUS
<1>1. PICK k \in S : \A j \in S : k <= j
  BY LeastNumber
<1>2. k # 0
  <2>1. Maps(0, 0)
    BY TypesAssumption DEF Maps
  <2> QED BY <2>1
<1>3. k - 1 \in Nat /\ k - 1 \notin S
  BY <1>1, <1>2
<1>4. PICK f : Maps(f, k - 1)
  BY <1>3
<1> DEFINE g == [t \in HugrTypes |-> IF Depth[t] < k - 1 THEN f[t] ELSE MapType(t, f)]
<1>5. ASSUME NEW t \in HugrTypes, Depth[t] < k PROVE g[t] = MapType(t, g)
  <2>1. \A u \in Within(t) : u \in HugrTypes /\ Depth[u] < k - 1
    BY <1>1, <1>5, TypesAssumption
  <2>2. \A u \in Within(t) : g[u] = f[u]
    BY <2>1
  <2>3. g[t] = MapType(t, f)
    BY <1>4 DEF Maps
  <2> HIDE DEF g
  <2>4. MapType(t, g) = MapType(t, f)
    BY <2>2, MapsByParts
  <2> QED BY <2>3, <2>4
<1>6. Maps(g, k)
  <2> HIDE DEF g
  <2> QED BY <1>5 DEF Maps
<1> QED BY <1>6

\* The types nested in others are mapped before them, so that map_type ends:
\* there is a function with the equation that defines LlvmType.
LEMMA Mapped == LlvmType = [t \in HugrTypes |-> MapType(t, LlvmType)]
<1> DEFINE Some(t) == CHOOSE f : Maps(f, Depth[t] + 1)
           f == [t \in HugrTypes |-> Some(t)[t]]
<1>1. ASSUME NEW t \in HugrTypes PROVE Maps(Some(t), Depth[t] + 1) /\ Depth[t] \in Nat
  <2>1. Depth[t] \in Nat /\ Depth[t] + 1 \in Nat
    BY TypesAssumption
  <2>2. \E h : Maps(h, Depth[t] + 1)
    BY <2>1, MapExists
  <2> QED BY <2>1, <2>2
<1> HIDE DEF Some
<1>2. ASSUME NEW t \in HugrTypes PROVE f[t] = MapType(t, f)
  <2>1. ASSUME NEW u \in Within(t) PROVE f[u] = Some(t)[u]
    <3>1. u \in HugrTypes /\ Depth[u] < Depth[t] /\ Depth[u] \in Nat /\ Depth[t] \in Nat
      BY TypesAssumption
    <3>2. Maps(Some(u), Depth[u] + 1) /\ Maps(Some(t), Depth[t] + 1)
      BY <1>1, <3>1
    <3>3. Depth[u] + 1 \in Nat /\ Depth[t] + 1 \in Nat /\ Depth[u] + 1 <= Depth[t] + 1
          /\ Depth[u] < Depth[u] + 1
      BY <3>1
    <3>4. Some(u)[u] = Some(t)[u]
      BY <3>1, <3>2, <3>3, MapsAlike
    <3> QED BY <3>1, <3>4
  <2>2. Some(t)[t] = MapType(t, Some(t))
    <3>1. Depth[t] < Depth[t] + 1
      BY <1>1
    <3> QED BY <1>1, <3>1 DEF Maps
  <2>3. f[t] = MapType(t, Some(t))
    BY <2>2
  <2> HIDE DEF f
  <2>4. MapType(t, f) = MapType(t, Some(t))
    BY <2>1, MapsByParts
  <2> QED BY <2>3, <2>4
<1>3. f = [t \in HugrTypes |-> MapType(t, f)]
  <2>1. f = [t \in HugrTypes |-> f[t]]
    OBVIOUS
  <2> HIDE DEF f
  <2> QED BY <1>2, <2>1
<1>4. \E g : g = [t \in HugrTypes |-> MapType(t, g)]
  <2> HIDE DEF f
  <2> QED BY <1>3
<1>5. LlvmType = CHOOSE g : g = [t \in HugrTypes |-> MapType(t, g)]
  BY DEF LlvmType
<1> QED BY <1>4, <1>5

\* Types are looked up in the hooks, and change only with them.
LEMMA SameTypes ==
  ASSUME custom_hooks' = custom_hooks
  PROVE  /\ LlvmType' = LlvmType
         /\ ErrorIsCodeAndMessage' = ErrorIsCodeAndMessage
<1>1. LlvmType' = LlvmType
  BY DEF LlvmType, MapType
<1> QED BY <1>1 DEF ErrorIsCodeAndMessage

\* What emit_load_constant stores has the type the constant is looked up to have.
LEMMA LoadsTyped ==
  ASSUME NEW key, NEW of,
         key \in DOMAIN load_constant_handlers =>
           load_constant_handlers[key].fn \in ConstFns,
         Unchecked(<<LlvmType[of]>>, EmitLoadConstant(key, of)).is = "mistyped"
  PROVE  ~ErrorIsCodeAndMessage
<1> DEFINE h == load_constant_handlers[key]
           end == LoadedBy(h, of)
<1>1. CASE key \notin DOMAIN load_constant_handlers
  BY <1>1 DEF EmitLoadConstant, Unchecked, Err
<1>2. CASE key \in DOMAIN load_constant_handlers /\ end.is = "stored"
  BY <1>2 DEF EmitLoadConstant, Unchecked, Err
<1>3. CASE key \in DOMAIN load_constant_handlers /\ end.is # "stored"
  <2>1. EmitLoadConstant(key, of) = end
    BY <1>3 DEF EmitLoadConstant
  <2> HIDE DEF end
  <2>2. end.is = "mistyped"
    BY <1>3, <2>1 DEF Unchecked
  <2> USE DEF end
  <2>3. h.fn \in ConstFns
    BY <1>3
  <2> HIDE DEF h
  <2>4. h.fn = "ConstError"
    BY <2>2, <2>3 DEF LoadedBy, ConstFns, Stores, Err, Panic
  <2>5. end = EmitConstError(h.ty)
    BY <2>4 DEF LoadedBy
  <2>6. EmitConstError(h.ty).is = "mistyped"
    BY <2>2, <2>5
  <2>7. ~CodeAndMessage(LlvmType[Custom("error")])
    BY <2>6 DEF EmitConstError, Stores, Err, Panic
  <2> QED BY <2>7 DEF ErrorIsCodeAndMessage
<1> QED BY <1>1, <1>2, <1>3

-----------------------------------------------------------------------------
(* Handlers end in one of four ways.                                       *)

Ends == {"stored", "err", "panic", "mistyped"}

LEMMA EndsOf ==
  ASSUME NEW types
  PROVE  /\ Stores(types).is = "stored" /\ Stores(types).types = types
         /\ Err.is = "err" /\ Panic.is = "panic" /\ Mistyped.is = "mistyped"
BY DEF Stores, Err, Panic, Mistyped

LEMMA WrappedEnds ==
  ASSUME NEW outs, NEW row, NEW vals, NEW end, end.is \in Ends
  PROVE  /\ Unchecked(outs, end).is \in Ends /\ Checked(outs, end).is \in Ends
         /\ IllTyped(end).is \in Ends /\ BuildTag(row, vals, end).is \in Ends
BY EndsOf DEF Unchecked, Checked, IllTyped, BuildTag, Ends

\* A constant is loaded by one of the repository's callbacks.
LoadsByRepository ==
    \A k \in DOMAIN load_constant_handlers : load_constant_handlers[k].fn \in ConstFns

LEMMA LoadEnds ==
  ASSUME LoadsByRepository, NEW key, NEW of
  PROVE  EmitLoadConstant(key, of).is \in Ends
<1> DEFINE h == load_constant_handlers[key]
           end == LoadedBy(h, of)
<1>1. CASE key \in DOMAIN load_constant_handlers
  <2>1. h.fn \in ConstFns
    BY <1>1 DEF LoadsByRepository
  <2>2. EmitConstError(h.ty).is \in Ends
    BY EndsOf DEF EmitConstError, Ends
  <2> HIDE DEF h
  <2>3. end.is \in Ends
    BY <2>1, <2>2, EndsOf DEF LoadedBy, ConstFns, Ends
  <2> HIDE DEF end
  <2>4. EmitLoadConstant(key, of) \in {end, Err}
    BY <1>1 DEF EmitLoadConstant, end, h
  <2> QED BY <2>3, <2>4, EndsOf DEF Ends
<1> QED BY <1>1, EndsOf DEF EmitLoadConstant, Ends

LEMMA ErrorEnds ==
  ASSUME LoadsByRepository, NEW end, end.is \in Ends
  PROVE  WithError(end).is \in Ends
BY LoadEnds DEF WithError

LEMMA PanicEnds ==
  ASSUME NEW ty, NEW end, end.is \in Ends
  PROVE  EmitPanic(ty, end).is \in Ends
BY EndsOf DEF EmitPanic, Ends

LEMMA TupleEnds ==
  ASSUME NEW op \in TupleOps, NEW ins, NEW outs
  PROVE  EmitTuple(op, ins, outs).is \in Ends
BY EndsOf DEF EmitTuple, TupleOps, Unchecked, Ends

LEMMA ArrayEnds ==
  ASSUME NEW op \in ArrayOpNames, NEW ins, NEW outs, NEW row
  PROVE  EmitArray(op, ins, outs, row).is \in Ends
<1>1. \A types : Stores(types).is \in Ends
  BY EndsOf DEF Ends
<1>2. \A types, vals : /\ BuildTag(row, vals, Stores(types)).is \in Ends
                      /\ Unchecked(outs, Stores(types)).is \in Ends
  BY <1>1, WrappedEnds
<1> QED BY <1>1, <1>2, EndsOf DEF EmitArray, ArrayOpNames, Ends

LEMMA NumberEnds ==
  ASSUME NEW op, NEW ins, NEW outs
  PROVE  EmitInt(op, ins, outs).is \in Ends /\ EmitFloat(op, ins, outs).is \in Ends
BY EndsOf DEF EmitInt, EmitFloat, Checked, Ends

LEMMA LogicEnds ==
  ASSUME NEW op, NEW ins, NEW outs
  PROVE  EmitLogic(op, ins, outs).is \in Ends
BY EndsOf DEF EmitLogic, Unchecked, Ends

LEMMA ConversionEnds ==
  ASSUME LoadsByRepository, NEW op \in ConvertOps, NEW ins, NEW outs, NEW row
  PROVE  EmitConversion(op, ins, outs, row).is \in Ends
<1>1. \A types : Stores(types).is \in Ends
  BY EndsOf DEF Ends
<1>2. \A types : /\ IllTyped(Stores(types)).is \in Ends
                 /\ Checked(outs, Stores(types)).is \in Ends
  BY <1>1, WrappedEnds
<1>3. WithError(Stores(outs)).is \in Ends /\ WithError(IllTyped(Stores(outs))).is \in Ends
  BY <1>1, <1>2, ErrorEnds
<1> QED BY <1>2, <1>3, EndsOf DEF EmitConversion, ConvertOps, Ends

LEMMA RotationEnds ==
  ASSUME LoadsByRepository, NEW op \in RotationOps, NEW ins, NEW outs, NEW row
  PROVE  EmitRotation(op, ins, outs, row).is \in Ends
<1> DEFINE end == IF op = "from_halfturns" THEN BuildTag(row, ins, Stores(outs))
                  ELSE Unchecked(outs, Stores(<<ins[1]>>))
           compared == IF ins[1] = F64 THEN end ELSE IllTyped(end)
           panics == WithError(EmitPanic(LlvmType[Custom("error")], compared))
<1>1. \A types : Stores(types).is \in Ends
  BY EndsOf DEF Ends
<1>2. end.is \in Ends
  BY <1>1, WrappedEnds
<1>3. EmitRotation(op, ins, outs, row) \in {Panic, end, compared, panics}
  BY DEF EmitRotation, RotationOps
<1> HIDE DEF end
<1>4. compared.is \in Ends
  BY <1>2, WrappedEnds
<1> HIDE DEF compared
<1>5. panics.is \in Ends
  BY <1>4, PanicEnds, ErrorEnds
<1> HIDE DEF panics
<1> QED BY <1>2, <1>3, <1>4, <1>5, EndsOf DEF Ends

\* Every operation is emitted by one of the repository's callbacks for it.
EmitsByRepository ==
    \A k \in DOMAIN extension_op_handlers : k \in OpsOf(extension_op_handlers[k].fn)

\* Which callback that is.
LEMMA Emitter ==
  ASSUME NEW h, NEW op \in OpsOf(h.fn), NEW ins, NEW outs, NEW row
  PROVE  LET e == EmittedBy(h, op, ins, outs, row) IN
         \/ op \in TupleOps /\ e = EmitTuple(op, ins, outs)
         \/ op \in ArrayOpNames /\ e = EmitArray(op, ins, outs, row)
         \/ op \in IntOps /\ e = EmitInt(op, ins, outs)
         \/ op \in FloatOps /\ e = EmitFloat(op, ins, outs)
         \/ op \in LogicOps /\ e = EmitLogic(op, ins, outs)
         \/ op \in ConvertOps /\ e = EmitConversion(op, ins, outs, row)
         \/ op \in RotationOps /\ e = EmitRotation(op, ins, outs, row)
         \/ op = "print" /\ e = Unchecked(outs, Stores(<<>>))
         \/ op = "panic" /\ e = (IF ins[1] # h.ty THEN Err ELSE EmitPanic(ins[1], Stores(outs)))
BY DEF OpsOf, EmittedBy, LogicOps

LEMMA OpEnds ==
  ASSUME LoadsByRepository, EmitsByRepository, NEW r
  PROVE  EmitExtensionOp(r).is \in Ends
<1> DEFINE h == extension_op_handlers[r.key]
           ins == TypesOf(r.ins)
           outs == TypesOf(r.outs)
           row == TypesOf(r.row)
           e == EmittedBy(h, r.key, ins, outs, row)
<1>1. ASSUME r.key \in DOMAIN extension_op_handlers PROVE e.is \in Ends
  <2>1. r.key \in OpsOf(h.fn)
    BY <1>1 DEF EmitsByRepository
  <2> HIDE DEF h, ins, outs, row
  <2>2. Unchecked(outs, Stores(<<>>)).is \in Ends /\ EmitPanic(ins[1], Stores(outs)).is \in Ends
    <3>1. \A types : Stores(types).is \in Ends
      BY EndsOf DEF Ends
    <3> QED BY <3>1, WrappedEnds, PanicEnds
  <2>3. Err.is \in Ends
    BY EndsOf DEF Ends
  <2>4. (IF ins[1] # h.ty THEN Err ELSE EmitPanic(ins[1], Stores(outs))).is \in Ends
    BY <2>2, <2>3
  <2>5. /\ r.key \in TupleOps => EmitTuple(r.key, ins, outs).is \in Ends
        /\ r.key \in ArrayOpNames => EmitArray(r.key, ins, outs, row).is \in Ends
        /\ r.key \in ConvertOps => EmitConversion(r.key, ins, outs, row).is \in Ends
        /\ r.key \in RotationOps => EmitRotation(r.key, ins, outs, row).is \in Ends
    BY TupleEnds, ArrayEnds, ConversionEnds, RotationEnds
  <2> QED BY <2>1, <2>2, <2>4, <2>5, Emitter, NumberEnds, LogicEnds
<1>2. EmitExtensionOp(r) = (IF \/ ~AllTyped(ins) \/ ~AllTyped(outs)
                               \/ r.key \notin DOMAIN extension_op_handlers
                            THEN Err ELSE e)
  BY DEF EmitExtensionOp
<1> HIDE DEF e
<1> QED BY <1>1, <1>2, EndsOf DEF Ends

-----------------------------------------------------------------------------
(* Operations of the types their signatures say.                           *)

LEMMA Row0 == TypesOf(<<>>) = <<>>
BY DEF TypesOf

LEMMA Row1 ==
  ASSUME NEW t
  PROVE  TypesOf(<<t>>) = <<LlvmType[t]>>
BY DEF TypesOf

LEMMA Row2 ==
  ASSUME NEW t, NEW u
  PROVE  TypesOf(<<t, u>>) = <<LlvmType[t], LlvmType[u]>>
BY DEF TypesOf

LEMMA RowTypes ==
  ASSUME NEW ts \in Seq(HugrTypes)
  PROVE  /\ DOMAIN TypesOf(ts) = 1 .. Len(ts) /\ Len(TypesOf(ts)) = Len(ts)
         /\ \A i \in 1 .. Len(ts) : ts[i] \in HugrTypes /\ TypesOf(ts)[i] = LlvmType[ts[i]]
BY DEF TypesOf

LEMMA TypeOf ==
  ASSUME NEW t \in HugrTypes
  PROVE  LlvmType[t] = MapType(t, LlvmType)
BY Mapped

\* A custom type is what its hook makes of it.
LEMMA CustomTyped ==
  ASSUME NEW t \in HugrTypes, t.is = "custom", LlvmType[t] # NoType
  PROVE  /\ t.key \in DOMAIN custom_hooks
         /\ LlvmType[t] = IF custom_hooks[t.key].fn = "int_type" THEN IntTypeOf(t.width)
                          ELSE custom_hooks[t.key].ty
BY TypeOf DEF MapType

\* A sum has the type of its rows, which are those of its variants.
LEMMA SumType ==
  ASSUME NEW rows, SumOf(rows) \in HugrTypes, LlvmType[SumOf(rows)] # NoType
  PROVE  /\ \A i \in DOMAIN rows : AllTyped(TypesOf(rows[i]))
         /\ LlvmType[SumOf(rows)] = SumStruct([i \in DOMAIN rows |-> TypesOf(rows[i])])
<1> DEFINE t == SumOf(rows)
           types == [i \in DOMAIN t.rows |-> TypesOf(t.rows[i])]
<1>1. t.is = "sum" /\ t.rows = rows
  BY DEF SumOf
<1> HIDE DEF t
<1>2. MapType(t, LlvmType) = (IF \A i \in DOMAIN types : AllTyped(types[i])
                              THEN SumStruct(types) ELSE NoType)
  BY <1>1 DEF MapType, TypesOf
<1>3. LlvmType[t] = MapType(t, LlvmType)
  BY TypeOf DEF t
<1>4. LlvmType[t] # NoType
  BY DEF t
<1> HIDE DEF types
<1>5. LlvmType[t] = SumStruct(types) /\ \A i \in DOMAIN types : AllTyped(types[i])
  BY <1>2, <1>3, <1>4
<1> QED BY <1>1, <1>5 DEF types, t

LEMMA BoolTyped ==
  ASSUME Bool \in HugrTypes, LlvmType[Bool] # NoType
  PROVE  LlvmType[Bool] = BoolType
<1> DEFINE rows == <<<<>>, <<>>>>
<1>1. [i \in DOMAIN rows |-> TypesOf(rows[i])] = <<TypesOf(<<>>), TypesOf(<<>>)>>
  OBVIOUS
<1>2. LlvmType[SumOf(rows)] = SumStruct([i \in DOMAIN rows |-> TypesOf(rows[i])])
  <2>1. SumOf(rows) \in HugrTypes /\ LlvmType[SumOf(rows)] # NoType
    BY DEF Bool
  <2> HIDE DEF rows
  <2> QED BY <2>1, SumType
<1> QED BY <1>1, <1>2, Row0 DEF Bool, BoolType

\* No other callback answers for the array type.
ArrayHook == "array" \in DOMAIN custom_hooks => custom_hooks["array"].fn = "array_type"

\* An array is one of what its element type is looked up to be.
LEMMA ArrayTyped ==
  ASSUME ArrayHook, NEW t \in HugrTypes, t.is = "array", LlvmType[t] # NoType
  PROVE  LlvmType[t] = ArrayOf(LlvmType[t.of], t.len) /\ LlvmType[t.of] # NoType
<1>1. LlvmType[t] = MapType(t, LlvmType)
  BY TypeOf
<1>2. "array" \in DOMAIN custom_hooks /\ custom_hooks["array"].fn = "array_type"
  BY <1>1 DEF MapType, ArrayHook
<1> QED BY <1>1, <1>2 DEF MapType

\* What the handlers take for granted.
LEMMA FloatsTyped ==
  ASSUME Coherent, NEW t \in {Float64, Rotation} \cap HugrTypes, LlvmType[t] # NoType
  PROVE  LlvmType[t] = F64
<1>1. t.is = "custom" /\ t.key \in {"float64", "rotation"}
  BY DEF Float64, Rotation, Custom
<1>2. /\ t.key \in DOMAIN custom_hooks
      /\ LlvmType[t] = IF custom_hooks[t.key].fn = "int_type" THEN IntTypeOf(t.width)
                       ELSE custom_hooks[t.key].ty
  BY <1>1, CustomTyped
<1>3. custom_hooks[t.key] = [fn |-> "fixed", ty |-> F64]
  BY <1>1, <1>2 DEF Coherent
<1> QED BY <1>2, <1>3

\* An error that is loaded for a failing operation has the error type.
LEMMA WithErrorTyped ==
  ASSUME Coherent, LoadsByRepository, NEW end, end.is # "mistyped"
  PROVE  WithError(end).is # "mistyped"
<1> DEFINE error == EmitLoadConstant("ConstError", Custom("error"))
<1>1. CASE "error" \in DOMAIN custom_hooks
  <2>1. ErrorIsCodeAndMessage
    BY <1>1 DEF Coherent
  <2>2. Unchecked(<<LlvmType[Custom("error")]>>, error).is # "mistyped"
    BY <2>1, LoadsTyped DEF LoadsByRepository
  <2> HIDE DEF error
  <2>3. error.is # "mistyped"
    BY <2>2 DEF Unchecked
  <2> QED BY <2>3 DEF WithError, error
<1>2. CASE "error" \notin DOMAIN custom_hooks
  <2>1. Custom("error") \in HugrTypes
    BY TypesAssumption
  <2>2. Custom("error").is = "custom" /\ Custom("error").key = "error"
    BY DEF Custom
  <2>3. LlvmType[Custom("error")] = NoType
    BY <1>2, <2>1, <2>2, CustomTyped
  <2>4. \A fn \in ConstFns : \A h : h.fn = fn => LoadedBy(h, Custom("error")).is # "mistyped"
    BY <2>3, EndsOf DEF LoadedBy, ConstFns, EmitConstError
  <2>5. error.is # "mistyped"
    BY <2>4, EndsOf DEF EmitLoadConstant, LoadsByRepository
  <2> HIDE DEF error
  <2> QED BY <2>5 DEF WithError, error
<1> QED BY <1>1, <1>2

LEMMA NeverMistyped ==
  ASSUME NEW outs, NEW types
  PROVE  /\ Checked(outs, Stores(types)).is # "mistyped"
         /\ Unchecked(outs, Stores(outs)) = Stores(outs)
         /\ BuildTag(types, types, Stores(outs)) = Stores(outs)
         /\ Stores(types).is # "mistyped" /\ Err.is # "mistyped" /\ Panic.is # "mistyped"
BY EndsOf DEF Checked, Unchecked, BuildTag

\* A request and the types it is emitted with.
Typed(r) ==
    /\ r.ins \in Seq(HugrTypes) /\ r.outs \in Seq(HugrTypes) /\ r.row \in Seq(HugrTypes)
    /\ Signature(r)
    /\ AllTyped(TypesOf(r.ins)) /\ AllTyped(TypesOf(r.outs))

LEMMA TypedRows ==
  ASSUME NEW r, Typed(r)
  PROVE  /\ \A i \in 1 .. Len(r.ins) : r.ins[i] \in HugrTypes /\ LlvmType[r.ins[i]] # NoType
         /\ \A i \in 1 .. Len(r.outs) : r.outs[i] \in HugrTypes /\ LlvmType[r.outs[i]] # NoType
         /\ \A i \in 1 .. Len(r.row) : r.row[i] \in HugrTypes
BY RowTypes DEF Typed, AllTyped

LEMMA TypedOne ==
  ASSUME NEW r, Typed(r), NEW t
  PROVE  /\ r.ins = <<t>> => t \in HugrTypes /\ LlvmType[t] # NoType
         /\ r.outs = <<t>> => t \in HugrTypes /\ LlvmType[t] # NoType
         /\ r.row = <<t>> => t \in HugrTypes
<1>1. Len(<<t>>) = 1 /\ <<t>>[1] = t /\ 1 \in 1 .. 1
  OBVIOUS
<1> QED BY <1>1, TypedRows

LEMMA TupleTyped ==
  ASSUME NEW r, Typed(r), r.key \in TupleOps
  PROVE  EmitTuple(r.key, TypesOf(r.ins), TypesOf(r.outs)).is # "mistyped"
<1>1. CASE r.key = "MakeTuple"
  <2> DEFINE rows == <<r.ins>>
  <2>1. r.outs = <<SumOf(rows)>>
    BY <1>1 DEF Typed, Signature, ArrayOpNames, LogicOps
  <2>2. SumOf(rows) \in HugrTypes /\ LlvmType[SumOf(rows)] # NoType
    BY <2>1, TypedOne
  <2>3. LlvmType[SumOf(rows)] = SumStruct([i \in DOMAIN rows |-> TypesOf(rows[i])])
    <3> HIDE DEF rows
    <3> QED BY <2>2, SumType
  <2>4. [i \in DOMAIN rows |-> TypesOf(rows[i])] = <<TypesOf(r.ins)>>
    OBVIOUS
  <2>5. TypesOf(r.outs) = <<SumStruct(<<TypesOf(r.ins)>>)>>
    BY <2>1, <2>3, <2>4, Row1
  <2> QED BY <1>1, <2>5, NeverMistyped DEF EmitTuple
<1>2. CASE r.key = "UnpackTuple"
  BY <1>2, NeverMistyped DEF EmitTuple
<1> QED BY <1>1, <1>2 DEF TupleOps

LEMMA ArrayOpTyped ==
  ASSUME ArrayHook, NEW r, Typed(r), r.key \in ArrayOpNames
  PROVE  EmitArray(r.key, TypesOf(r.ins), TypesOf(r.outs), TypesOf(r.row)).is # "mistyped"
<1> DEFINE ins == TypesOf(r.ins)
           outs == TypesOf(r.outs)
           row == TypesOf(r.row)
           e == EmitArray(r.key, ins, outs, row)
<1> SUFFICES e.is # "mistyped"
  OBVIOUS
<1>1. CASE r.key = "new_array"
  <2> DEFINE of == r.row[1]
             t == ArrayT(of, Len(r.ins))
  <2>1. r.outs = <<t>> /\ r.row = <<of>>
    BY <1>1 DEF Typed, Signature, ArrayOpNames, LogicOps
  <2>2. t.is = "array" /\ t.of = of /\ t.len = Len(r.ins)
    BY DEF ArrayT
  <2> HIDE DEF t, of
  <2>3. t \in HugrTypes /\ LlvmType[t] # NoType
    BY <2>1, TypedOne
  <2>4. LlvmType[t] = ArrayOf(LlvmType[of], Len(r.ins))
    BY <2>2, <2>3, ArrayTyped
  <2>5. outs = <<LlvmType[t]>> /\ row[1] = LlvmType[of]
    BY <2>1, Row1
  <2>6. Len(ins) = Len(r.ins)
    BY RowTypes DEF Typed
  <2>7. e = Unchecked(outs, Stores(<<ArrayOf(row[1], Len(ins))>>))
    BY <1>1 DEF EmitArray
  <2> HIDE DEF e, outs, row, ins
  <2> QED BY <2>4, <2>5, <2>6, <2>7, NeverMistyped
<1>2. CASE r.key = "discard_empty"
  BY <1>2, NeverMistyped DEF EmitArray
<1>3. CASE r.key \in {"get", "set", "swap", "pop_left", "pop_right"}
  <2> DEFINE t == r.ins[1]
             elem == LlvmType[t.of]
  <2>1. r.ins # <<>> /\ t.is = "array"
    BY <1>3 DEF Typed, Signature, ArrayOpNames, LogicOps
  <2>2. 1 \in 1 .. Len(r.ins) /\ ins[1] = LlvmType[t]
    BY <2>1, RowTypes DEF Typed
  <2>3. t \in HugrTypes /\ LlvmType[t] # NoType
    BY <2>2, TypedRows
  <2>4. ins[1] = ArrayOf(elem, t.len) /\ elem # NoType
    BY <2>1, <2>2, <2>3, ArrayTyped
  <2>5. Elem(ins[1]) = elem /\ ins[1][3] = t.len
    BY <2>4 DEF Elem, ArrayOf
  <2> DEFINE tagged == CASE r.key = "get" -> <<elem>>
                         [] r.key = "set" -> <<elem, ins[1]>>
                         [] r.key = "swap" -> <<ins[1]>>
                         [] r.key \in {"pop_left", "pop_right"} -> <<elem, ArrayOf(elem, t.len - 1)>>
  <2>6. row = tagged
    <3>1. CASE r.key = "get"
      <4>1. r.row = <<t.of>>
        BY <3>1 DEF Typed, Signature, ArrayOpNames, LogicOps
      <4> QED BY <3>1, <4>1, Row1
    <3>2. CASE r.key = "set"
      <4>1. r.row = <<t.of, t>>
        BY <3>2 DEF Typed, Signature, ArrayOpNames, LogicOps
      <4> QED BY <3>2, <4>1, <2>2, Row2
    <3>3. CASE r.key = "swap"
      <4>1. r.row = <<t>>
        BY <3>3 DEF Typed, Signature, ArrayOpNames, LogicOps
      <4> QED BY <3>3, <4>1, <2>2, Row1
    <3>4. CASE r.key \in {"pop_left", "pop_right"}
      <4> DEFINE rest == ArrayT(t.of, t.len - 1)
      <4>1. r.row = <<t.of, rest>>
        BY <3>4 DEF Typed, Signature, ArrayOpNames, LogicOps
      <4>2. r.outs = <<SumOf(<<<<>>, r.row>>)>>
        BY <3>4, <4>1 DEF Typed, Signature, ArrayOpNames, LogicOps
      <4>3. rest.is = "array" /\ rest.of = t.of /\ rest.len = t.len - 1
        BY DEF ArrayT
      <4> HIDE DEF rest
      <4>4. rest \in HugrTypes
        <5>1. Len(r.row) = 2 /\ r.row[2] = rest /\ 2 \in 1 .. 2
          BY <4>1
        <5>2. \A i \in 1 .. Len(r.row) : r.row[i] \in HugrTypes
          BY TypedRows
        <5> QED BY <5>1, <5>2
      <4>5. LlvmType[rest] # NoType
        <5> DEFINE rows == <<<<>>, r.row>>
        <5>1. SumOf(rows) \in HugrTypes /\ LlvmType[SumOf(rows)] # NoType
          BY <4>2, TypedOne
        <5>2. 2 \in DOMAIN rows /\ rows[2] = <<t.of, rest>>
          BY <4>1
        <5> HIDE DEF rows
        <5>3. AllTyped(TypesOf(rows[2]))
          BY <5>1, <5>2, SumType
        <5>4. TypesOf(rows[2]) = <<LlvmType[t.of], LlvmType[rest]>>
          BY <5>2, Row2
        <5> QED BY <5>3, <5>4 DEF AllTyped
      <4>6. LlvmType[rest] = ArrayOf(elem, t.len - 1)
        BY <4>3, <4>4, <4>5, ArrayTyped
      <4> QED BY <3>4, <4>1, <4>6, Row2
    <3> QED BY <1>3, <3>1, <3>2, <3>3, <3>4
  <2>7. e \in {Panic, BuildTag(row, tagged, Stores(outs))}
    BY <1>3, <2>5 DEF EmitArray
  <2> HIDE DEF e, outs, row, ins, tagged
  <2> QED BY <2>6, <2>7, NeverMistyped
<1> QED BY <1>1, <1>2, <1>3 DEF ArrayOpNames

LEMMA LogicTyped ==
  ASSUME NEW r, Typed(r), r.key \in LogicOps
  PROVE  EmitLogic(r.key, TypesOf(r.ins), TypesOf(r.outs)).is # "mistyped"
<1>1. r.outs = <<Bool>>
  BY DEF Typed, Signature, ArrayOpNames, LogicOps
<1>2. Bool \in HugrTypes /\ LlvmType[Bool] # NoType
  BY <1>1, TypedOne
<1>3. TypesOf(r.outs) = <<BoolType>>
  BY <1>1, <1>2, BoolTyped, Row1
<1> QED BY <1>3, NeverMistyped DEF EmitLogic

LEMMA ConversionTyped ==
  ASSUME Coherent, LoadsByRepository, NEW r, Typed(r), r.key \in ConvertOps
  PROVE  EmitConversion(r.key, TypesOf(r.ins), TypesOf(r.outs), TypesOf(r.row)).is # "mistyped"
<1> DEFINE ins == TypesOf(r.ins)
           outs == TypesOf(r.outs)
           row == TypesOf(r.row)
           e == EmitConversion(r.key, ins, outs, row)
<1> SUFFICES e.is # "mistyped"
  OBVIOUS
<1>1. CASE r.key = "trunc_u"
  <2>1. r.ins = <<Float64>>
    BY <1>1 DEF Typed, Signature, ArrayOpNames, LogicOps
  <2>2. Float64 \in HugrTypes /\ LlvmType[Float64] # NoType
    BY <2>1, TypedOne
  <2>3. ins[1] = F64
    BY <2>1, <2>2, FloatsTyped, Row1
  <2>4. e \in {Err, Panic, WithError(Stores(outs))}
    BY <1>1, <2>3 DEF EmitConversion
  <2>5. WithError(Stores(outs)).is # "mistyped"
    BY NeverMistyped, WithErrorTyped
  <2> HIDE DEF e, outs
  <2> QED BY <2>4, <2>5, NeverMistyped
<1>2. CASE r.key \in {"convert_u", "itousize", "ifromusize", "itobool", "ifrombool"}
  <2>1. e = Panic \/ \E types : e = Checked(outs, Stores(types))
    BY <1>2 DEF EmitConversion
  <2> HIDE DEF e, outs
  <2> QED BY <2>1, NeverMistyped
<1> QED BY <1>1, <1>2 DEF ConvertOps

LEMMA RotationTyped ==
  ASSUME Coherent, LoadsByRepository, NEW r, Typed(r), r.key \in RotationOps
  PROVE  EmitRotation(r.key, TypesOf(r.ins), TypesOf(r.outs), TypesOf(r.row)).is # "mistyped"
<1> DEFINE ins == TypesOf(r.ins)
           outs == TypesOf(r.outs)
           row == TypesOf(r.row)
           end == IF r.key = "from_halfturns" THEN BuildTag(row, ins, Stores(outs))
                  ELSE Unchecked(outs, Stores(<<ins[1]>>))
           panics == EmitPanic(LlvmType[Custom("error")], end)
<1>1. r.ins \in {<<Float64>>, <<Rotation>>, <<Rotation, Rotation>>}
  BY DEF Typed, Signature, ArrayOpNames, LogicOps, RotationOps
<1>2. 1 \in 1 .. Len(r.ins) /\ r.ins[1] \in {Float64, Rotation}
  <2>1. \A t, u : Len(<<t>>) = 1 /\ Len(<<t, u>>) = 2 /\ <<t>>[1] = t /\ <<t, u>>[1] = t
    OBVIOUS
  <2>2. Len(r.ins) \in {1, 2} /\ r.ins[1] \in {Float64, Rotation}
    BY <1>1, <2>1
  <2> QED BY <2>2
<1>3. r.ins[1] \in HugrTypes /\ LlvmType[r.ins[1]] # NoType
  BY <1>2, TypedRows
<1>4. ins[1] = F64
  BY <1>2, <1>3, FloatsTyped, RowTypes DEF Typed
<1>5. end = Stores(outs)
  <2>1. CASE r.key = "from_halfturns"
    <3>1. r.ins = <<Float64>> /\ r.row = <<Rotation>> /\ r.outs = <<SumOf(<<<<>>, <<Rotation>>>>)>>
      BY <2>1 DEF Typed, Signature, ArrayOpNames, LogicOps
    <3>2. LlvmType[Rotation] # NoType /\ Rotation \in HugrTypes
      <4> DEFINE rows == <<<<>>, <<Rotation>>>>
      <4>1. SumOf(rows) \in HugrTypes /\ LlvmType[SumOf(rows)] # NoType /\ Rotation \in HugrTypes
        BY <3>1, TypedOne
      <4>2. 2 \in DOMAIN rows /\ rows[2] = <<Rotation>>
        OBVIOUS
      <4> HIDE DEF rows
      <4>3. AllTyped(TypesOf(<<Rotation>>))
        BY <4>1, <4>2, SumType
      <4> QED BY <4>1, <4>3, Row1 DEF AllTyped
    <3>3. row = <<F64>> /\ ins = <<F64>>
      BY <1>4, <3>1, <3>2, FloatsTyped, Row1
    <3> QED BY <2>1, <3>3, NeverMistyped
  <2>2. CASE r.key # "from_halfturns"
    <3>1. r.outs \in {<<Float64>>, <<Rotation>>}
      BY <2>2 DEF Typed, Signature, ArrayOpNames, LogicOps, RotationOps
    <3>2. r.outs = <<r.outs[1]>> /\ r.outs[1] \in {Float64, Rotation} /\ 1 \in 1 .. Len(r.outs)
      BY <3>1
    <3>3. r.outs[1] \in HugrTypes /\ LlvmType[r.outs[1]] # NoType
      BY <3>2, TypedRows
    <3>4. outs = <<LlvmType[r.outs[1]]>>
      <4> DEFINE t == r.outs[1]
      <4>1. r.outs = <<t>>
        BY <3>2
      <4> HIDE DEF t
      <4> QED BY <4>1, Row1 DEF t
    <3>5. outs = <<F64>>
      BY <3>2, <3>3, <3>4, FloatsTyped
    <3> QED BY <1>4, <2>2, <3>5, NeverMistyped
  <2> QED BY <2>1, <2>2
<1>6. EmitRotation(r.key, ins, outs, row) \in {Panic, end, WithError(panics)}
  BY <1>4 DEF EmitRotation, RotationOps
<1> HIDE DEF end, outs, ins, row
<1>7. panics.is # "mistyped"
  BY <1>5, NeverMistyped DEF EmitPanic
<1> HIDE DEF panics
<1>8. WithError(panics).is # "mistyped"
  BY <1>7, WithErrorTyped
<1> QED BY <1>5, <1>6, <1>8, NeverMistyped DEF ins, outs, row

\* No callback of the repository mixes types.
LEMMA OpsTyped ==
  ASSUME Coherent, LoadsByRepository, EmitsByRepository, NEW r,
         r.ins \in Seq(HugrTypes), r.outs \in Seq(HugrTypes), r.row \in Seq(HugrTypes),
         Signature(r)
  PROVE  EmitExtensionOp(r).is # "mistyped"
<1> DEFINE h == extension_op_handlers[r.key]
           ins == TypesOf(r.ins)
           outs == TypesOf(r.outs)
           row == TypesOf(r.row)
           e == EmittedBy(h, r.key, ins, outs, row)
<1>1. ASSUME AllTyped(ins), AllTyped(outs), r.key \in DOMAIN extension_op_handlers
      PROVE  e.is # "mistyped"
  <2>1. r.key \in OpsOf(h.fn)
    BY <1>1 DEF EmitsByRepository
  <2>2. Typed(r)
    BY <1>1 DEF Typed
  <2>3. r.key = "print" => outs = <<>>
    BY <2>2, Row0 DEF Typed, Signature, ArrayOpNames, LogicOps
  <2>4. /\ EmitInt(r.key, ins, outs).is # "mistyped"
        /\ EmitFloat(r.key, ins, outs).is # "mistyped"
        /\ r.key = "print" => Unchecked(outs, Stores(<<>>)).is # "mistyped"
        /\ (IF ins[1] # h.ty THEN Err ELSE EmitPanic(ins[1], Stores(outs))).is # "mistyped"
    <3> HIDE DEF h, ins, outs
    <3> QED BY <2>3, NeverMistyped DEF EmitInt, EmitFloat, EmitPanic
  <2>5. /\ r.key \in TupleOps => EmitTuple(r.key, ins, outs).is # "mistyped"
        /\ r.key \in ArrayOpNames => EmitArray(r.key, ins, outs, row).is # "mistyped"
        /\ r.key \in LogicOps => EmitLogic(r.key, ins, outs).is # "mistyped"
        /\ r.key \in ConvertOps => EmitConversion(r.key, ins, outs, row).is # "mistyped"
        /\ r.key \in RotationOps => EmitRotation(r.key, ins, outs, row).is # "mistyped"
    <3>1. ArrayHook
      BY DEF Coherent, ArrayHook
    <3> QED BY <2>2, <3>1, TupleTyped, ArrayOpTyped, LogicTyped, ConversionTyped, RotationTyped
  <2>6. \/ r.key \in TupleOps /\ e = EmitTuple(r.key, ins, outs)
        \/ r.key \in ArrayOpNames /\ e = EmitArray(r.key, ins, outs, row)
        \/ e \in {EmitInt(r.key, ins, outs), EmitFloat(r.key, ins, outs)}
        \/ r.key \in LogicOps /\ e = EmitLogic(r.key, ins, outs)
        \/ r.key \in ConvertOps /\ e = EmitConversion(r.key, ins, outs, row)
        \/ r.key \in RotationOps /\ e = EmitRotation(r.key, ins, outs, row)
        \/ r.key = "print" /\ e = Unchecked(outs, Stores(<<>>))
        \/ e = IF ins[1] # h.ty THEN Err ELSE EmitPanic(ins[1], Stores(outs))
    <3> HIDE DEF h, ins, outs, row
    <3> QED BY <2>1, Emitter
  <2> SUFFICES e.is # "mistyped"
    OBVIOUS
  <2> HIDE DEF e
  <2>7. CASE r.key \in TupleOps /\ e = EmitTuple(r.key, ins, outs)
    BY <2>5, <2>7
  <2>8. CASE r.key \in ArrayOpNames /\ e = EmitArray(r.key, ins, outs, row)
    BY <2>5, <2>8
  <2>9. CASE r.key \in ConvertOps /\ e = EmitConversion(r.key, ins, outs, row)
    BY <2>5, <2>9
  <2>10. CASE r.key \in RotationOps /\ e = EmitRotation(r.key, ins, outs, row)
    BY <2>5, <2>10
  <2> QED BY <2>4, <2>5, <2>6, <2>7, <2>8, <2>9, <2>10
<1>2. EmitExtensionOp(r) = (IF \/ ~AllTyped(ins) \/ ~AllTyped(outs)
                               \/ r.key \notin DOMAIN extension_op_handlers
                            THEN Err ELSE e)
  BY DEF EmitExtensionOp
<1> HIDE DEF e
<1> QED BY <1>1, <1>2, NeverMistyped

-----------------------------------------------------------------------------
(* What a HUGR type consists of.                                           *)

PartsFrom(t, f) == {t} \cup UNION {f[u] : u \in Within(t)}

\* f has the parts of the types that are nested less than n deep.
PartsTo(f, n) == \A t \in HugrTypes : Depth[t] < n => f[t] = PartsFrom(t, f)

LEMMA PartsAlike ==
  ASSUME NEW f, NEW g, NEW n \in Nat, NEW m \in Nat, n <= m, PartsTo(f, n), PartsTo(g, m)
  PROVE  \A t \in HugrTypes : Depth[t] < n => f[t] = g[t]
<1> DEFINE S == {Depth[t] : t \in {u \in HugrTypes : Depth[u] < n /\ f[u] # g[u]}}
<1> SUFFICES ASSUME S # {} PROVE FALSE
  OBVIOUS
<1>1. S \subseteq Nat
  BY TypesAssumption
<1>2. PICK d \in S : \A k \in S : d <= k
  BY <1>1, LeastNumber
<1>3. PICK t \in HugrTypes : Depth[t] = d /\ Depth[t] < n /\ f[t] # g[t]
  OBVIOUS
<1>4. ASSUME NEW u \in Within(t) PROVE f[u] = g[u]
  <2>1. u \in HugrTypes /\ Depth[u] < d /\ Depth[u] \in Nat /\ d \in Nat
    BY <1>1, <1>3, TypesAssumption
  <2>2. Depth[u] \notin S /\ Depth[u] < n
    BY <1>1, <1>2, <1>3, <2>1
  <2> QED BY <2>1, <2>2
<1>5. PartsFrom(t, f) = PartsFrom(t, g)
  BY <1>4 DEF PartsFrom
<1>6. Depth[t] < m
  BY <1>3, TypesAssumption
<1> QED BY <1>3, <1>5, <1>6 DEF PartsTo

LEMMA PartsExist ==
  ASSUME NEW n \in Nat
  PROVE  \E f : PartsTo(f, n)
<1> DEFINE S == {k \in Nat : ~ \E f : PartsTo(f, k)}
<1> SUFFICES ASSUME S # {} PROVE FALSE
  OBVIOUS
<1>1. PICK k \in S : \A j \in S : k <= j
  BY LeastNumber
<1>2. k # 0
  <2>1. PartsTo(0, 0)
    BY TypesAssumption DEF PartsTo
  <2> QED BY <2>1
<1>3. k - 1 \in Nat /\ k - 1 \notin S
  BY <1>1, <1>2
<1>4. PICK f : PartsTo(f, k - 1)
  BY <1>3
<1> DEFINE g == [t \in HugrTypes |-> IF Depth[t] < k - 1 THEN f[t] ELSE PartsFrom(t, f)]
<1>5. ASSUME NEW t \in HugrTypes, Depth[t] < k PROVE g[t] = PartsFrom(t, g)
  <2>1. \A u \in Within(t) : u \in HugrTypes /\ Depth[u] < k - 1
    BY <1>1, <1>5, TypesAssumption
  <2>2. \A u \in Within(t) : g[u] = f[u]
    BY <2>1
  <2>3. g[t] = PartsFrom(t, f)
    BY <1>4 DEF PartsTo
  <2> HIDE DEF g
  <2>4. PartsFrom(t, g) = PartsFrom(t, f)
    BY <2>2 DEF PartsFrom
  <2> QED BY <2>3, <2>4
<1>6. PartsTo(g, k)
  <2> HIDE DEF g
  <2> QED BY <1>5 DEF PartsTo
<1> QED BY <1>6

\* There is a function with the equation that defines PartsOf.
LEMMA PartsDefined == PartsOf = [t \in HugrTypes |-> PartsFrom(t, PartsOf)]
<1> DEFINE Some(t) == CHOOSE f : PartsTo(f, Depth[t] + 1)
           f == [t \in HugrTypes |-> Some(t)[t]]
<1>1. ASSUME NEW t \in HugrTypes PROVE PartsTo(Some(t), Depth[t] + 1) /\ Depth[t] \in Nat
  <2>1. Depth[t] \in Nat /\ Depth[t] + 1 \in Nat
    BY TypesAssumption
  <2>2. \E h : PartsTo(h, Depth[t] + 1)
    BY <2>1, PartsExist
  <2> QED BY <2>1, <2>2
<1> HIDE DEF Some
<1>2. ASSUME NEW t \in HugrTypes PROVE f[t] = PartsFrom(t, f)
  <2>1. ASSUME NEW u \in Within(t) PROVE f[u] = Some(t)[u]
    <3>1. u \in HugrTypes /\ Depth[u] < Depth[t] /\ Depth[u] \in Nat /\ Depth[t] \in Nat
      BY TypesAssumption
    <3>2. PartsTo(Some(u), Depth[u] + 1) /\ PartsTo(Some(t), Depth[t] + 1)
      BY <1>1, <3>1
    <3>3. Depth[u] + 1 \in Nat /\ Depth[t] + 1 \in Nat /\ Depth[u] + 1 <= Depth[t] + 1
          /\ Depth[u] < Depth[u] + 1
      BY <3>1
    <3>4. Some(u)[u] = Some(t)[u]
      BY <3>1, <3>2, <3>3, PartsAlike
    <3> QED BY <3>1, <3>4
  <2>2. Some(t)[t] = PartsFrom(t, Some(t))
    <3>1. Depth[t] < Depth[t] + 1
      BY <1>1
    <3> QED BY <1>1, <3>1 DEF PartsTo
  <2>3. f[t] = PartsFrom(t, Some(t))
    BY <2>2
  <2> HIDE DEF f
  <2>4. PartsFrom(t, f) = PartsFrom(t, Some(t))
    BY <2>1 DEF PartsFrom
  <2> QED BY <2>3, <2>4
<1>3. f = [t \in HugrTypes |-> PartsFrom(t, f)]
  <2>1. f = [t \in HugrTypes |-> f[t]]
    OBVIOUS
  <2> HIDE DEF f
  <2> QED BY <1>2, <2>1
<1>4. \E g : g = [t \in HugrTypes |-> PartsFrom(t, g)]
  <2> HIDE DEF f
  <2> QED BY <1>3
<1>5. PartsOf = CHOOSE g : g = [t \in HugrTypes |-> PartsFrom(t, g)]
  BY DEF PartsOf, PartsFrom
<1> QED BY <1>4, <1>5

LEMMA PartsAre ==
  ASSUME NEW t \in HugrTypes
  PROVE  PartsOf[t] = PartsFrom(t, PartsOf)
BY PartsDefined

-----------------------------------------------------------------------------
(* What an extension that is available has registered.                     *)

\* An extension has h answer for k in a table.
Files(ext, table, k, h) ==
    \E l \in DOMAIN ext :
      /\ ext[l].table = table /\ k \in ext[l].keys /\ ext[l].handler = h
      /\ \A m \in DOMAIN ext : m # l => k \notin ext[m].keys

\* None of the calls after the i-th names k.
Latest(k, i) == \A j \in DOMAIN calls : k \in calls[j].keys => j <= i

IsChain(ext) == Len(ext) \in Nat /\ DOMAIN ext = 1 .. Len(ext)

LEMMA Answers ==
  ASSUME calls \in Seq(Call), NEW i \in DOMAIN calls,
         NEW ext, IsChain(ext), EndsAt(calls, i, ext),
         NEW table, NEW k, NEW h, Files(ext, table, k, h), Latest(k, i),
         NEW map, Resolves(calls, map, table)
  PROVE  k \in DOMAIN map /\ map[k] = h
<1> DEFINE n == Len(ext)
<1>1. PICK l \in 1 .. n :
        /\ ext[l].table = table /\ k \in ext[l].keys /\ ext[l].handler = h
        /\ \A m \in 1 .. n : m # l => k \notin ext[m].keys
  BY DEF Files, IsChain
<1>2. n \in Nat /\ n <= i /\ \A m \in 1 .. n : calls[(i - n) + m] = ext[m]
  BY DEF EndsAt, IsChain
<1>3. DOMAIN calls = 1 .. Len(calls) /\ Len(calls) \in Nat /\ i \in 1 .. Len(calls)
  OBVIOUS
<1> DEFINE p == (i - n) + l
<1>4. p \in DOMAIN calls /\ calls[p] = ext[l]
  BY <1>2, <1>3
<1>5. calls[p] \in Call
  BY <1>4
<1>6. k \in Key
  BY <1>1, <1>4, <1>5 DEF Call
<1> HIDE DEF n
<1>7. p \in Filed(calls, table, k)
  BY <1>1, <1>4 DEF Filed
<1>8. k \in DOMAIN map
  BY <1>6, <1>7 DEF Resolves
<1>9. PICK q \in Filed(calls, table, k) :
        (\A j \in Filed(calls, table, k) : j <= q) /\ map[k] = calls[q].handler
  BY <1>8 DEF Resolves
<1>10. q \in DOMAIN calls /\ k \in calls[q].keys
  BY DEF Filed
<1>11. p <= q /\ q <= i
  BY <1>7, <1>9, <1>10 DEF Latest
<1>12. q = p
  <2>1. CASE q > p
    <3> DEFINE m == q - (i - n)
    <3>1. m \in 1 .. n /\ m > l /\ (i - n) + m = q
      BY <1>2, <1>3, <1>10, <1>11, <2>1
    <3>2. calls[q] = ext[m]
      BY <1>2, <3>1
    <3> QED BY <1>1, <1>10, <3>1, <3>2
  <2> QED BY <1>2, <1>3, <1>10, <1>11, <2>1
<1> QED BY <1>1, <1>4, <1>8, <1>9, <1>12

Handles(fn, ty) == [fn |-> fn, ty |-> ty]

LEMMA TypeCallIs ==
  ASSUME NEW key, NEW fn, NEW ty
  PROVE  LET c == CustomTypeCall(key, fn, ty)
         IN c.table = "types" /\ c.keys = {key} /\ c.handler = Handles(fn, ty)
BY DEF CustomTypeCall, Handles

LEMMA ConstCallIs ==
  ASSUME NEW key, NEW ty
  PROVE  LET c == CustomConstCall(key, ty)
         IN c.table = "consts" /\ c.keys = {key} /\ c.handler = Handles(key, ty)
BY DEF CustomConstCall, Handles

LEMMA OpsCallIs ==
  ASSUME NEW ops, NEW fn, NEW ty
  PROVE  LET c == SimpleExtensionOpCall(ops, fn, ty)
         IN c.table = "ops" /\ c.keys = ops /\ c.handler = Handles(fn, ty)
BY DEF SimpleExtensionOpCall, Handles

LEMMA OpCallIs ==
  ASSUME NEW key, NEW ty
  PROVE  LET c == ExtensionOpCall(key, ty)
         IN c.table = "ops" /\ c.keys = {key} /\ c.handler = Handles(key, ty)
BY DEF ExtensionOpCall, Handles

LEMMA IntFiles ==
  LET ext == AddIntExtensions IN
  /\ IsChain(ext)
  /\ Files(ext, "consts", "ConstInt", Handles("ConstInt", NoType))
  /\ Files(ext, "types", "int", Handles("int_type", NoType))
  /\ \A op \in IntOps : Files(ext, "ops", op, Handles("int", NoType))
<1> DEFINE c1 == CustomConstCall("ConstInt", NoType)
           c2 == CustomTypeCall("int", "int_type", NoType)
           c3 == SimpleExtensionOpCall(IntOps, "int", NoType)
<1>1. /\ c1.table = "consts" /\ c1.keys = {"ConstInt"} /\ c1.handler = Handles("ConstInt", NoType)
      /\ c2.table = "types" /\ c2.keys = {"int"} /\ c2.handler = Handles("int_type", NoType)
      /\ c3.table = "ops" /\ c3.keys = IntOps /\ c3.handler = Handles("int", NoType)
  BY TypeCallIs, ConstCallIs, OpsCallIs, OpCallIs
<1> HIDE DEF c1, c2, c3
<1> DEFINE ext == <<c1, c2, c3>>
<1>2. AddIntExtensions = ext
  BY DEF AddIntExtensions, c1, c2, c3
<1>3. IsChain(ext) /\ DOMAIN ext = 1 .. 3 /\ ext[1] = c1 /\ ext[2] = c2 /\ ext[3] = c3
  BY DEF IsChain
<1> HIDE DEF ext
<1>4. DOMAIN ext = {1, 2, 3}
  BY <1>3
<1>5. Files(ext, "consts", "ConstInt", Handles("ConstInt", NoType))
  BY <1>1, <1>3, <1>4 DEF Files, IntOps
<1>6. Files(ext, "types", "int", Handles("int_type", NoType))
  BY <1>1, <1>3, <1>4 DEF Files, IntOps
<1>7. \A op \in IntOps : Files(ext, "ops", op, Handles("int", NoType))
  BY <1>1, <1>3, <1>4 DEF Files, IntOps
<1> QED BY <1>2, <1>3, <1>5, <1>6, <1>7

LEMMA FloatFiles ==
  LET ext == AddFloatExtensions IN
  /\ IsChain(ext)
  /\ Files(ext, "types", "float64", Handles("fixed", F64))
  /\ Files(ext, "consts", "ConstF64", Handles("ConstF64", NoType))
  /\ \A op \in FloatOps : Files(ext, "ops", op, Handles("float", NoType))
<1> DEFINE c1 == CustomTypeCall("float64", "fixed", F64)
           c2 == CustomConstCall("ConstF64", NoType)
           c3 == SimpleExtensionOpCall(FloatOps, "float", NoType)
<1>1. /\ c1.table = "types" /\ c1.keys = {"float64"} /\ c1.handler = Handles("fixed", F64)
      /\ c2.table = "consts" /\ c2.keys = {"ConstF64"} /\ c2.handler = Handles("ConstF64", NoType)
      /\ c3.table = "ops" /\ c3.keys = FloatOps /\ c3.handler = Handles("float", NoType)
  BY TypeCallIs, ConstCallIs, OpsCallIs, OpCallIs
<1> HIDE DEF c1, c2, c3
<1> DEFINE ext == <<c1, c2, c3>>
<1>2. AddFloatExtensions = ext
  BY DEF AddFloatExtensions, c1, c2, c3
<1>3. IsChain(ext) /\ DOMAIN ext = 1 .. 3 /\ ext[1] = c1 /\ ext[2] = c2 /\ ext[3] = c3
  BY DEF IsChain
<1> HIDE DEF ext
<1>4. DOMAIN ext = {1, 2, 3}
  BY <1>3
<1>5. Files(ext, "types", "float64", Handles("fixed", F64))
  BY <1>1, <1>3, <1>4 DEF Files, FloatOps
<1>6. Files(ext, "consts", "ConstF64", Handles("ConstF64", NoType))
  BY <1>1, <1>3, <1>4 DEF Files, FloatOps
<1>7. \A op \in FloatOps : Files(ext, "ops", op, Handles("float", NoType))
  BY <1>1, <1>3, <1>4 DEF Files, FloatOps
<1> QED BY <1>2, <1>3, <1>5, <1>6, <1>7

LEMMA RotationFiles ==
  LET ext == RotationExtension IN
  /\ IsChain(ext)
  /\ Files(ext, "types", "rotation", Handles("fixed", F64))
  /\ Files(ext, "consts", "ConstRotation", Handles("ConstRotation", NoType))
  /\ \A op \in RotationOps : Files(ext, "ops", op, Handles("rotation", NoType))
<1> DEFINE c1 == CustomTypeCall("rotation", "fixed", F64)
           c2 == CustomConstCall("ConstRotation", NoType)
           c3 == SimpleExtensionOpCall(RotationOps, "rotation", NoType)
<1>1. /\ c1.table = "types" /\ c1.keys = {"rotation"} /\ c1.handler = Handles("fixed", F64)
      /\ c2.table = "consts" /\ c2.keys = {"ConstRotation"} /\ c2.handler = Handles("ConstRotation", NoType)
      /\ c3.table = "ops" /\ c3.keys = RotationOps /\ c3.handler = Handles("rotation", NoType)
  BY TypeCallIs, ConstCallIs, OpsCallIs, OpCallIs
<1> HIDE DEF c1, c2, c3
<1> DEFINE ext == <<c1, c2, c3>>
<1>2. RotationExtension = ext
  BY DEF RotationExtension, c1, c2, c3
<1>3. IsChain(ext) /\ DOMAIN ext = 1 .. 3 /\ ext[1] = c1 /\ ext[2] = c2 /\ ext[3] = c3
  BY DEF IsChain
<1> HIDE DEF ext
<1>4. DOMAIN ext = {1, 2, 3}
  BY <1>3
<1>5. Files(ext, "types", "rotation", Handles("fixed", F64))
  BY <1>1, <1>3, <1>4 DEF Files, RotationOps
<1>6. Files(ext, "consts", "ConstRotation", Handles("ConstRotation", NoType))
  BY <1>1, <1>3, <1>4 DEF Files, RotationOps
<1>7. \A op \in RotationOps : Files(ext, "ops", op, Handles("rotation", NoType))
  BY <1>1, <1>3, <1>4 DEF Files, RotationOps
<1> QED BY <1>2, <1>3, <1>5, <1>6, <1>7

\* emit_logic_op is registered for one operation at a time.
LEMMA LogicFiles ==
  /\ IsChain(AddLogicExtensions)
  /\ \A op \in LogicOps : Files(AddLogicExtensions, "ops", op, Handles("logic", NoType))
<1> DEFINE c(op) == SimpleExtensionOpCall({op}, "logic", NoType)
<1>1. \A op : c(op).table = "ops" /\ c(op).keys = {op} /\ c(op).handler = Handles("logic", NoType)
  BY OpsCallIs
<1> HIDE DEF c
<1> DEFINE ext == <<c("Eq"), c("And"), c("Or"), c("Not")>>
<1>2. AddLogicExtensions = ext
  BY DEF AddLogicExtensions, c
<1>3. /\ IsChain(ext) /\ DOMAIN ext = 1 .. 4
      /\ ext[1] = c("Eq") /\ ext[2] = c("And") /\ ext[3] = c("Or") /\ ext[4] = c("Not")
  BY DEF IsChain
<1> HIDE DEF ext
<1>4. DOMAIN ext = {1, 2, 3, 4}
  BY <1>3
<1>5. \A op \in LogicOps : Files(ext, "ops", op, Handles("logic", NoType))
  BY <1>1, <1>3, <1>4 DEF Files, LogicOps
<1> QED BY <1>2, <1>3, <1>5

LEMMA ConversionFiles ==
  LET ext == ConversionExtension IN
  /\ IsChain(ext)
  /\ \A op \in ConvertOps : Files(ext, "ops", op, Handles("conversion", NoType))
<1> DEFINE c1 == SimpleExtensionOpCall(ConvertOps, "conversion", NoType)
<1>1. /\ c1.table = "ops" /\ c1.keys = ConvertOps /\ c1.handler = Handles("conversion", NoType)
  BY TypeCallIs, ConstCallIs, OpsCallIs, OpCallIs
<1> HIDE DEF c1
<1> DEFINE ext == <<c1>>
<1>2. ConversionExtension = ext
  BY DEF ConversionExtension, c1
<1>3. IsChain(ext) /\ DOMAIN ext = 1 .. 1 /\ ext[1] = c1
  BY DEF IsChain
<1> HIDE DEF ext
<1>4. DOMAIN ext = {1}
  BY <1>3
<1>5. \A op \in ConvertOps : Files(ext, "ops", op, Handles("conversion", NoType))
  BY <1>1, <1>3, <1>4 DEF Files, ConvertOps
<1> QED BY <1>2, <1>3, <1>5

\* Where a chain names k, and nowhere else.
NamedAt(ext, l, k) ==
    /\ l \in DOMAIN ext /\ k \in ext[l].keys
    /\ \A m \in DOMAIN ext : m # l => k \notin ext[m].keys

LEMMA PreludeFiles ==
  ASSUME NEW usize, NEW qubit, NEW error
  PROVE  LET ext == Prelude(usize, qubit, error) IN
         /\ IsChain(ext) /\ Len(ext) = 13
         /\ NamedAt(ext, 4, "error") /\ NamedAt(ext, 9, "ConstError") /\ NamedAt(ext, 13, "panic")
         /\ Files(ext, "types", "qubit", Handles("fixed", qubit))
         /\ Files(ext, "types", "usize", Handles("fixed", usize))
         /\ Files(ext, "types", "string", Handles("fixed", Ptr))
         /\ Files(ext, "types", "error", Handles("fixed", error))
         /\ Files(ext, "types", "array", Handles("array_type", NoType))
         /\ Files(ext, "consts", "ConstUsize", Handles("ConstUsize", NoType))
         /\ Files(ext, "consts", "ConstExternalSymbol", Handles("ConstExternalSymbol", NoType))
         /\ Files(ext, "consts", "ConstString", Handles("ConstString", NoType))
         /\ Files(ext, "consts", "ConstError", Handles("ConstError", error))
         /\ \A op \in TupleOps : Files(ext, "ops", op, Handles("tuple", NoType))
         /\ \A op \in ArrayOpNames : Files(ext, "ops", op, Handles("array", NoType))
         /\ Files(ext, "ops", "print", Handles("print", NoType))
         /\ Files(ext, "ops", "panic", Handles("panic", error))
<1> DEFINE c1 == CustomTypeCall("qubit", "fixed", qubit)
           c2 == CustomTypeCall("usize", "fixed", usize)
           c3 == CustomTypeCall("string", "fixed", Ptr)
           c4 == CustomTypeCall("error", "fixed", error)
           c5 == CustomTypeCall("array", "array_type", NoType)
           c6 == CustomConstCall("ConstUsize", NoType)
           c7 == CustomConstCall("ConstExternalSymbol", NoType)
           c8 == CustomConstCall("ConstString", NoType)
           c9 == CustomConstCall("ConstError", error)
           c10 == SimpleExtensionOpCall(TupleOps, "tuple", NoType)
           c11 == SimpleExtensionOpCall(ArrayOpNames, "array", NoType)
           c12 == ExtensionOpCall("print", NoType)
           c13 == ExtensionOpCall("panic", error)
<1>1. /\ c1.table = "types" /\ c1.keys = {"qubit"} /\ c1.handler = Handles("fixed", qubit)
      /\ c2.table = "types" /\ c2.keys = {"usize"} /\ c2.handler = Handles("fixed", usize)
      /\ c3.table = "types" /\ c3.keys = {"string"} /\ c3.handler = Handles("fixed", Ptr)
      /\ c4.table = "types" /\ c4.keys = {"error"} /\ c4.handler = Handles("fixed", error)
      /\ c5.table = "types" /\ c5.keys = {"array"} /\ c5.handler = Handles("array_type", NoType)
      /\ c6.table = "consts" /\ c6.keys = {"ConstUsize"} /\ c6.handler = Handles("ConstUsize", NoType)
      /\ c7.table = "consts" /\ c7.keys = {"ConstExternalSymbol"} /\ c7.handler = Handles("ConstExternalSymbol", NoType)
      /\ c8.table = "consts" /\ c8.keys = {"ConstString"} /\ c8.handler = Handles("ConstString", NoType)
      /\ c9.table = "consts" /\ c9.keys = {"ConstError"} /\ c9.handler = Handles("ConstError", error)
      /\ c10.table = "ops" /\ c10.keys = TupleOps /\ c10.handler = Handles("tuple", NoType)
      /\ c11.table = "ops" /\ c11.keys = ArrayOpNames /\ c11.handler = Handles("array", NoType)
      /\ c12.table = "ops" /\ c12.keys = {"print"} /\ c12.handler = Handles("print", NoType)
      /\ c13.table = "ops" /\ c13.keys = {"panic"} /\ c13.handler = Handles("panic", error)
  BY TypeCallIs, ConstCallIs, OpsCallIs, OpCallIs
<1> HIDE DEF c1, c2, c3, c4, c5, c6, c7, c8, c9, c10, c11, c12, c13
<1> DEFINE ext == <<c1, c2, c3, c4, c5, c6, c7, c8, c9, c10, c11, c12, c13>>
<1>2. Prelude(usize, qubit, error) = ext
  BY DEF Prelude, c1, c2, c3, c4, c5, c6, c7, c8, c9, c10, c11, c12, c13
<1>3. /\ IsChain(ext) /\ Len(ext) = 13 /\ DOMAIN ext = 1 .. 13
      /\ ext[1] = c1 /\ ext[2] = c2 /\ ext[3] = c3 /\ ext[4] = c4 /\ ext[5] = c5
      /\ ext[6] = c6 /\ ext[7] = c7 /\ ext[8] = c8 /\ ext[9] = c9 /\ ext[10] = c10
      /\ ext[11] = c11 /\ ext[12] = c12 /\ ext[13] = c13
  BY DEF IsChain
<1> HIDE DEF ext
<1>4. DOMAIN ext = {1, 2, 3, 4, 5, 6, 7, 8, 9, 10, 11, 12, 13}
  BY <1>3
<1>5. /\ Files(ext, "types", "qubit", Handles("fixed", qubit))
      /\ Files(ext, "types", "usize", Handles("fixed", usize))
      /\ Files(ext, "types", "string", Handles("fixed", Ptr))
      /\ Files(ext, "types", "error", Handles("fixed", error))
      /\ Files(ext, "types", "array", Handles("array_type", NoType))
  BY <1>1, <1>3, <1>4 DEF Files, TupleOps, ArrayOpNames
<1>6. /\ Files(ext, "consts", "ConstUsize", Handles("ConstUsize", NoType))
      /\ Files(ext, "consts", "ConstExternalSymbol", Handles("ConstExternalSymbol", NoType))
      /\ Files(ext, "consts", "ConstString", Handles("ConstString", NoType))
      /\ Files(ext, "consts", "ConstError", Handles("ConstError", error))
  BY <1>1, <1>3, <1>4 DEF Files, TupleOps, ArrayOpNames
<1>7. /\ \A op \in TupleOps : Files(ext, "ops", op, Handles("tuple", NoType))
      /\ \A op \in ArrayOpNames : Files(ext, "ops", op, Handles("array", NoType))
      /\ Files(ext, "ops", "print", Handles("print", NoType))
      /\ Files(ext, "ops", "panic", Handles("panic", error))
  BY <1>1, <1>3, <1>4 DEF Files, TupleOps, ArrayOpNames
<1>8. NamedAt(ext, 4, "error") /\ NamedAt(ext, 9, "ConstError") /\ NamedAt(ext, 13, "panic")
  BY <1>1, <1>3, <1>4 DEF NamedAt, TupleOps, ArrayOpNames
<1> QED BY <1>2, <1>3, <1>5, <1>6, <1>7, <1>8

\* What a PreludeCodegen makes of the prelude's types, as its handlers want it.
PreludeTypes(usize, qubit, error) ==
    /\ IsInt(usize) /\ qubit # NoType
    /\ IsStruct(error) /\ CodeAndMessage(error)

LEMMA PreludesAre ==
  ASSUME NEW ext \in Preludes
  PROVE  \E usize, qubit, error :
           ext = Prelude(usize, qubit, error) /\ PreludeTypes(usize, qubit, error)
<1> DEFINE types == {h.ty : h \in Handler}
           usizes == {ty \in types : IsInt(ty)}
           errors == {ty \in types : IsStruct(ty) /\ CodeAndMessage(ty)}
<1>1. PICK p \in usizes \X (types \ {NoType}) \X errors : ext = Prelude(p[1], p[2], p[3])
  BY DEF Preludes
<1>2. IsInt(p[1]) /\ p[2] # NoType /\ IsStruct(p[3]) /\ CodeAndMessage(p[3])
  OBVIOUS
<1> QED BY <1>1, <1>2 DEF PreludeTypes

Tables3 ==
    /\ calls \in Seq(Call)
    /\ LastRegistrationWins

\* A table answers for k with h.
Answered(map, k, h) == k \in DOMAIN map /\ map[k] = h

LEMMA Filing ==
  ASSUME Tables3, NEW i \in DOMAIN calls, NEW ext, IsChain(ext), EndsAt(calls, i, ext),
         NEW k, Latest(k, i), NEW h
  PROVE  /\ Files(ext, "types", k, h) => Answered(custom_hooks, k, h)
         /\ Files(ext, "consts", k, h) => Answered(load_constant_handlers, k, h)
         /\ Files(ext, "ops", k, h) => Answered(extension_op_handlers, k, h)
<1>1. /\ calls \in Seq(Call)
      /\ Resolves(calls, custom_hooks, "types")
      /\ Resolves(calls, load_constant_handlers, "consts")
      /\ Resolves(calls, extension_op_handlers, "ops")
  BY DEF Tables3, LastRegistrationWins
<1>2. Files(ext, "types", k, h) => Answered(custom_hooks, k, h)
  BY <1>1, Answers DEF Answered
<1>3. Files(ext, "consts", k, h) => Answered(load_constant_handlers, k, h)
  BY <1>1, Answers DEF Answered
<1>4. Files(ext, "ops", k, h) => Answered(extension_op_handlers, k, h)
  BY <1>1, Answers DEF Answered
<1> QED BY <1>2, <1>3, <1>4

PreludeOps == TupleOps \cup ArrayOpNames \cup {"print", "panic"}

LEMMA PreludeAnswers ==
  ASSUME Tables3, NEW usize, NEW qubit, NEW error, NEW i \in DOMAIN calls,
         EndsAt(calls, i, Prelude(usize, qubit, error)), NEW k, Latest(k, i)
  PROVE  /\ k = "qubit" => Answered(custom_hooks, k, Handles("fixed", qubit))
         /\ k = "usize" => Answered(custom_hooks, k, Handles("fixed", usize))
         /\ k = "string" => Answered(custom_hooks, k, Handles("fixed", Ptr))
         /\ k = "error" => Answered(custom_hooks, k, Handles("fixed", error))
         /\ k = "array" => Answered(custom_hooks, k, Handles("array_type", NoType))
         /\ k \in {"ConstUsize", "ConstExternalSymbol", "ConstString"} =>
              Answered(load_constant_handlers, k, Handles(k, NoType))
         /\ k = "ConstError" => Answered(load_constant_handlers, k, Handles(k, error))
         /\ k \in PreludeOps => k \in DOMAIN extension_op_handlers
         /\ k = "panic" => Answered(extension_op_handlers, k, Handles(k, error))
<1> DEFINE ext == Prelude(usize, qubit, error)
<1>1. /\ IsChain(ext) /\ EndsAt(calls, i, ext)
      /\ Files(ext, "types", "qubit", Handles("fixed", qubit))
      /\ Files(ext, "types", "usize", Handles("fixed", usize))
      /\ Files(ext, "types", "string", Handles("fixed", Ptr))
      /\ Files(ext, "types", "error", Handles("fixed", error))
      /\ Files(ext, "types", "array", Handles("array_type", NoType))
      /\ Files(ext, "consts", "ConstUsize", Handles("ConstUsize", NoType))
      /\ Files(ext, "consts", "ConstExternalSymbol", Handles("ConstExternalSymbol", NoType))
      /\ Files(ext, "consts", "ConstString", Handles("ConstString", NoType))
      /\ Files(ext, "consts", "ConstError", Handles("ConstError", error))
      /\ \A op \in TupleOps : Files(ext, "ops", op, Handles("tuple", NoType))
      /\ \A op \in ArrayOpNames : Files(ext, "ops", op, Handles("array", NoType))
      /\ Files(ext, "ops", "print", Handles("print", NoType))
      /\ Files(ext, "ops", "panic", Handles("panic", error))
  BY PreludeFiles
<1> HIDE DEF ext
<1>2. \A h : /\ Files(ext, "types", k, h) => Answered(custom_hooks, k, h)
             /\ Files(ext, "consts", k, h) => Answered(load_constant_handlers, k, h)
             /\ Files(ext, "ops", k, h) => Answered(extension_op_handlers, k, h)
  BY <1>1, Filing
<1>3. \A h : Answered(extension_op_handlers, k, h) => k \in DOMAIN extension_op_handlers
  BY DEF Answered
<1> QED BY <1>1, <1>2, <1>3 DEF PreludeOps

\* The calls before the last of a chain that name k.
LEMMA NamedLast ==
  ASSUME calls \in Seq(Call), NEW i \in DOMAIN calls, NEW ext, IsChain(ext),
         EndsAt(calls, i, ext), NEW l, NEW k, NamedAt(ext, l, k)
  PROVE  /\ (i - Len(ext)) + l \in DOMAIN calls
         /\ k \in calls[(i - Len(ext)) + l].keys
         /\ Latest(k, i) => Latest(k, (i - Len(ext)) + l)
<1> DEFINE n == Len(ext)
           p == (i - n) + l
<1>1. /\ n \in Nat /\ l \in 1 .. n /\ k \in ext[l].keys
      /\ \A m \in 1 .. n : m # l => k \notin ext[m].keys
  BY DEF NamedAt, IsChain
<1>2. n <= i /\ \A m \in 1 .. n : calls[(i - n) + m] = ext[m]
  BY DEF EndsAt, IsChain
<1>3. DOMAIN calls = 1 .. Len(calls) /\ Len(calls) \in Nat /\ i \in 1 .. Len(calls)
  OBVIOUS
<1> HIDE DEF n
<1>4. p \in DOMAIN calls /\ calls[p] = ext[l]
  BY <1>1, <1>2, <1>3
<1>5. ASSUME Latest(k, i), NEW j \in DOMAIN calls, k \in calls[j].keys PROVE j <= p
  <2>1. j \in Nat /\ j <= i
    BY <1>3, <1>5 DEF Latest
  <2>2. CASE j > p
    <3> DEFINE m == j - (i - n)
    <3>1. m \in 1 .. n /\ m # l /\ (i - n) + m = j
      BY <1>1, <1>2, <1>3, <2>1, <2>2
    <3>2. calls[j] = ext[m]
      BY <1>2, <3>1
    <3> QED BY <1>1, <1>5, <3>1, <3>2
  <2> QED BY <1>1, <1>2, <1>3, <2>1, <2>2
<1> QED BY <1>1, <1>4, <1>5 DEF Latest, n

\* An error that is available is that of the prelude a handler of errors is from.
LEMMA SamePrelude ==
  ASSUME Tables3, NEW k \in {"ConstError", "panic"},
         NEW usize1, NEW qubit1, NEW error1, NEW i1 \in DOMAIN calls,
         EndsAt(calls, i1, Prelude(usize1, qubit1, error1)), Latest("error", i1),
         NEW usize2, NEW qubit2, NEW error2, NEW i2 \in DOMAIN calls,
         EndsAt(calls, i2, Prelude(usize2, qubit2, error2)), Latest(k, i2)
  PROVE  error1 = error2
<1> DEFINE ext1 == Prelude(usize1, qubit1, error1)
           ext2 == Prelude(usize2, qubit2, error2)
           l == IF k = "panic" THEN 13 ELSE 9
<1>1. /\ Len(ext1) = 13 /\ NamedAt(ext1, 4, "error") /\ NamedAt(ext1, l, k) /\ IsChain(ext1)
      /\ Len(ext2) = 13 /\ NamedAt(ext2, 4, "error") /\ NamedAt(ext2, l, k) /\ IsChain(ext2)
  BY PreludeFiles
<1>2. EndsAt(calls, i1, ext1) /\ EndsAt(calls, i2, ext2)
  OBVIOUS
<1>3. calls \in Seq(Call) /\ l \in Nat
  BY DEF Tables3
<1> HIDE DEF ext1, ext2, l
<1>4. Latest("error", (i1 - 13) + 4) /\ Latest(k, (i2 - 13) + l)
  BY <1>1, <1>2, <1>3, NamedLast
<1>5. /\ (i2 - 13) + 4 \in DOMAIN calls /\ "error" \in calls[(i2 - 13) + 4].keys
      /\ (i1 - 13) + l \in DOMAIN calls /\ k \in calls[(i1 - 13) + l].keys
  BY <1>1, <1>2, <1>3, NamedLast
<1>6. (i2 - 13) + 4 <= (i1 - 13) + 4 /\ (i1 - 13) + l <= (i2 - 13) + l
  BY <1>4, <1>5 DEF Latest
<1>7. i1 = i2
  BY <1>3, <1>6
<1>8. /\ Answered(custom_hooks, "error", Handles("fixed", error1))
      /\ Answered(custom_hooks, "error", Handles("fixed", error2))
  BY <1>7, PreludeAnswers
<1>9. Handles("fixed", error1) = Handles("fixed", error2)
  BY <1>8 DEF Answered
<1> QED BY <1>9 DEF Handles

OpNames == IntOps \cup FloatOps \cup LogicOps \cup ConvertOps \cup RotationOps \cup PreludeOps

\* An extension that is available answers for its types, constants and operations.
AnswersFor(k) ==
    /\ k = "int" => Answered(custom_hooks, k, Handles("int_type", NoType))
    /\ k \in {"float64", "rotation"} => Answered(custom_hooks, k, Handles("fixed", F64))
    /\ k = "string" => Answered(custom_hooks, k, Handles("fixed", Ptr))
    /\ k = "array" => Answered(custom_hooks, k, Handles("array_type", NoType))
    /\ k \in {"usize", "qubit", "error"} =>
         \E ty : /\ Answered(custom_hooks, k, Handles("fixed", ty))
                 /\ ty # NoType
                 /\ k = "usize" => IsInt(ty)
                 /\ k = "error" => IsStruct(ty) /\ CodeAndMessage(ty)
    /\ k \in ConstFns => \E ty : Answered(load_constant_handlers, k, Handles(k, ty))
    /\ k \in OpNames => k \in DOMAIN extension_op_handlers

\* The extension of each key.
LEMMA ExtensionOf ==
  ASSUME NEW k
  PROVE  /\ k \in {"int", "ConstInt"} \cup IntOps => ExtensionsWith(k) = {AddIntExtensions}
         /\ k \in {"float64", "ConstF64"} \cup FloatOps => ExtensionsWith(k) = {AddFloatExtensions}
         /\ k \in LogicOps => ExtensionsWith(k) = {AddLogicExtensions}
         /\ k \in ConvertOps => ExtensionsWith(k) = {ConversionExtension}
         /\ k \in {"rotation", "ConstRotation"} \cup RotationOps =>
              ExtensionsWith(k) = {RotationExtension}
<1> DEFINE ints == {"int", "ConstInt"} \cup IntOps
           floats == {"float64", "ConstF64"} \cup FloatOps
           rotations == {"rotation", "ConstRotation"} \cup RotationOps
<1>1. /\ k \in ints => k \notin floats /\ k \notin LogicOps /\ k \notin ConvertOps /\ k \notin rotations
      /\ k \in floats => k \notin LogicOps /\ k \notin ConvertOps /\ k \notin rotations
      /\ k \in LogicOps => k \notin ConvertOps /\ k \notin rotations
      /\ k \in ConvertOps => k \notin rotations
  BY DEF IntOps, FloatOps, LogicOps, ConvertOps, RotationOps
<1>2. ExtensionsWith(k) =
        CASE k \in ints -> {AddIntExtensions}
          [] k \in floats -> {AddFloatExtensions}
          [] k \in LogicOps -> {AddLogicExtensions}
          [] k \in ConvertOps -> {ConversionExtension}
          [] k \in rotations -> {RotationExtension}
          [] OTHER -> Preludes
  BY DEF ExtensionsWith
<1> HIDE DEF ints, floats, rotations
<1>3. /\ k \in ints => ExtensionsWith(k) = {AddIntExtensions}
      /\ k \in floats => ExtensionsWith(k) = {AddFloatExtensions}
      /\ k \in LogicOps => ExtensionsWith(k) = {AddLogicExtensions}
      /\ k \in ConvertOps => ExtensionsWith(k) = {ConversionExtension}
      /\ k \in rotations => ExtensionsWith(k) = {RotationExtension}
  BY <1>1, <1>2
<1> QED BY <1>3 DEF ints, floats, rotations

\* No operation has the name of a type or a constant.
LEMMA OpsOnly ==
  \A k \in OpNames :
    /\ k \notin {"usize", "qubit", "string", "error", "int", "float64", "rotation", "array"}
    /\ k \notin ConstFns
BY DEF OpNames, PreludeOps, TupleOps, ArrayOpNames, IntOps, FloatOps, LogicOps, ConvertOps,
       RotationOps, ConstFns

LEMMA AvailableAnswers ==
  ASSUME Tables3, NEW k, Available(k)
  PROVE  AnswersFor(k)
<1>1. PICK i \in DOMAIN calls :
        (\E ext \in ExtensionsWith(k) : EndsAt(calls, i, ext)) /\ Latest(k, i)
  BY DEF Available, Latest
<1>2. PICK ext \in ExtensionsWith(k) : EndsAt(calls, i, ext)
  BY <1>1
<1>3. IsChain(ext) => \A h :
        /\ Files(ext, "types", k, h) => Answered(custom_hooks, k, h)
        /\ Files(ext, "consts", k, h) => Answered(load_constant_handlers, k, h)
        /\ Files(ext, "ops", k, h) => Answered(extension_op_handlers, k, h)
  BY <1>1, <1>2, Filing
<1>4. \A h : Answered(extension_op_handlers, k, h) => k \in DOMAIN extension_op_handlers
  BY DEF Answered
<1>5. CASE k \in {"int", "ConstInt"} \cup IntOps
  <2>1. ext = AddIntExtensions
    BY <1>5, ExtensionOf
  <2>2. /\ IsChain(ext)
        /\ Files(ext, "types", "int", Handles("int_type", NoType))
        /\ Files(ext, "consts", "ConstInt", Handles("ConstInt", NoType))
        /\ \A op \in IntOps : Files(ext, "ops", op, Handles("int", NoType))
    BY <2>1, IntFiles
  <2>3. /\ k = "int" => Answered(custom_hooks, k, Handles("int_type", NoType))
        /\ k = "ConstInt" => Answered(load_constant_handlers, k, Handles(k, NoType))
        /\ k \in IntOps => k \in DOMAIN extension_op_handlers
    BY <1>3, <1>4, <2>2
  <2>4. IntOps \subseteq OpNames
    BY DEF OpNames
  <2> QED BY <1>5, <2>3, <2>4, OpsOnly DEF AnswersFor, ConstFns
<1>6. CASE k \in {"float64", "ConstF64"} \cup FloatOps
  <2>1. ext = AddFloatExtensions
    BY <1>6, ExtensionOf
  <2>2. /\ IsChain(ext)
        /\ Files(ext, "types", "float64", Handles("fixed", F64))
        /\ Files(ext, "consts", "ConstF64", Handles("ConstF64", NoType))
        /\ \A op \in FloatOps : Files(ext, "ops", op, Handles("float", NoType))
    BY <2>1, FloatFiles
  <2>3. /\ k = "float64" => Answered(custom_hooks, k, Handles("fixed", F64))
        /\ k = "ConstF64" => Answered(load_constant_handlers, k, Handles(k, NoType))
        /\ k \in FloatOps => k \in DOMAIN extension_op_handlers
    BY <1>3, <1>4, <2>2
  <2>4. FloatOps \subseteq OpNames
    BY DEF OpNames
  <2> QED BY <1>6, <2>3, <2>4, OpsOnly DEF AnswersFor, ConstFns
<1>7. CASE k \in LogicOps
  <2>1. ext = AddLogicExtensions
    BY <1>7, ExtensionOf
  <2>2. IsChain(ext) /\ \A op \in LogicOps : Files(ext, "ops", op, Handles("logic", NoType))
    BY <2>1, LogicFiles
  <2> QED BY <1>3, <1>4, <1>7, <2>2 DEF AnswersFor, LogicOps, ConstFns
<1>8. CASE k \in ConvertOps
  <2>1. ext = ConversionExtension
    BY <1>8, ExtensionOf
  <2>2. IsChain(ext) /\ \A op \in ConvertOps : Files(ext, "ops", op, Handles("conversion", NoType))
    BY <2>1, ConversionFiles
  <2> QED BY <1>3, <1>4, <1>8, <2>2 DEF AnswersFor, ConvertOps, ConstFns
<1>9. CASE k \in {"rotation", "ConstRotation"} \cup RotationOps
  <2>1. ext = RotationExtension
    BY <1>9, ExtensionOf
  <2>2. /\ IsChain(ext)
        /\ Files(ext, "types", "rotation", Handles("fixed", F64))
        /\ Files(ext, "consts", "ConstRotation", Handles("ConstRotation", NoType))
        /\ \A op \in RotationOps : Files(ext, "ops", op, Handles("rotation", NoType))
    BY <2>1, RotationFiles
  <2>3. /\ k = "rotation" => Answered(custom_hooks, k, Handles("fixed", F64))
        /\ k = "ConstRotation" => Answered(load_constant_handlers, k, Handles(k, NoType))
        /\ k \in RotationOps => k \in DOMAIN extension_op_handlers
    BY <1>3, <1>4, <2>2
  <2>4. RotationOps \subseteq OpNames
    BY DEF OpNames
  <2> QED BY <1>9, <2>3, <2>4, OpsOnly DEF AnswersFor, ConstFns
<1>10. CASE /\ k \notin {"int", "ConstInt", "float64", "ConstF64", "rotation", "ConstRotation"}
            /\ k \notin IntOps \cup FloatOps \cup LogicOps \cup ConvertOps \cup RotationOps
  <2>1. ext \in Preludes
    BY <1>10 DEF ExtensionsWith
  <2>2. PICK usize, qubit, error :
          ext = Prelude(usize, qubit, error) /\ PreludeTypes(usize, qubit, error)
    BY <2>1, PreludesAre
  <2>3. /\ k = "qubit" => Answered(custom_hooks, k, Handles("fixed", qubit))
        /\ k = "usize" => Answered(custom_hooks, k, Handles("fixed", usize))
        /\ k = "string" => Answered(custom_hooks, k, Handles("fixed", Ptr))
        /\ k = "error" => Answered(custom_hooks, k, Handles("fixed", error))
        /\ k = "array" => Answered(custom_hooks, k, Handles("array_type", NoType))
        /\ k \in {"ConstUsize", "ConstExternalSymbol", "ConstString"} =>
             Answered(load_constant_handlers, k, Handles(k, NoType))
        /\ k = "ConstError" => Answered(load_constant_handlers, k, Handles(k, error))
        /\ k \in PreludeOps => k \in DOMAIN extension_op_handlers
    BY <1>1, <1>2, <2>2, PreludeAnswers
  <2>4. /\ usize # NoType /\ qubit # NoType /\ error # NoType /\ IsInt(usize)
        /\ IsStruct(error) /\ CodeAndMessage(error)
    BY <2>2 DEF PreludeTypes, IsInt, IsStruct, NoType
  <2>5. k \in {"usize", "qubit", "error"} =>
         \E ty : /\ Answered(custom_hooks, k, Handles("fixed", ty))
                 /\ ty # NoType
                 /\ k = "usize" => IsInt(ty)
                 /\ k = "error" => IsStruct(ty) /\ CodeAndMessage(ty)
    BY <2>3, <2>4
  <2>6. k \in ConstFns => \E ty : Answered(load_constant_handlers, k, Handles(k, ty))
    BY <1>10, <2>3 DEF ConstFns
  <2>7. k \in OpNames => k \in DOMAIN extension_op_handlers
    BY <1>10, <2>3 DEF OpNames
  <2> QED BY <1>10, <2>3, <2>5, <2>6, <2>7 DEF AnswersFor
<1> QED BY <1>5, <1>6, <1>7, <1>8, <1>9, <1>10

\* A handler of errors has captured the type that errors have.
LEMMA ErrorsAgree ==
  ASSUME Tables3, NEW k \in {"ConstError", "panic"}, Available("error"), Available(k)
  PROVE  \E ty : /\ Answered(custom_hooks, "error", Handles("fixed", ty))
                 /\ k = "ConstError" => Answered(load_constant_handlers, k, Handles(k, ty))
                 /\ k = "panic" => Answered(extension_op_handlers, k, Handles(k, ty))
<1>1. ExtensionsWith("error") = Preludes /\ ExtensionsWith(k) = Preludes
  BY DEF ExtensionsWith, IntOps, FloatOps, LogicOps, ConvertOps, RotationOps
<1>2. PICK i1 \in DOMAIN calls :
        (\E ext \in Preludes : EndsAt(calls, i1, ext)) /\ Latest("error", i1)
  BY <1>1 DEF Available, Latest
<1>3. PICK i2 \in DOMAIN calls :
        (\E ext \in Preludes : EndsAt(calls, i2, ext)) /\ Latest(k, i2)
  BY <1>1 DEF Available, Latest
<1>4. PICK usize1, qubit1, error1 : EndsAt(calls, i1, Prelude(usize1, qubit1, error1))
  BY <1>2, PreludesAre
<1>5. PICK usize2, qubit2, error2 : EndsAt(calls, i2, Prelude(usize2, qubit2, error2))
  BY <1>3, PreludesAre
<1>6. error1 = error2
  BY <1>2, <1>3, <1>4, <1>5, SamePrelude
<1>7. Answered(custom_hooks, "error", Handles("fixed", error1))
  BY <1>2, <1>4, PreludeAnswers
<1>8. /\ k = "ConstError" => Answered(load_constant_handlers, k, Handles(k, error2))
      /\ k = "panic" => Answered(extension_op_handlers, k, Handles(k, error2))
  BY <1>3, <1>5, PreludeAnswers
<1> QED BY <1>6, <1>7, <1>8

-----------------------------------------------------------------------------
(* Which types an equipped registry maps.                                  *)

\* The extensions of the types t consists of are available.
PartsAvailable(t) ==
    \A u \in PartsOf[t] :
      /\ u.is = "custom" => Available(u.key)
      /\ u.is = "array" => Available("array")

\* A type is mapped unless one of those it consists of is not.
MapsAsExpected(t) == LlvmType[t] = NoType <=> \E u \in PartsOf[t] : Unmapped(u)

LEMMA Structures ==
  ASSUME NEW rows, NEW ins, NEW outs, NEW elem, NEW n
  PROVE  /\ SumStruct(rows) # NoType /\ FuncPtr(ins, outs) # NoType
         /\ ArrayOf(elem, n) # NoType /\ F64 # NoType /\ Ptr # NoType
BY DEF SumStruct, Struct, FuncPtr, ArrayOf, F64, Ptr, NoType

LEMMA IntsTyped ==
  ASSUME NEW w
  PROVE  /\ IntTypeOf(w) = NoType <=> w \notin 0 .. 6
         /\ w \in 0 .. 6 => IsInt(IntTypeOf(w))
<1>1. w \in 0 .. 6 => w \in 0 .. 3 \/ w = 4 \/ w = 5 \/ w = 6
  OBVIOUS
<1>2. \A n : IsInt(LlvmInt(n)) /\ LlvmInt(n) # NoType
  BY DEF IsInt, LlvmInt, NoType
<1>3. w \notin 0 .. 6 => w \notin 0 .. 3 /\ w # 4 /\ w # 5 /\ w # 6
  OBVIOUS
<1> QED BY <1>1, <1>2, <1>3 DEF IntTypeOf

\* A part's parts are parts.
LEMMA PartsWithin ==
  ASSUME NEW t \in HugrTypes
  PROVE  /\ t \in PartsOf[t]
         /\ \A u \in Within(t) : u \in HugrTypes /\ PartsOf[u] \subseteq PartsOf[t]
         /\ \A v \in PartsOf[t] : v = t \/ \E u \in Within(t) : v \in PartsOf[u]
BY PartsAre, TypesAssumption DEF PartsFrom

LEMMA CustomMapped ==
  ASSUME Tables3, NEW t \in HugrTypes, t.is = "custom", Available(t.key)
  PROVE  /\ LlvmType[t] = NoType <=> Unmapped(t)
         /\ t.key = "int" => LlvmType[t] = IntTypeOf(t.width)
         /\ t.key \in {"float64", "rotation"} => LlvmType[t] = F64
         /\ t.key = "string" => LlvmType[t] = Ptr
         /\ t.key = "usize" => IsInt(LlvmType[t])
         /\ t.key = "error" => IsStruct(LlvmType[t]) /\ CodeAndMessage(LlvmType[t])
         /\ t.key # "int" => Answered(custom_hooks, t.key, Handles("fixed", LlvmType[t]))
<1>1. AnswersFor(t.key)
  BY AvailableAnswers
<1>2. t.key \in {"usize", "qubit", "string", "error", "int", "float64", "rotation"}
  BY NamesAssumption
<1>3. LlvmType[t] = IF t.key \in DOMAIN custom_hooks
                    THEN IF custom_hooks[t.key].fn = "int_type" THEN IntTypeOf(t.width)
                         ELSE custom_hooks[t.key].ty
                    ELSE NoType
  BY TypeOf DEF MapType
<1>4. ASSUME NEW ty, Answered(custom_hooks, t.key, Handles("fixed", ty)) PROVE LlvmType[t] = ty
  BY <1>3, <1>4 DEF Answered, Handles
<1>5. CASE t.key = "int"
  <2>1. LlvmType[t] = IntTypeOf(t.width)
    BY <1>1, <1>3, <1>5 DEF AnswersFor, Answered, Handles
  <2>2. Unmapped(t) <=> t.width \notin 0 .. 6
    BY <1>5 DEF Unmapped, IsIntType
  <2> QED BY <1>5, <2>1, <2>2, IntsTyped
<1>6. CASE t.key # "int"
  <2>1. ~Unmapped(t)
    BY <1>6 DEF Unmapped, IsIntType
  <2>2. CASE t.key \in {"float64", "rotation", "string"}
    <3>1. \E ty \in {F64, Ptr} :
            /\ Answered(custom_hooks, t.key, Handles("fixed", ty))
            /\ t.key \in {"float64", "rotation"} => ty = F64
            /\ t.key = "string" => ty = Ptr
      BY <1>1, <2>2 DEF AnswersFor
    <3> QED BY <1>4, <2>1, <2>2, <3>1, Structures
  <2>3. CASE t.key \in {"usize", "qubit", "error"}
    <3>1. \E ty : /\ Answered(custom_hooks, t.key, Handles("fixed", ty))
                  /\ ty # NoType
                  /\ t.key = "usize" => IsInt(ty)
                  /\ t.key = "error" => IsStruct(ty) /\ CodeAndMessage(ty)
      BY <1>1, <2>3 DEF AnswersFor
    <3> QED BY <1>4, <2>1, <2>3, <3>1
  <2> QED BY <1>2, <1>6, <2>2, <2>3
<1> QED BY <1>5, <1>6

LEMMA ArrayMapped ==
  ASSUME Tables3, NEW t \in HugrTypes, t.is = "array", Available("array")
  PROVE  /\ LlvmType[t] = NoType <=> LlvmType[t.of] = NoType
         /\ LlvmType[t] # NoType => LlvmType[t] = ArrayOf(LlvmType[t.of], t.len)
<1>1. "array" \in DOMAIN custom_hooks /\ custom_hooks["array"].fn = "array_type"
  BY AvailableAnswers DEF AnswersFor, Answered, Handles
<1>2. LlvmType[t] = IF LlvmType[t.of] = NoType THEN NoType ELSE ArrayOf(LlvmType[t.of], t.len)
  BY <1>1, TypeOf DEF MapType
<1> QED BY <1>2, Structures

LEMMA SumMapped ==
  ASSUME NEW t \in HugrTypes, t.is = "sum"
  PROVE  LlvmType[t] = NoType <=> \E u \in Within(t) : LlvmType[u] = NoType
<1> DEFINE rows == [i \in DOMAIN t.rows |-> [j \in DOMAIN t.rows[i] |-> LlvmType[t.rows[i][j]]]]
<1>1. LlvmType[t] = (IF \A i \in DOMAIN rows : AllTyped(rows[i]) THEN SumStruct(rows) ELSE NoType)
  BY TypeOf DEF MapType
<1>2. \A u : u \in Within(t) <=> \E i \in DOMAIN t.rows : \E j \in DOMAIN t.rows[i] : u = t.rows[i][j]
  BY DEF Within, Rows
<1>3. DOMAIN rows = DOMAIN t.rows
  OBVIOUS
<1>4. \A i \in DOMAIN t.rows :
        AllTyped(rows[i]) <=> \A j \in DOMAIN t.rows[i] : LlvmType[t.rows[i][j]] # NoType
  BY DEF AllTyped
<1> HIDE DEF rows
<1>5. (\A i \in DOMAIN rows : AllTyped(rows[i])) <=> \A u \in Within(t) : LlvmType[u] # NoType
  BY <1>2, <1>3, <1>4
<1> QED BY <1>1, <1>5, Structures

LEMMA FuncMapped ==
  ASSUME NEW t \in HugrTypes, t.is = "func"
  PROVE  LlvmType[t] = NoType <=> \E u \in Within(t) : LlvmType[u] = NoType
<1> DEFINE Map(ts) == [i \in DOMAIN ts |-> LlvmType[ts[i]]]
<1>1. LlvmType[t] = (IF AllTyped(Map(t.ins)) /\ AllTyped(Map(t.outs))
                     THEN FuncPtr(Map(t.ins), Map(t.outs)) ELSE NoType)
  BY TypeOf DEF MapType
<1>2. \A u : u \in Within(t) <=> \/ \E i \in DOMAIN t.ins : u = t.ins[i]
                                \/ \E i \in DOMAIN t.outs : u = t.outs[i]
  BY DEF Within
<1>3. \A ts : AllTyped(Map(ts)) <=> \A i \in DOMAIN ts : LlvmType[ts[i]] # NoType
  BY DEF AllTyped
<1> HIDE DEF Map
<1>4. AllTyped(Map(t.ins)) /\ AllTyped(Map(t.outs)) <=> \A u \in Within(t) : LlvmType[u] # NoType
  BY <1>2, <1>3
<1> QED BY <1>1, <1>4, Structures

\* A type is mapped by the types it consists of, however deep they are nested.
LEMMA AllMapped ==
  ASSUME Tables3, NEW t0 \in HugrTypes, PartsAvailable(t0)
  PROVE  MapsAsExpected(t0)
<1> DEFINE Bad == {t \in HugrTypes : PartsAvailable(t) /\ ~MapsAsExpected(t)}
           S == {Depth[t] : t \in Bad}
<1> SUFFICES ASSUME S # {} PROVE FALSE
  OBVIOUS
<1>1. S \subseteq Nat
  BY TypesAssumption
<1>2. PICK d \in S : \A k \in S : d <= k
  BY <1>1, LeastNumber
<1>3. PICK t \in HugrTypes : Depth[t] = d /\ PartsAvailable(t) /\ ~MapsAsExpected(t)
  OBVIOUS
<1>4. ASSUME NEW u \in Within(t) PROVE MapsAsExpected(u) /\ u \in HugrTypes
  <2>1. u \in HugrTypes /\ Depth[u] < d /\ Depth[u] \in Nat /\ d \in Nat
    BY <1>1, <1>3, TypesAssumption
  <2>2. PartsAvailable(u)
    BY <1>3, PartsWithin DEF PartsAvailable
  <2>3. Depth[u] \notin S
    BY <1>2, <2>1
  <2> QED BY <2>1, <2>2, <2>3
<1>5. \A v \in PartsOf[t] : v = t \/ \E u \in Within(t) : v \in PartsOf[u]
  BY PartsWithin
<1>6. t \in PartsOf[t] /\ \A u \in Within(t) : PartsOf[u] \subseteq PartsOf[t]
  BY PartsWithin
<1>7. /\ t.is = "custom" => Available(t.key)
      /\ t.is = "array" => Available("array")
  BY <1>3, <1>6 DEF PartsAvailable
<1>8. t.is \in {"array", "sum", "func"} =>
        (LlvmType[t] = NoType <=> \E u \in Within(t) : LlvmType[u] = NoType)
  <2>1. t.is = "array" => Within(t) = {t.of}
    BY DEF Within
  <2> QED BY <1>7, <2>1, ArrayMapped, SumMapped, FuncMapped
<1>9. CASE t.is \in {"array", "sum", "func"}
  <2>1. ~Unmapped(t)
    BY <1>9 DEF Unmapped, IsIntType
  <2>2. (\E v \in PartsOf[t] : Unmapped(v)) <=> \E u \in Within(t) : \E v \in PartsOf[u] : Unmapped(v)
    BY <1>5, <1>6, <2>1
  <2>3. \A u \in Within(t) : LlvmType[u] = NoType <=> \E v \in PartsOf[u] : Unmapped(v)
    BY <1>4 DEF MapsAsExpected
  <2> QED BY <1>3, <1>8, <1>9, <2>2, <2>3 DEF MapsAsExpected
<1>10. CASE t.is \notin {"array", "sum", "func"}
  <2>1. Within(t) = {}
    BY <1>10 DEF Within
  <2>2. (\E v \in PartsOf[t] : Unmapped(v)) <=> Unmapped(t)
    BY <1>5, <1>6, <2>1
  <2>3. LlvmType[t] = NoType <=> Unmapped(t)
    <3>1. CASE t.is = "custom"
      BY <1>7, <3>1, CustomMapped
    <3>2. CASE t.is # "custom"
      <4>1. LlvmType[t] = NoType
        BY <1>10, <3>2, TypeOf DEF MapType
      <4> QED BY <1>10, <3>2, <4>1 DEF Unmapped
    <3> QED BY <3>1, <3>2
  <2> QED BY <1>3, <2>2, <2>3 DEF MapsAsExpected
<1> QED BY <1>9, <1>10

-----------------------------------------------------------------------------
(* What an equipped registry lowers.                                       *)

\* An operation whose types are mapped, by the extensions that bring them.
Ready(r) ==
    /\ Tables3 /\ LoadsByRepository
    /\ Typed(r)
    /\ \A i \in 1 .. Len(r.ins) : PartsAvailable(r.ins[i])
    /\ \A i \in 1 .. Len(r.outs) : PartsAvailable(r.outs[i])

\* An operation an equipped registry refuses whatever its types are.
Declined(r) ==
    \/ r.key \in {"ishl", "fabs", "Not"}
    \/ r.key \in {"itousize", "ifromusize"} /\ LlvmType[Custom("usize")] # LlvmInt(64)
    \/ /\ r.key \in {"panic", "from_halfturns_unchecked"}
       /\ LlvmType[Custom("error")] # DefaultError

Lowered(r, end) == end.is = IF Declined(r) THEN "err" ELSE "stored"

LEMMA PartAvailable ==
  ASSUME NEW t \in HugrTypes, PartsAvailable(t)
  PROVE  /\ t.is = "custom" => Available(t.key)
         /\ t.is = "array" => Available("array")
         /\ \A u \in Within(t) : PartsAvailable(u)
BY PartsWithin DEF PartsAvailable

\* A type of the inputs or outputs.
LEMMA ReadyType ==
  ASSUME NEW r, Ready(r), NEW t,
         \/ \E i \in 1 .. Len(r.ins) : t = r.ins[i]
         \/ \E i \in 1 .. Len(r.outs) : t = r.outs[i]
  PROVE  t \in HugrTypes /\ LlvmType[t] # NoType /\ PartsAvailable(t)
BY TypedRows DEF Ready

LEMMA ReadyRow1 ==
  ASSUME NEW r, Ready(r), NEW t
  PROVE  /\ r.ins = <<t>> => /\ TypesOf(r.ins) = <<LlvmType[t]>>
                             /\ t \in HugrTypes /\ LlvmType[t] # NoType /\ PartsAvailable(t)
         /\ r.outs = <<t>> => /\ TypesOf(r.outs) = <<LlvmType[t]>>
                              /\ t \in HugrTypes /\ LlvmType[t] # NoType /\ PartsAvailable(t)
<1>1. Len(<<t>>) = 1 /\ <<t>>[1] = t /\ 1 \in 1 .. 1
  OBVIOUS
<1> QED BY <1>1, ReadyType, Row1

LEMMA ReadyRow2 ==
  ASSUME NEW r, Ready(r), NEW t, NEW u, r.ins = <<t, u>>
  PROVE  /\ TypesOf(r.ins) = <<LlvmType[t], LlvmType[u]>>
         /\ t \in HugrTypes /\ LlvmType[t] # NoType /\ PartsAvailable(t)
         /\ u \in HugrTypes /\ LlvmType[u] # NoType /\ PartsAvailable(u)
<1>1. Len(<<t, u>>) = 2 /\ <<t, u>>[1] = t /\ <<t, u>>[2] = u /\ 1 \in 1 .. 2 /\ 2 \in 1 .. 2
  OBVIOUS
<1> QED BY <1>1, ReadyType, Row2

\* The types some operations are about.
LEMMA ReadyCustom ==
  ASSUME Tables3, NEW t \in HugrTypes, t.is = "custom", LlvmType[t] # NoType, PartsAvailable(t)
  PROVE  /\ t.key = "int" => IsInt(LlvmType[t]) /\ LlvmType[t] = IntTypeOf(t.width)
         /\ t.key \in {"float64", "rotation"} => LlvmType[t] = F64
         /\ t.key = "string" => LlvmType[t] = Ptr
         /\ t.key = "usize" => IsInt(LlvmType[t])
<1>1. Available(t.key)
  BY PartAvailable
<1>2. t.key = "int" => LlvmType[t] = IntTypeOf(t.width)
  BY <1>1, CustomMapped
<1>3. t.key = "int" => IsInt(LlvmType[t])
  BY <1>2, IntsTyped
<1> QED BY <1>1, <1>2, <1>3, CustomMapped

LEMMA CustomIs ==
  ASSUME NEW key
  PROVE  Custom(key).is = "custom" /\ Custom(key).key = key /\ Custom(key).width = 0
BY DEF Custom

LEMMA ReadyFloats ==
  ASSUME Tables3, NEW t \in {Float64, Rotation}, t \in HugrTypes, LlvmType[t] # NoType,
         PartsAvailable(t)
  PROVE  LlvmType[t] = F64
<1>1. t.is = "custom" /\ t.key \in {"float64", "rotation"}
  BY CustomIs DEF Float64, Rotation
<1> QED BY <1>1, ReadyCustom

LEMMA EndsAre ==
  ASSUME NEW types
  PROVE  /\ Checked(types, Stores(types)) = Stores(types)
         /\ Unchecked(types, Stores(types)) = Stores(types)
         /\ \A outs : types # outs => Checked(outs, Stores(types)) = Err
         /\ Stores(types).is = "stored" /\ Err.is = "err" /\ Panic.is = "panic"
BY DEF Checked, Unchecked, Stores, Err, Panic

LEMMA TupleLowers ==
  ASSUME NEW r, Ready(r), r.key \in TupleOps
  PROVE  EmitTuple(r.key, TypesOf(r.ins), TypesOf(r.outs)).is = "stored"
<1> DEFINE ins == TypesOf(r.ins)
           outs == TypesOf(r.outs)
<1> SUFFICES EmitTuple(r.key, ins, outs).is = "stored"
  OBVIOUS
<1>1. Typed(r)
  BY DEF Ready
<1>2. EmitTuple(r.key, ins, outs).is # "mistyped"
  BY <1>1, TupleTyped
<1>3. \A types : Unchecked(outs, Stores(types)).is \in {"stored", "mistyped"}
  BY EndsOf DEF Unchecked
<1>4. CASE r.key = "MakeTuple"
  <2> HIDE DEF ins, outs
  <2> QED BY <1>2, <1>3, <1>4 DEF EmitTuple
<1>5. CASE r.key = "UnpackTuple"
  <2> DEFINE rows == <<r.outs>>
  <2>1. r.ins = <<SumOf(rows)>>
    BY <1>1, <1>5 DEF Typed, Signature, ArrayOpNames, LogicOps
  <2>2. SumOf(rows) \in HugrTypes /\ LlvmType[SumOf(rows)] # NoType
    BY <1>1, <2>1, TypedOne
  <2>3. LlvmType[SumOf(rows)] = SumStruct([i \in DOMAIN rows |-> TypesOf(rows[i])])
    <3> HIDE DEF rows
    <3> QED BY <2>2, SumType
  <2>4. [i \in DOMAIN rows |-> TypesOf(rows[i])] = <<TypesOf(r.outs)>>
    OBVIOUS
  <2>5. TypesOf(r.ins) = <<SumStruct(<<TypesOf(r.outs)>>)>>
    BY <2>1, <2>3, <2>4, Row1
  <2>6. ins[1] = SumStruct(<<outs>>)
    BY <2>5
  <2> HIDE DEF ins, outs
  <2> QED BY <1>2, <1>3, <1>5, <2>6 DEF EmitTuple
<1> QED BY <1>4, <1>5 DEF TupleOps

LEMMA ArrayLowers ==
  ASSUME NEW r, Ready(r), r.key \in ArrayOpNames, ArrayHook
  PROVE  EmitArray(r.key, TypesOf(r.ins), TypesOf(r.outs), TypesOf(r.row)).is = "stored"
<1> DEFINE ins == TypesOf(r.ins)
           outs == TypesOf(r.outs)
           row == TypesOf(r.row)
           e == EmitArray(r.key, ins, outs, row)
<1> SUFFICES e.is = "stored"
  OBVIOUS
<1>1. Typed(r)
  BY DEF Ready
<1>2. e.is # "mistyped"
  BY <1>1, ArrayOpTyped
<1>3. \A types, vals : /\ Unchecked(outs, Stores(types)).is \in {"stored", "mistyped"}
                      /\ BuildTag(row, vals, Stores(types)).is \in {"stored", "mistyped"}
                      /\ Stores(types).is = "stored"
  BY EndsOf DEF Unchecked, BuildTag, IllTyped
<1>4. CASE r.key \in {"new_array", "discard_empty"}
  <2> HIDE DEF ins, outs, row
  <2> QED BY <1>2, <1>3, <1>4 DEF EmitArray
<1>5. CASE r.key \in {"get", "set", "swap", "pop_left", "pop_right"}
  <2> DEFINE t == r.ins[1]
  <2>1. r.ins # <<>> /\ t.is = "array"
    BY <1>1, <1>5 DEF Typed, Signature, ArrayOpNames, LogicOps
  <2>2. 1 \in 1 .. Len(r.ins) /\ ins[1] = LlvmType[t]
    BY <1>1, <2>1, RowTypes DEF Typed
  <2>3. t \in HugrTypes /\ LlvmType[t] # NoType
    BY <1>1, <2>2, TypedRows
  <2>4. IsArray(ins[1])
    BY <2>1, <2>2, <2>3, ArrayTyped DEF IsArray, ArrayOf
  <2>5. r.key \in {"get", "set", "swap"} => IsInt(ins[2])
    <3>1. SUFFICES ASSUME r.key \in {"get", "set", "swap"} PROVE IsInt(ins[2])
      OBVIOUS
    <3> DEFINE index == Custom("usize")
    <3>2. \E u : r.ins \in {<<t, index>>, <<t, index, u>>}
      BY <1>1, <3>1 DEF Typed, Signature, ArrayOpNames, LogicOps
    <3>3. 2 \in 1 .. Len(r.ins) /\ r.ins[2] = index
      <4>1. \A a, b, c : /\ Len(<<a, b>>) = 2 /\ <<a, b>>[2] = b
                        /\ Len(<<a, b, c>>) = 3 /\ <<a, b, c>>[2] = b
        OBVIOUS
      <4> HIDE DEF t, index
      <4>2. Len(r.ins) \in {2, 3} /\ r.ins[2] = index
        BY <3>2, <4>1
      <4> QED BY <4>2
    <3>4. index \in HugrTypes /\ LlvmType[index] # NoType /\ PartsAvailable(index)
      BY <3>3, ReadyType
    <3>5. ins[2] = LlvmType[index]
      BY <1>1, <3>3, RowTypes DEF Typed
    <3> QED BY <3>4, <3>5, ReadyCustom, CustomIs DEF Ready
  <2>6. \E vals : e = BuildTag(row, vals, Stores(outs))
    <3> HIDE DEF ins, outs, row
    <3> QED BY <1>5, <2>4, <2>5 DEF EmitArray
  <2> HIDE DEF e, outs, row
  <2> QED BY <1>2, <1>3, <2>6
<1> QED BY <1>4, <1>5 DEF ArrayOpNames

LEMMA BoolLowers ==
  ASSUME NEW r, Ready(r), r.outs = <<Bool>>
  PROVE  TypesOf(r.outs) = <<BoolType>>
BY ReadyRow1, BoolTyped

LEMMA IntLowers ==
  ASSUME NEW r, Ready(r), r.key \in IntOps
  PROVE  Lowered(r, EmitInt(r.key, TypesOf(r.ins), TypesOf(r.outs)))
<1> DEFINE t == r.ins[1]
           ty == LlvmType[t]
<1>1. /\ r.ins = <<t, t>> /\ IsIntType(t)
      /\ r.key \in {"iadd", "ishl"} => r.outs = <<t>>
      /\ r.key = "ieq" => r.outs = <<Bool>>
  BY DEF Ready, Typed, Signature, ArrayOpNames, LogicOps, IntOps
<1> HIDE DEF t
<1>2. TypesOf(r.ins) = <<ty, ty>> /\ IsInt(ty)
  BY <1>1, ReadyRow2, ReadyCustom DEF IsIntType, Ready
<1>3. /\ r.key \in {"iadd", "ishl"} => TypesOf(r.outs) = <<ty>>
      /\ r.key = "ieq" => TypesOf(r.outs) = <<BoolType>>
  BY <1>1, ReadyRow1, BoolLowers
<1>4. Declined(r) <=> r.key = "ishl"
  BY DEF Declined, IntOps
<1> HIDE DEF ty
<1>5. CASE r.key = "iadd"
  <2>1. EmitInt(r.key, TypesOf(r.ins), TypesOf(r.outs)) = Checked(<<ty>>, Stores(<<ty>>))
    BY <1>2, <1>3, <1>5 DEF EmitInt
  <2> QED BY <1>4, <1>5, <2>1, EndsAre DEF Lowered
<1>6. CASE r.key = "ieq"
  <2>1. EmitInt(r.key, TypesOf(r.ins), TypesOf(r.outs)) = Checked(<<BoolType>>, Stores(<<BoolType>>))
    BY <1>2, <1>3, <1>6 DEF EmitInt
  <2> QED BY <1>4, <1>6, <2>1, EndsAre DEF Lowered
<1>7. CASE r.key = "ishl"
  BY <1>4, <1>7, EndsAre DEF Lowered, EmitInt
<1> QED BY <1>5, <1>6, <1>7 DEF IntOps

LEMMA FloatLowers ==
  ASSUME NEW r, Ready(r), r.key \in FloatOps
  PROVE  Lowered(r, EmitFloat(r.key, TypesOf(r.ins), TypesOf(r.outs)))
<1>1. /\ r.ins \in {<<Float64>>, <<Float64, Float64>>}
      /\ r.key # "feq" => r.outs = <<Float64>>
      /\ r.key = "feq" => r.outs = <<Bool>>
  BY DEF Ready, Typed, Signature, ArrayOpNames, LogicOps, FloatOps
<1>2. TypesOf(r.ins) \in {<<F64>>, <<F64, F64>>}
  <2>1. Tables3
    BY DEF Ready
  <2> QED BY <1>1, <2>1, ReadyRow1, ReadyRow2, ReadyFloats
<1>3. /\ r.key # "feq" => TypesOf(r.outs) = <<F64>>
      /\ r.key = "feq" => TypesOf(r.outs) = <<BoolType>>
  <2>1. Tables3
    BY DEF Ready
  <2> QED BY <1>1, <2>1, ReadyRow1, ReadyFloats, BoolLowers
<1>4. Declined(r) <=> r.key = "fabs"
  BY DEF Declined, FloatOps
<1>5. TypesOf(r.ins)[1] = F64 /\ IsFloat(F64)
  BY <1>2 DEF IsFloat, F64
<1>6. CASE r.key \in {"fadd", "fneg"}
  <2>1. EmitFloat(r.key, TypesOf(r.ins), TypesOf(r.outs)) = Checked(<<F64>>, Stores(<<F64>>))
    BY <1>3, <1>5, <1>6 DEF EmitFloat
  <2> QED BY <1>4, <1>6, <2>1, EndsAre DEF Lowered
<1>7. CASE r.key = "feq"
  <2>1. EmitFloat(r.key, TypesOf(r.ins), TypesOf(r.outs)) = Checked(<<BoolType>>, Stores(<<BoolType>>))
    BY <1>3, <1>5, <1>7 DEF EmitFloat
  <2> QED BY <1>4, <1>7, <2>1, EndsAre DEF Lowered
<1>8. CASE r.key = "fabs"
  BY <1>4, <1>8, EndsAre DEF Lowered, EmitFloat
<1> QED BY <1>6, <1>7, <1>8 DEF FloatOps

\* The folds panic on too few inputs, whatever else there is.
LEMMA LogicLowers ==
  ASSUME NEW r, Ready(r), r.key \in LogicOps
  PROVE  LET end == EmitLogic(r.key, TypesOf(r.ins), TypesOf(r.outs))
         IN IF TooFewInputs(r.key, r.ins) THEN end.is = "panic" ELSE Lowered(r, end)
<1> DEFINE ins == TypesOf(r.ins)
           outs == TypesOf(r.outs)
           end == EmitLogic(r.key, ins, outs)
<1>1. r.ins = [i \in DOMAIN r.ins |-> Bool] /\ r.outs = <<Bool>>
  BY DEF Ready, Typed, Signature, ArrayOpNames, LogicOps
<1>2. Bool \in HugrTypes /\ LlvmType[Bool] = BoolType /\ outs = <<BoolType>>
  BY <1>1, ReadyRow1, BoolTyped
<1>3. r.ins \in Seq(HugrTypes)
  BY DEF Ready, Typed
<1>4. /\ Len(ins) = Len(r.ins) /\ DOMAIN ins = DOMAIN r.ins
      /\ ins = [i \in DOMAIN ins |-> BoolType]
  <2>1. ins = [i \in DOMAIN r.ins |-> LlvmType[r.ins[i]]]
    BY DEF TypesOf
  <2>2. \A i \in DOMAIN r.ins : LlvmType[r.ins[i]] = BoolType
    BY <1>1, <1>2
  <2>3. Len(ins) = Len(r.ins) /\ DOMAIN ins = DOMAIN r.ins
    BY <1>3, RowTypes
  <2>4. [i \in DOMAIN r.ins |-> LlvmType[r.ins[i]]] = [i \in DOMAIN r.ins |-> BoolType]
    BY <2>2
  <2> HIDE DEF ins
  <2> QED BY <2>1, <2>3, <2>4
<1>5. TooFewInputs(r.key, ins) <=> TooFewInputs(r.key, r.ins)
  BY <1>4 DEF TooFewInputs
<1>6. Declined(r) <=> r.key = "Not"
  BY DEF Declined, LogicOps
<1> SUFFICES IF TooFewInputs(r.key, r.ins) THEN end.is = "panic" ELSE Lowered(r, end)
  OBVIOUS
<1> HIDE DEF ins, outs
<1>7. CASE r.key = "Not"
  <2>1. end = Err
    BY <1>7 DEF EmitLogic
  <2>2. ~TooFewInputs(r.key, r.ins)
    BY <1>7 DEF TooFewInputs
  <2> QED BY <1>6, <1>7, <2>1, <2>2, EndsAre DEF Lowered
<1>8. CASE r.key # "Not"
  <2>1. end = IF TooFewInputs(r.key, ins) THEN Panic ELSE Unchecked(outs, Stores(<<BoolType>>))
    BY <1>4, <1>8 DEF EmitLogic
  <2> HIDE DEF end
  <2> QED BY <1>2, <1>5, <1>6, <1>8, <2>1, EndsAre DEF Lowered
<1> QED BY <1>7, <1>8

\* The errors that failing operations load.
LEMMA ErrorLoads ==
  ASSUME Tables3, Available("error"), Available("ConstError")
  PROVE  /\ EmitLoadConstant("ConstError", Custom("error")) = Stores(<<LlvmType[Custom("error")]>>)
         /\ \A end : WithError(end) = end
<1> DEFINE e == LlvmType[Custom("error")]
           h == load_constant_handlers["ConstError"]
<1>1. PICK ty : /\ Answered(custom_hooks, "error", Handles("fixed", ty))
                /\ Answered(load_constant_handlers, "ConstError", Handles("ConstError", ty))
  BY ErrorsAgree
<1>2. Custom("error") \in HugrTypes /\ Custom("error").is = "custom" /\ Custom("error").key = "error"
  BY TypesAssumption, CustomIs
<1>3. IsStruct(e) /\ CodeAndMessage(e) /\ Answered(custom_hooks, "error", Handles("fixed", e))
  BY <1>2, CustomMapped
<1>4. e = ty
  BY <1>1, <1>3 DEF Answered, Handles
<1>5. "ConstError" \in DOMAIN load_constant_handlers /\ h.fn = "ConstError" /\ h.ty = e
  BY <1>1, <1>4 DEF Answered, Handles
<1>6. e # NoType /\ e[2] # <<>> /\ IsInt(e[2][1])
  <2>1. Len(<<>>) = 0
    OBVIOUS
  <2> HIDE DEF e
  <2> QED BY <1>3, <2>1 DEF IsStruct, CodeAndMessage, NoType
<1>7. EmitConstError(h.ty) = Stores(<<e>>)
  BY <1>3, <1>5, <1>6 DEF EmitConstError
<1>8. LoadedBy(h, Custom("error")) = Stores(<<e>>)
  BY <1>5, <1>7 DEF LoadedBy
<1>9. EmitLoadConstant("ConstError", Custom("error")) = Stores(<<e>>)
  BY <1>5, <1>8, EndsOf DEF EmitLoadConstant
<1> HIDE DEF e, h
<1>10. EmitLoadConstant("ConstError", Custom("error")).is = "stored"
  BY <1>9, EndsOf
<1>11. \A end : WithError(end) = end
  BY <1>10 DEF WithError
<1> QED BY <1>9, <1>11 DEF e

LEMMA ConversionLowers ==
  ASSUME NEW r, Ready(r), r.key \in ConvertOps,
         r.key = "trunc_u" => Available("error") /\ Available("ConstError")
  PROVE  Lowered(r, EmitConversion(r.key, TypesOf(r.ins), TypesOf(r.outs), TypesOf(r.row)))
<1> DEFINE ins == TypesOf(r.ins)
           outs == TypesOf(r.outs)
           row == TypesOf(r.row)
           e == EmitConversion(r.key, ins, outs, row)
           index == Custom("usize")
<1> SUFFICES Lowered(r, e)
  OBVIOUS
<1>1. Tables3 /\ Typed(r)
  BY DEF Ready
<1>2. IsFloat(F64) /\ \A t : <<t>>[1] = t
  BY DEF IsFloat, F64
<1>3. Declined(r) <=> r.key \in {"itousize", "ifromusize"} /\ LlvmType[index] # LlvmInt(64)
  BY DEF Declined, ConvertOps
<1>4. CASE r.key = "trunc_u"
  <2> DEFINE t == r.row[1]
             rows == <<<<Custom("error")>>, <<t>>>>
  <2>1. r.ins = <<Float64>> /\ r.row = <<t>> /\ IsIntType(t) /\ r.outs = <<SumOf(rows)>>
    BY <1>1, <1>4 DEF Typed, Signature, ArrayOpNames, LogicOps
  <2>2. ins = <<F64>>
    BY <1>1, <2>1, ReadyRow1, ReadyFloats
  <2>3. SumOf(rows) \in HugrTypes /\ LlvmType[SumOf(rows)] # NoType /\ PartsAvailable(SumOf(rows))
    <3> HIDE DEF rows
    <3> QED BY <2>1, ReadyRow1
  <2>4. rows[2] = <<t>> /\ 2 \in DOMAIN rows
    OBVIOUS
  <2>5. SumOf(rows).is = "sum" /\ SumOf(rows).rows = rows
    BY DEF SumOf
  <2> HIDE DEF rows, t
  <2>6. t \in Within(SumOf(rows))
    BY <2>4, <2>5 DEF Within, Rows
  <2>7. t \in HugrTypes /\ PartsAvailable(t)
    BY <2>3, <2>6, PartAvailable, TypesAssumption
  <2>8. row = <<LlvmType[t]>> /\ LlvmType[t] # NoType
    <3>1. AllTyped(TypesOf(rows[2]))
      BY <2>3, <2>4, SumType
    <3> QED BY <2>1, <2>4, <3>1, Row1 DEF AllTyped
  <2>9. IsInt(LlvmType[t])
    BY <1>1, <2>1, <2>7, <2>8, ReadyCustom DEF IsIntType
  <2>10. WithError(Stores(outs)) = Stores(outs)
    BY <1>1, <1>4, ErrorLoads
  <2>11. row[1] = LlvmType[t] /\ ins[1] = F64
    BY <2>2, <2>8
  <2> HIDE DEF ins, outs, row
  <2>12. e = Stores(outs)
    BY <1>2, <1>4, <2>9, <2>10, <2>11 DEF EmitConversion
  <2> HIDE DEF e
  <2> QED BY <1>3, <1>4, <2>12, EndsAre DEF Lowered
<1>5. CASE r.key = "convert_u"
  <2> DEFINE t == r.ins[1]
  <2>1. r.ins = <<t>> /\ IsIntType(t) /\ r.outs = <<Float64>>
    BY <1>1, <1>5 DEF Typed, Signature, ArrayOpNames, LogicOps
  <2> HIDE DEF t
  <2>2. ins = <<LlvmType[t]>> /\ IsInt(LlvmType[t])
    BY <1>1, <2>1, ReadyRow1, ReadyCustom DEF IsIntType
  <2>3. outs = <<F64>>
    BY <1>1, <2>1, ReadyRow1, ReadyFloats
  <2>4. ins[1] = LlvmType[t] /\ outs[1] = F64
    BY <2>2, <2>3
  <2> HIDE DEF ins, outs, row
  <2>5. e = Checked(outs, Stores(outs))
    BY <1>2, <1>5, <2>2, <2>4 DEF EmitConversion
  <2> HIDE DEF e
  <2> QED BY <1>3, <1>5, <2>5, EndsAre DEF Lowered
<1>6. CASE r.key \in {"itousize", "ifromusize"}
  <2> DEFINE t == IntT(6)
  <2>1. \/ r.ins = <<t>> /\ r.outs = <<index>>
        \/ r.ins = <<index>> /\ r.outs = <<t>>
    BY <1>1, <1>6 DEF Typed, Signature, ArrayOpNames, LogicOps
  <2>2. t.is = "custom" /\ t.key = "int" /\ t.width = 6
    BY DEF IntT, Custom
  <2> HIDE DEF t, index
  <2>3. \/ ins = <<LlvmType[t]>> /\ outs = <<LlvmType[index]>>
        \/ ins = <<LlvmType[index]>> /\ outs = <<LlvmType[t]>>
    BY <2>1, ReadyRow1
  <2>4. LlvmType[t] = LlvmInt(64)
    <3>1. LlvmType[t] = IntTypeOf(6)
      BY <1>1, <2>1, <2>2, ReadyRow1, ReadyCustom
    <3> QED BY <3>1 DEF IntTypeOf
  <2>5. outs = ins <=> LlvmType[index] = LlvmInt(64)
    BY <2>3, <2>4
  <2>6. e = Checked(outs, Stores(ins))
    BY <1>6 DEF EmitConversion
  <2> HIDE DEF e, ins, outs
  <2> QED BY <1>3, <1>6, <2>5, <2>6, EndsAre DEF Lowered
<1>7. CASE r.key \in {"itobool", "ifrombool"}
  <2> DEFINE t == IntT(0)
  <2>1. /\ r.key = "itobool" => r.ins = <<t>> /\ r.outs = <<Bool>>
        /\ r.key = "ifrombool" => r.ins = <<Bool>> /\ r.outs = <<t>>
    BY <1>1, <1>7 DEF Typed, Signature, ArrayOpNames, LogicOps
  <2>2. t.is = "custom" /\ t.key = "int"
    BY DEF IntT, Custom
  <2> HIDE DEF t
  <2>3. IsInt(LlvmType[t])
    BY <1>1, <1>7, <2>1, <2>2, ReadyRow1, ReadyCustom
  <2>4. /\ r.key = "itobool" => ins[1] = LlvmType[t] /\ outs = <<BoolType>>
        /\ r.key = "ifrombool" => outs = <<LlvmType[t]>> /\ outs[1] = LlvmType[t]
    BY <1>2, <2>1, ReadyRow1, BoolLowers
  <2> HIDE DEF ins, outs, row
  <2>5. e = Checked(outs, Stores(outs))
    BY <1>7, <2>3, <2>4 DEF EmitConversion
  <2> HIDE DEF e
  <2> QED BY <1>3, <1>7, <2>5, EndsAre DEF Lowered
<1> QED BY <1>4, <1>5, <1>6, <1>7 DEF ConvertOps

LEMMA RotationLowers ==
  ASSUME NEW r, Ready(r), r.key \in RotationOps,
         r.key = "from_halfturns_unchecked" => Available("error") /\ Available("ConstError")
  PROVE  Lowered(r, EmitRotation(r.key, TypesOf(r.ins), TypesOf(r.outs), TypesOf(r.row)))
<1> DEFINE ins == TypesOf(r.ins)
           outs == TypesOf(r.outs)
           row == TypesOf(r.row)
           error == LlvmType[Custom("error")]
           end == IF r.key = "from_halfturns" THEN BuildTag(row, ins, Stores(outs))
                  ELSE Unchecked(outs, Stores(<<ins[1]>>))
           e == EmitRotation(r.key, ins, outs, row)
<1> SUFFICES Lowered(r, e)
  OBVIOUS
<1>1. Tables3 /\ Typed(r)
  BY DEF Ready
<1>2. IsFloat(F64) /\ \A t, u : <<t>>[1] = t /\ <<t, u>>[1] = t
  BY DEF IsFloat, F64
<1>3. Declined(r) <=> r.key = "from_halfturns_unchecked" /\ error # DefaultError
  BY DEF Declined, RotationOps
<1>4. ins[1] = F64
  <2>1. r.ins \in {<<Float64>>, <<Rotation>>, <<Rotation, Rotation>>}
    BY <1>1 DEF Typed, Signature, ArrayOpNames, LogicOps, RotationOps
  <2>2. ins \in {<<F64>>, <<F64, F64>>}
    BY <1>1, <2>1, ReadyRow1, ReadyRow2, ReadyFloats
  <2> HIDE DEF ins
  <2> QED BY <1>2, <2>2
<1>5. end = Stores(outs)
  <2>1. CASE r.key = "from_halfturns"
    <3> DEFINE rows == <<<<>>, <<Rotation>>>>
    <3>1. r.ins = <<Float64>> /\ r.row = <<Rotation>> /\ r.outs = <<SumOf(rows)>>
      BY <1>1, <2>1 DEF Typed, Signature, ArrayOpNames, LogicOps
    <3>2. rows[2] = <<Rotation>> /\ 2 \in DOMAIN rows
      OBVIOUS
    <3>3. SumOf(rows).is = "sum" /\ SumOf(rows).rows = rows
      BY DEF SumOf
    <3> HIDE DEF rows
    <3>4. SumOf(rows) \in HugrTypes /\ LlvmType[SumOf(rows)] # NoType /\ PartsAvailable(SumOf(rows))
      BY <3>1, ReadyRow1
    <3>5. Rotation \in Within(SumOf(rows))
      BY <3>2, <3>3, <1>2 DEF Within, Rows
    <3>6. Rotation \in HugrTypes /\ PartsAvailable(Rotation)
      BY <3>4, <3>5, PartAvailable, TypesAssumption
    <3>7. row = <<LlvmType[Rotation]>> /\ LlvmType[Rotation] # NoType
      <4>1. AllTyped(TypesOf(rows[2]))
        BY <3>2, <3>4, SumType
      <4> QED BY <3>1, <3>2, <4>1, Row1 DEF AllTyped
    <3>8. row = <<F64>>
      BY <1>1, <3>6, <3>7, ReadyFloats
    <3>9. ins = <<F64>>
      BY <1>1, <3>1, ReadyRow1, ReadyFloats
    <3> QED BY <2>1, <3>8, <3>9 DEF BuildTag
  <2>2. CASE r.key # "from_halfturns"
    <3>1. r.outs \in {<<Float64>>, <<Rotation>>}
      BY <1>1, <2>2 DEF Typed, Signature, ArrayOpNames, LogicOps, RotationOps
    <3>2. outs = <<F64>>
      BY <1>1, <3>1, ReadyRow1, ReadyFloats
    <3> QED BY <1>4, <2>2, <3>2, EndsAre
  <2> QED BY <2>1, <2>2
<1> HIDE DEF ins, outs, row, error
<1>6. CASE r.key # "from_halfturns_unchecked"
  <2>1. e = end
    BY <1>2, <1>4, <1>6 DEF EmitRotation, RotationOps
  <2> HIDE DEF e, end
  <2> QED BY <1>3, <1>5, <1>6, <2>1, EndsAre DEF Lowered
<1>7. CASE r.key = "from_halfturns_unchecked"
  <2>1. e = WithError(EmitPanic(error, end))
    BY <1>2, <1>4, <1>7 DEF EmitRotation, error
  <2> HIDE DEF e, end
  <2>2. e = EmitPanic(error, Stores(outs))
    BY <1>1, <1>5, <1>7, <2>1, ErrorLoads
  <2>3. e = IF error = DefaultError THEN Stores(outs) ELSE Err
    BY <2>2 DEF EmitPanic, DefaultError
  <2> QED BY <1>3, <1>7, <2>3, EndsAre DEF Lowered
<1> QED BY <1>6, <1>7

LEMMA PrintLowers ==
  ASSUME NEW r, Ready(r), r.key = "print"
  PROVE  Lowered(r, Unchecked(TypesOf(r.outs), Stores(<<>>)))
<1>1. r.outs = <<>>
  BY DEF Ready, Typed, Signature, ArrayOpNames, LogicOps
<1>2. Unchecked(TypesOf(r.outs), Stores(<<>>)) = Stores(<<>>)
  BY <1>1, Row0, EndsAre
<1> QED BY <1>2, EndsAre DEF Lowered, Declined

LEMMA PanicLowers ==
  ASSUME NEW r, Ready(r), r.key = "panic", Available("error"), Available("panic")
  PROVE  LET ins == TypesOf(r.ins)
             h == extension_op_handlers["panic"]
         IN Lowered(r, IF ins[1] # h.ty THEN Err ELSE EmitPanic(ins[1], Stores(TypesOf(r.outs))))
<1> DEFINE ins == TypesOf(r.ins)
           outs == TypesOf(r.outs)
           h == extension_op_handlers["panic"]
           error == LlvmType[Custom("error")]
           e == IF ins[1] # h.ty THEN Err ELSE EmitPanic(ins[1], Stores(outs))
<1> SUFFICES Lowered(r, e)
  OBVIOUS
<1>1. Tables3 /\ Typed(r)
  BY DEF Ready
<1>2. r.ins # <<>> /\ r.ins[1] = Custom("error")
  BY <1>1 DEF Typed, Signature, ArrayOpNames, LogicOps
<1>3. ins[1] = error
  <2>1. 1 \in 1 .. Len(r.ins)
    BY <1>1, <1>2 DEF Typed
  <2> QED BY <1>1, <1>2, <2>1, RowTypes DEF Typed
<1>4. PICK ty : /\ Answered(custom_hooks, "error", Handles("fixed", ty))
                /\ Answered(extension_op_handlers, "panic", Handles("panic", ty))
  BY <1>1, ErrorsAgree
<1>5. Custom("error") \in HugrTypes /\ Custom("error").is = "custom" /\ Custom("error").key = "error"
  BY TypesAssumption, CustomIs
<1>6. Answered(custom_hooks, "error", Handles("fixed", error))
  BY <1>1, <1>5, CustomMapped
<1>7. h.ty = error
  BY <1>4, <1>6 DEF Answered, Handles
<1>8. Declined(r) <=> error # DefaultError
  BY DEF Declined
<1> HIDE DEF ins, outs, h, error
<1>9. e = IF error = DefaultError THEN Stores(outs) ELSE Err
  BY <1>3, <1>7 DEF EmitPanic, DefaultError
<1> HIDE DEF e
<1> QED BY <1>8, <1>9, EndsAre DEF Lowered

LEMMA Joined ==
  ASSUME NEW S, NEW a \in Seq(S), NEW b \in Seq(S)
  PROVE  /\ Len(a) \in Nat /\ Len(b) \in Nat /\ DOMAIN (a \o b) = 1 .. Len(a) + Len(b)
         /\ \A i \in 1 .. Len(a) : (a \o b)[i] = a[i]
         /\ \A i \in 1 .. Len(b) : (a \o b)[Len(a) + i] = b[i]
<1>1. Len(a) \in Nat /\ Len(b) \in Nat /\ DOMAIN (a \o b) = 1 .. Len(a) + Len(b)
  OBVIOUS
<1>2. \A i \in 1 .. Len(a) : (a \o b)[i] = a[i]
  OBVIOUS
<1>3. \A i \in 1 .. Len(b) : (a \o b)[Len(a) + i] = b[i]
  OBVIOUS
<1> QED BY <1>1, <1>2, <1>3

\* What an operation's types consist of.
LEMMA OpParts ==
  ASSUME NEW r, r.is = "op", r.ins \in Seq(HugrTypes), r.outs \in Seq(HugrTypes), NEW v
  PROVE  v \in Parts(r) <=> \/ \E i \in 1 .. Len(r.ins) : v \in PartsOf[r.ins[i]]
                            \/ \E i \in 1 .. Len(r.outs) : v \in PartsOf[r.outs[i]]
<1> DEFINE ts == r.ins \o r.outs
           n == Len(r.ins)
           m == Len(r.outs)
<1>1. /\ n \in Nat /\ m \in Nat /\ DOMAIN ts = 1 .. n + m
      /\ \A i \in 1 .. n : ts[i] = r.ins[i]
      /\ \A i \in 1 .. m : ts[n + i] = r.outs[i]
  <2>1. r.ins \in Seq(HugrTypes) /\ r.outs \in Seq(HugrTypes)
    OBVIOUS
  <2>2. n \in Nat /\ m \in Nat /\ DOMAIN ts = 1 .. n + m
    BY <2>1
  <2>3. \A i \in 1 .. n : ts[i] = r.ins[i]
    BY <2>1, Joined
  <2>4. ASSUME NEW i \in 1 .. m PROVE ts[n + i] = r.outs[i]
    <3> DEFINE a == r.ins
               b == r.outs
    <3>1. a \in Seq(HugrTypes) /\ b \in Seq(HugrTypes) /\ i \in 1 .. Len(b)
      OBVIOUS
    <3> HIDE DEF a, b
    <3>2. (a \o b)[Len(a) + i] = b[i]
      BY <3>1, Joined
    <3> QED BY <3>2 DEF a, b
  <2> HIDE DEF n, m, ts
  <2> QED BY <2>2, <2>3, <2>4
<1>2. Parts(r) = UNION {PartsOf[ts[i]] : i \in DOMAIN ts}
  BY DEF Parts
<1> HIDE DEF ts, n, m
<1>3. \A i \in 1 .. n + m : i \in 1 .. n \/ \E j \in 1 .. m : i = n + j
  <2> TAKE i \in 1 .. n + m
  <2>1. CASE i > n
    <3>1. i - n \in 1 .. m /\ i = n + (i - n)
      BY <1>1, <2>1
    <3> QED BY <3>1
  <2> QED BY <1>1, <2>1
<1>4. (\A i \in 1 .. n : i \in 1 .. n + m) /\ (\A j \in 1 .. m : n + j \in 1 .. n + m)
  BY <1>1
<1>5. v \in Parts(r) <=> \E i \in 1 .. n + m : v \in PartsOf[ts[i]]
  <2>1. v \in UNION {PartsOf[ts[i]] : i \in DOMAIN ts}
          <=> \E i \in DOMAIN ts : v \in PartsOf[ts[i]]
    OBVIOUS
  <2>2. DOMAIN ts = 1 .. n + m
    BY <1>1
  <2> QED BY ONLY <1>2, <2>1, <2>2
<1>6. ASSUME NEW i \in 1 .. n + m, v \in PartsOf[ts[i]]
      PROVE  \/ \E j \in 1 .. n : v \in PartsOf[r.ins[j]]
             \/ \E j \in 1 .. m : v \in PartsOf[r.outs[j]]
  <2>1. CASE i \in 1 .. n
    BY <1>1, <1>6, <2>1
  <2>2. CASE \E j \in 1 .. m : i = n + j
    <3>1. PICK j \in 1 .. m : i = n + j
      BY <2>2
    <3>2. ts[i] = r.outs[j]
      BY <1>1, <3>1
    <3> QED BY <1>6, <3>2
  <2> QED BY <1>3, <2>1, <2>2
<1>7. ASSUME NEW j \in 1 .. n, v \in PartsOf[r.ins[j]]
      PROVE  \E i \in 1 .. n + m : v \in PartsOf[ts[i]]
  <2>1. ts[j] = r.ins[j] /\ j \in 1 .. n + m
    BY <1>1, <1>4
  <2> QED BY <1>7, <2>1
<1>8. ASSUME NEW j \in 1 .. m, v \in PartsOf[r.outs[j]]
      PROVE  \E i \in 1 .. n + m : v \in PartsOf[ts[i]]
  <2>1. ts[n + j] = r.outs[j] /\ n + j \in 1 .. n + m
    BY <1>1, <1>4
  <2> QED BY <1>8, <2>1
<1> QED BY <1>5, <1>6, <1>7, <1>8 DEF n, m

\* What a constant's type consists of.
LEMMA ConstParts ==
  ASSUME NEW r, r.is = "const"
  PROVE  Parts(r) = PartsOf[r.of]
BY DEF Parts

\* The keys that are available when a request is equipped for.
LEMMA EquippedFor ==
  ASSUME NEW r, Equipped(r)
  PROVE  /\ Available(r.key)
         /\ \A t \in Parts(r) : /\ t.is = "custom" => Available(t.key)
                                /\ t.is = "array" => Available("array")
         /\ TakesAnError(r) => Available("error") /\ Available("ConstError")
<1>1. r.key \in KeysNeeded(r)
  BY DEF KeysNeeded
<1>2. ASSUME NEW t \in Parts(r)
      PROVE  /\ t.is = "custom" => t.key \in KeysNeeded(r)
             /\ t.is = "array" => "array" \in KeysNeeded(r)
  <2>1. t.is = "custom" => t.key \in {u.key : u \in {v \in Parts(r) : v.is = "custom"}}
    BY <1>2
  <2>2. t.is = "array" => t.is \in {u.is : u \in {v \in Parts(r) : v.is = "array"}}
    BY <1>2
  <2> QED BY <2>1, <2>2 DEF KeysNeeded
<1>3. TakesAnError(r) => "error" \in KeysNeeded(r) /\ "ConstError" \in KeysNeeded(r)
  BY DEF KeysNeeded
<1> QED BY <1>1, <1>2, <1>3 DEF Equipped

-----------------------------------------------------------------------------
(* What an equipped registry makes of requests.                            *)

\* What is known of an operation that may be lowered.
AnOp(r) ==
    /\ r.is = "op" /\ r.key \in OpNames
    /\ r.ins \in Seq(HugrTypes) /\ r.outs \in Seq(HugrTypes) /\ r.row \in Seq(HugrTypes)
    /\ Signature(r)

\* It has types exactly if none of those it consists of is unmapped.
LEMMA OpMapped ==
  ASSUME Tables3, NEW r, AnOp(r), Equipped(r)
  PROVE  /\ \A i \in 1 .. Len(r.ins) : PartsAvailable(r.ins[i])
         /\ \A i \in 1 .. Len(r.outs) : PartsAvailable(r.outs[i])
         /\ AllTyped(TypesOf(r.ins)) /\ AllTyped(TypesOf(r.outs))
              <=> ~\E t \in Parts(r) : Unmapped(t)
<1>1. /\ \A i \in 1 .. Len(r.ins) : r.ins[i] \in HugrTypes
      /\ \A i \in 1 .. Len(r.outs) : r.outs[i] \in HugrTypes
      /\ DOMAIN TypesOf(r.ins) = 1 .. Len(r.ins)
      /\ DOMAIN TypesOf(r.outs) = 1 .. Len(r.outs)
      /\ \A i \in 1 .. Len(r.ins) : TypesOf(r.ins)[i] = LlvmType[r.ins[i]]
      /\ \A i \in 1 .. Len(r.outs) : TypesOf(r.outs)[i] = LlvmType[r.outs[i]]
  BY RowTypes DEF AnOp
<1>2. \A v : v \in Parts(r) <=> \/ \E i \in 1 .. Len(r.ins) : v \in PartsOf[r.ins[i]]
                                \/ \E i \in 1 .. Len(r.outs) : v \in PartsOf[r.outs[i]]
  BY OpParts DEF AnOp
<1>3. \A t \in Parts(r) : /\ t.is = "custom" => Available(t.key)
                          /\ t.is = "array" => Available("array")
  BY EquippedFor
<1>4. /\ \A i \in 1 .. Len(r.ins) : PartsAvailable(r.ins[i])
      /\ \A i \in 1 .. Len(r.outs) : PartsAvailable(r.outs[i])
  BY <1>2, <1>3 DEF PartsAvailable
<1>5. /\ \A i \in 1 .. Len(r.ins) :
           LlvmType[r.ins[i]] = NoType <=> \E u \in PartsOf[r.ins[i]] : Unmapped(u)
      /\ \A i \in 1 .. Len(r.outs) :
           LlvmType[r.outs[i]] = NoType <=> \E u \in PartsOf[r.outs[i]] : Unmapped(u)
  BY <1>1, <1>4, AllMapped DEF MapsAsExpected
<1>6. /\ AllTyped(TypesOf(r.ins)) <=> \A i \in 1 .. Len(r.ins) : LlvmType[r.ins[i]] # NoType
      /\ AllTyped(TypesOf(r.outs)) <=> \A i \in 1 .. Len(r.outs) : LlvmType[r.outs[i]] # NoType
  BY <1>1 DEF AllTyped
<1>7. AllTyped(TypesOf(r.ins)) /\ AllTyped(TypesOf(r.outs)) <=> ~\E t \in Parts(r) : Unmapped(t)
  BY <1>2, <1>5, <1>6
<1> QED BY <1>4, <1>7

\* The logic operations are about booleans, which any registry maps.
LEMMA FewInputsTyped ==
  ASSUME NEW r, AnOp(r), TooFewInputs(r.key, r.ins)
  PROVE  AllTyped(TypesOf(r.ins)) /\ AllTyped(TypesOf(r.outs))
<1>1. r.key \in LogicOps
  BY DEF TooFewInputs, LogicOps
<1>2. r.ins = [i \in DOMAIN r.ins |-> Bool] /\ r.outs = <<Bool>>
  BY <1>1 DEF AnOp, Signature, ArrayOpNames, LogicOps
<1>3. Bool \in HugrTypes /\ \A i \in DOMAIN r.ins : r.ins[i] = Bool
  BY <1>2 DEF AnOp
<1>4. LlvmType[Bool] # NoType
  <2>1. Bool.is = "sum" /\ Bool.rows = <<<<>>, <<>>>>
    BY DEF Bool, SumOf
  <2>2. Within(Bool) = {}
    BY <2>1 DEF Within, Rows
  <2> QED BY <1>3, <2>1, <2>2, SumMapped
<1>5. AllTyped(TypesOf(r.outs))
  BY <1>2, <1>4, Row1 DEF AllTyped
<1>6. AllTyped(TypesOf(r.ins))
  BY <1>3, <1>4 DEF AllTyped, TypesOf
<1> QED BY <1>5, <1>6

\* Array operations are equipped for only with the prelude's array type.
LEMMA ArrayHooked ==
  ASSUME NEW r, Ready(r), r.key \in ArrayOpNames
  PROVE  ArrayHook
<1>1. Tables3 /\ Typed(r)
  BY DEF Ready
<1>2. \E t \in HugrTypes : t.is = "array" /\ PartsAvailable(t)
  <2>1. CASE r.key = "new_array"
    <3> DEFINE t == ArrayT(r.row[1], Len(r.ins))
    <3>1. r.outs = <<t>>
      <4>1. Signature(r)
        BY <1>1 DEF Typed
      <4> QED BY <2>1, <4>1 DEF Signature, ArrayOpNames, LogicOps
    <3>2. t.is = "array"
      BY DEF ArrayT
    <3> HIDE DEF t
    <3> QED BY <3>1, <3>2, ReadyRow1
  <2>2. CASE r.key # "new_array"
    <3>1. r.ins # <<>> /\ r.ins[1].is = "array"
      BY <1>1, <2>2 DEF Typed, Signature, ArrayOpNames, LogicOps
    <3>2. 1 \in 1 .. Len(r.ins)
      BY <1>1, <3>1 DEF Typed
    <3> QED BY <3>1, <3>2, ReadyType
  <2> QED BY <2>1, <2>2
<1>3. Available("array")
  BY <1>2, PartAvailable
<1>4. Answered(custom_hooks, "array", Handles("array_type", NoType))
  BY <1>1, <1>3, AvailableAnswers DEF AnswersFor
<1> QED BY <1>4 DEF ArrayHook, Answered, Handles

\* The extensions of an operation lower it.
LEMMA HandlerLowers ==
  ASSUME NEW r, Ready(r), Equipped(r), NEW h, h = extension_op_handlers[r.key],
         r.key \in OpsOf(h.fn)
  PROVE  LET e == EmittedBy(h, r.key, TypesOf(r.ins), TypesOf(r.outs), TypesOf(r.row))
         IN IF TooFewInputs(r.key, r.ins) THEN e.is = "panic" ELSE Lowered(r, e)
<1> DEFINE ins == TypesOf(r.ins)
           outs == TypesOf(r.outs)
           row == TypesOf(r.row)
           e == EmittedBy(h, r.key, ins, outs, row)
           few == TooFewInputs(r.key, r.ins)
<1> SUFFICES IF few THEN e.is = "panic" ELSE Lowered(r, e)
  OBVIOUS
<1>1. r.key \notin LogicOps => ~few
  BY DEF TooFewInputs, LogicOps
<1>2. Tables3 /\ Typed(r)
  BY DEF Ready
<1>3. TakesAnError(r) => Available("error") /\ Available("ConstError")
  BY EquippedFor
<1>4. r.key = "panic" => Available("error") /\ Available("panic")
  <2>1. SUFFICES ASSUME r.key = "panic" PROVE Available("error") /\ Available("panic")
    OBVIOUS
  <2>2. r.ins # <<>> /\ r.ins[1] = Custom("error")
    BY <1>2, <2>1 DEF Typed, Signature, ArrayOpNames, LogicOps
  <2>3. 1 \in 1 .. Len(r.ins)
    BY <1>2, <2>2 DEF Typed
  <2>4. Custom("error") \in HugrTypes /\ PartsAvailable(Custom("error"))
    BY <2>2, <2>3, ReadyType
  <2> QED BY <2>1, <2>4, PartAvailable, CustomIs, EquippedFor
<1>5. r.key \in TupleOps \cup ArrayOpNames => ~Declined(r)
  BY DEF Declined, TupleOps, ArrayOpNames
<1>6. CASE r.key \in TupleOps /\ e = EmitTuple(r.key, ins, outs)
  <2>1. EmitTuple(r.key, ins, outs).is = "stored"
    BY <1>6, TupleLowers
  <2>2. r.key \notin LogicOps
    BY <1>6 DEF TupleOps, LogicOps
  <2> HIDE DEF ins, outs, e, few
  <2> QED BY <1>1, <1>5, <1>6, <2>1, <2>2 DEF Lowered
<1>7. CASE r.key \in ArrayOpNames /\ e = EmitArray(r.key, ins, outs, row)
  <2>1. EmitArray(r.key, ins, outs, row).is = "stored"
    BY <1>7, ArrayHooked, ArrayLowers
  <2>2. r.key \notin LogicOps
    BY <1>7 DEF ArrayOpNames, LogicOps
  <2> HIDE DEF ins, outs, row, e, few
  <2> QED BY <1>1, <1>5, <1>7, <2>1, <2>2 DEF Lowered
<1>8. CASE r.key \in IntOps /\ e = EmitInt(r.key, ins, outs)
  <2>1. Lowered(r, EmitInt(r.key, ins, outs))
    BY <1>8, IntLowers
  <2>2. r.key \notin LogicOps
    BY <1>8 DEF IntOps, LogicOps
  <2> HIDE DEF ins, outs, e, few
  <2> QED BY <1>1, <1>8, <2>1, <2>2
<1>9. CASE r.key \in FloatOps /\ e = EmitFloat(r.key, ins, outs)
  <2>1. Lowered(r, EmitFloat(r.key, ins, outs))
    BY <1>9, FloatLowers
  <2>2. r.key \notin LogicOps
    BY <1>9 DEF FloatOps, LogicOps
  <2> HIDE DEF ins, outs, e, few
  <2> QED BY <1>1, <1>9, <2>1, <2>2
<1>10. CASE r.key \in LogicOps /\ e = EmitLogic(r.key, ins, outs)
  <2> DEFINE end == EmitLogic(r.key, ins, outs)
  <2>1. IF few THEN end.is = "panic" ELSE Lowered(r, end)
    BY <1>10, LogicLowers
  <2> HIDE DEF ins, outs, e, few
  <2> QED BY <1>10, <2>1
<1>11. CASE r.key \in ConvertOps /\ e = EmitConversion(r.key, ins, outs, row)
  <2>1. Lowered(r, EmitConversion(r.key, ins, outs, row))
    BY <1>3, <1>11, ConversionLowers DEF TakesAnError
  <2>2. r.key \notin LogicOps
    BY <1>11 DEF ConvertOps, LogicOps
  <2> HIDE DEF ins, outs, row, e, few
  <2> QED BY <1>1, <1>11, <2>1, <2>2
<1>12. CASE r.key \in RotationOps /\ e = EmitRotation(r.key, ins, outs, row)
  <2>1. Lowered(r, EmitRotation(r.key, ins, outs, row))
    BY <1>3, <1>12, RotationLowers DEF TakesAnError
  <2>2. r.key \notin LogicOps
    BY <1>12 DEF RotationOps, LogicOps
  <2> HIDE DEF ins, outs, row, e, few
  <2> QED BY <1>1, <1>12, <2>1, <2>2
<1>13. CASE r.key = "print" /\ e = Unchecked(outs, Stores(<<>>))
  <2>1. Lowered(r, Unchecked(outs, Stores(<<>>)))
    BY <1>13, PrintLowers
  <2>2. r.key \notin LogicOps
    BY <1>13 DEF LogicOps
  <2> HIDE DEF outs, e, few
  <2> QED BY <1>1, <1>13, <2>1, <2>2
<1>14. CASE /\ r.key = "panic"
            /\ e = (IF ins[1] # h.ty THEN Err ELSE EmitPanic(ins[1], Stores(outs)))
  <2>1. h = extension_op_handlers["panic"]
    BY <1>14
  <2>2. Lowered(r, IF ins[1] # h.ty THEN Err ELSE EmitPanic(ins[1], Stores(outs)))
    BY <1>4, <1>14, <2>1, PanicLowers
  <2>3. r.key \notin LogicOps
    BY <1>14 DEF LogicOps
  <2> HIDE DEF ins, outs, e, few
  <2> QED BY <1>1, <1>14, <2>2, <2>3
<1>15. \/ r.key \in TupleOps /\ e = EmitTuple(r.key, ins, outs)
       \/ r.key \in ArrayOpNames /\ e = EmitArray(r.key, ins, outs, row)
       \/ r.key \in IntOps /\ e = EmitInt(r.key, ins, outs)
       \/ r.key \in FloatOps /\ e = EmitFloat(r.key, ins, outs)
       \/ r.key \in LogicOps /\ e = EmitLogic(r.key, ins, outs)
       \/ r.key \in ConvertOps /\ e = EmitConversion(r.key, ins, outs, row)
       \/ r.key \in RotationOps /\ e = EmitRotation(r.key, ins, outs, row)
       \/ r.key = "print" /\ e = Unchecked(outs, Stores(<<>>))
       \/ /\ r.key = "panic"
          /\ e = (IF ins[1] # h.ty THEN Err ELSE EmitPanic(ins[1], Stores(outs)))
  <2> DEFINE op == r.key
  <2>1. op \in OpsOf(h.fn)
    OBVIOUS
  <2> HIDE DEF ins, outs, row, op
  <2>2. LET e2 == EmittedBy(h, op, ins, outs, row) IN
        \/ op \in TupleOps /\ e2 = EmitTuple(op, ins, outs)
        \/ op \in ArrayOpNames /\ e2 = EmitArray(op, ins, outs, row)
        \/ op \in IntOps /\ e2 = EmitInt(op, ins, outs)
        \/ op \in FloatOps /\ e2 = EmitFloat(op, ins, outs)
        \/ op \in LogicOps /\ e2 = EmitLogic(op, ins, outs)
        \/ op \in ConvertOps /\ e2 = EmitConversion(op, ins, outs, row)
        \/ op \in RotationOps /\ e2 = EmitRotation(op, ins, outs, row)
        \/ op = "print" /\ e2 = Unchecked(outs, Stores(<<>>))
        \/ op = "panic" /\ e2 = (IF ins[1] # h.ty THEN Err ELSE EmitPanic(ins[1], Stores(outs)))
    BY <2>1, Emitter
  <2> QED BY <2>2 DEF op
<1> HIDE DEF ins, outs, row, e, few
<1> QED BY <1>6, <1>7, <1>8, <1>9, <1>10, <1>11, <1>12, <1>13, <1>14, <1>15

\* How an operation ends that the registry is equipped for.
LEMMA OpLowers ==
  ASSUME Tables3, LoadsByRepository, EmitsByRepository, NEW r, AnOp(r), Equipped(r)
  PROVE  EmitExtensionOp(r).is = IF TooFewInputs(r.key, r.ins) THEN "panic"
                                 ELSE IF Refused(r) THEN "err" ELSE "stored"
<1> DEFINE ins == TypesOf(r.ins)
           outs == TypesOf(r.outs)
           h == extension_op_handlers[r.key]
           e == EmittedBy(h, r.key, ins, outs, TypesOf(r.row))
           unmapped == \E t \in Parts(r) : Unmapped(t)
<1>1. Refused(r) <=> unmapped \/ Declined(r)
  BY DEF Refused, Declined
<1>2. AllTyped(ins) /\ AllTyped(outs) <=> ~unmapped
  BY OpMapped
<1>3. r.key \in DOMAIN extension_op_handlers /\ r.key \in OpsOf(h.fn)
  <2>1. Available(r.key)
    BY EquippedFor
  <2>2. r.key \in DOMAIN extension_op_handlers
    BY <2>1, AvailableAnswers DEF AnswersFor, AnOp
  <2> QED BY <2>2 DEF EmitsByRepository
<1>4. EmitExtensionOp(r) = IF unmapped THEN Err ELSE e
  <2>1. EmitExtensionOp(r) = IF ~AllTyped(ins) \/ ~AllTyped(outs)
                                \/ r.key \notin DOMAIN extension_op_handlers
                             THEN Err ELSE e
    BY DEF EmitExtensionOp
  <2> HIDE DEF ins, outs, e, unmapped
  <2> QED BY <1>2, <1>3, <2>1
<1>5. CASE unmapped
  <2>1. ~TooFewInputs(r.key, r.ins)
    BY <1>2, <1>5, FewInputsTyped
  <2> QED BY <1>1, <1>4, <1>5, <2>1, EndsOf
<1>6. CASE ~unmapped
  <2>1. Ready(r)
    BY <1>2, <1>6, OpMapped DEF Ready, Typed, AnOp
  <2>2. IF TooFewInputs(r.key, r.ins) THEN e.is = "panic" ELSE Lowered(r, e)
    BY <1>3, <2>1, HandlerLowers
  <2> HIDE DEF e, unmapped
  <2> QED BY <1>1, <1>4, <1>6, <2>2 DEF Lowered
<1> QED BY <1>5, <1>6

\* How a constant ends that the registry is equipped for.
LEMMA ConstLowers ==
  ASSUME Tables3, NEW r, r.is = "const", r.of \in HugrTypes, r.key \in ConstFns,
         ConstOf(r.key, r.of), Equipped(r)
  PROVE  (IF LlvmType[r.of] = NoType THEN Err
          ELSE Unchecked(<<LlvmType[r.of]>>, EmitLoadConstant(r.key, r.of))).is
           = IF Refused(r) THEN "err" ELSE "stored"
<1> DEFINE t == r.of
           ty == LlvmType[t]
           end == EmitLoadConstant(r.key, t)
           h == load_constant_handlers[r.key]
<1>1. PartsAvailable(t)
  BY ConstParts, EquippedFor DEF PartsAvailable
<1>2. Refused(r) <=> ty = NoType
  <2>1. ty = NoType <=> \E u \in Parts(r) : Unmapped(u)
    <3>1. MapsAsExpected(t)
      BY <1>1, AllMapped
    <3>2. Parts(r) = PartsOf[t]
      BY ConstParts
    <3> QED BY <3>1, <3>2 DEF MapsAsExpected
  <2>2. ~Declined(r)
    BY DEF Declined, ConstFns
  <2>3. Refused(r) <=> (\E u \in Parts(r) : Unmapped(u)) \/ Declined(r)
    BY DEF Refused, Declined
  <2> QED BY <2>1, <2>2, <2>3
<1>3. ASSUME ty # NoType PROVE end = Stores(<<ty>>)
  <2>1. Available(r.key)
    BY EquippedFor
  <2>2. r.key \in DOMAIN load_constant_handlers /\ h.fn = r.key
    <3>1. AnswersFor(r.key)
      BY <2>1, AvailableAnswers
    <3>2. \E captured : Answered(load_constant_handlers, r.key, Handles(r.key, captured))
      BY <3>1 DEF AnswersFor
    <3> QED BY <3>2 DEF Answered, Handles
  <2>3. t.is = "custom" =>
          /\ t.key = "int" => IsInt(ty)
          /\ t.key \in {"float64", "rotation"} => ty = F64
          /\ t.key = "string" => ty = Ptr
          /\ t.key = "usize" => IsInt(ty)
    BY <1>1, <1>3, ReadyCustom
  <2>4. /\ r.key \in {"ConstUsize", "ConstInt"} => IsInt(ty)
        /\ r.key \in {"ConstF64", "ConstRotation"} => ty = F64
        /\ r.key = "ConstString" => ty = Ptr
        /\ r.key = "ConstError" => t = Custom("error")
    <3> HIDE DEF ty
    <3> QED BY <2>3, CustomIs DEF ConstOf, IsIntType, Float64, Rotation
  <2>5. r.key = "ConstError" => end = Stores(<<ty>>)
    <3>1. SUFFICES ASSUME r.key = "ConstError" PROVE end = Stores(<<ty>>)
      OBVIOUS
    <3>2. Available("error")
      BY <1>1, <2>4, <3>1, PartAvailable, CustomIs
    <3> QED BY <2>1, <2>4, <3>1, <3>2, ErrorLoads
  <2>6. r.key # "ConstError" => LoadedBy(h, t) = Stores(<<ty>>)
    <3>1. h.fn \in ConstFns
      BY <2>2
    <3>2. IsFloat(F64)
      BY DEF IsFloat, F64
    <3> HIDE DEF h, t
    <3> QED BY <1>3, <2>2, <2>4, <3>1, <3>2 DEF LoadedBy, ConstFns
  <2>7. r.key # "ConstError" => end = Stores(<<ty>>)
    <3> HIDE DEF h, ty
    <3> QED BY <2>2, <2>6, EndsOf DEF EmitLoadConstant, h, ty
  <2> QED BY <2>5, <2>7
<1> HIDE DEF ty, end
<1>4. (IF ty = NoType THEN Err ELSE Unchecked(<<ty>>, end)).is
        = IF ty = NoType THEN "err" ELSE "stored"
  BY <1>3, EndsAre
<1> QED BY <1>2, <1>4 DEF ty, end

-----------------------------------------------------------------------------
\* The chains and the tables hold only what the extensions filed.
Runs(cs) ==
    \A i \in DOMAIN cs :
      /\ cs[i].table = "consts" => cs[i].handler.fn \in ConstFns
      /\ cs[i].table = "ops" => cs[i].keys \subseteq OpsOf(cs[i].handler.fn)

TypingInv ==
    /\ TypeOK
    /\ Runs(chain)
    /\ LoadsByRepository
    /\ EmitsByRepository
    /\ ConstantsAreTyped
    /\ OpsAreTyped

LEMMA TypingInit == Init => TypingInv
<1> SUFFICES ASSUME Init PROVE TypingInv
  OBVIOUS
<1>1. ExtsTypeOK
  BY ExtsInitType DEF Init
<1>2. Runs(chain) /\ DOMAIN load_constant_handlers = {} /\ DOMAIN extension_op_handlers = {}
  BY DEF Init, ExtsInit, Runs, NoHandlers
<1>3. request = NoRequest /\ verdict = "none"
  BY DEF Init
<1> QED BY <1>1, <1>2, <1>3 DEF TypingInv, TypeOK, ConstantsAreTyped, OpsAreTyped,
                                LoadsByRepository, EmitsByRepository

\* Nothing that is lowered mixes types in a coherent registry.
LEMMA TypingLowers ==
  ASSUME TypingInv, NEW r \in Requests, Lower(r)
  PROVE  TypingInv'
<1> USE DEF TypingInv
<1>1. UNCHANGED extsVars /\ finished /\ request' = r
  BY DEF Lower
<1>2. /\ UNCHANGED <<custom_hooks, load_constant_handlers, extension_op_handlers, chain, finished>>
      /\ LlvmType' = LlvmType /\ ErrorIsCodeAndMessage' = ErrorIsCodeAndMessage
  BY <1>1, SameTypes DEF extsVars, registry
<1>3. ExtsTypeOK'
  BY <1>1, ExtsTypeStep DEF TypeOK
<1>4. r # NoRequest /\ (r.is = "const" \/ r.is = "op")
  BY RequestsAssumption DEF NoRequest
<1> DEFINE op == EmitExtensionOp(r)
           const == IF LlvmType[r.of] = NoType THEN Err
                    ELSE Unchecked(<<LlvmType[r.of]>>, EmitLoadConstant(r.key, r.of))
<1>5. verdict' = IF r.is = "op" THEN op.is ELSE const.is
  BY DEF Lower
<1>6. op.is \in Ends /\ const.is \in Ends
  <2>1. EmitLoadConstant(r.key, r.of).is \in Ends
    BY LoadEnds
  <2> QED BY <2>1, OpEnds, WrappedEnds, EndsOf DEF Ends
<1>7. TypeOK'
  BY <1>1, <1>2, <1>3, <1>4, <1>5, <1>6 DEF TypeOK, Ends
<1>8. ConstantsAreTyped'
  <2>1. ASSUME r.is = "const", const.is = "mistyped" PROVE ~ErrorIsCodeAndMessage
    BY <2>1, LoadsTyped, EndsOf DEF LoadsByRepository
  <2> HIDE DEF const, op
  <2> QED BY <1>1, <1>2, <1>5, <2>1 DEF ConstantsAreTyped
<1>9. OpsAreTyped'
  <2>1. ASSUME r.is = "op", Coherent PROVE op.is # "mistyped"
    <3>1. /\ r.ins \in Seq(HugrTypes) /\ r.outs \in Seq(HugrTypes) /\ r.row \in Seq(HugrTypes)
          /\ Signature(r)
      BY <2>1, RequestsAssumption
    <3> QED BY <2>1, <3>1, OpsTyped
  <2>2. Coherent' <=> Coherent
    BY <1>2 DEF Coherent
  <2> HIDE DEF const, op
  <2> QED BY <1>1, <1>5, <2>1, <2>2 DEF OpsAreTyped
<1> QED BY <1>2, <1>7, <1>8, <1>9 DEF Runs, LoadsByRepository, EmitsByRepository

\* Building the registry files only what the extensions bring.
LEMMA TypingBuilds ==
  ASSUME TypingInv, Build, UNCHANGED <<request, verdict>>
  PROVE  TypingInv'
<1> USE DEF TypingInv
<1>1. ExtsTypeOK'
  BY ExtsTypeStep DEF TypeOK
<1>2. ~finished
  BY DEF Build, AddExtension, CustomType, CustomConst, ExtensionOp, Registers, Finish,
         ExtsTypeOK, TypeOK
<1>3. request' = NoRequest /\ request = NoRequest
  BY <1>2 DEF TypeOK
<1>4. TypeOK' /\ ConstantsAreTyped' /\ OpsAreTyped'
  BY <1>1, <1>3 DEF ConstantsAreTyped, OpsAreTyped, TypeOK, NoRequest
<1>5. CASE chain # <<>> /\ NextCall
  <2>1. Runs(chain')
    BY <1>5 DEF NextCall, Runs, ExtsTypeOK, TypeOK
  <2>2. /\ Head(chain).table = "consts" => Head(chain).handler.fn \in ConstFns
        /\ Head(chain).table = "ops" => Head(chain).keys \subseteq OpsOf(Head(chain).handler.fn)
    BY <1>5 DEF Runs, ExtsTypeOK, TypeOK
  <2>3. /\ \/ load_constant_handlers' = load_constant_handlers
           \/ /\ Head(chain).table = "consts"
              /\ load_constant_handlers'
                   = Insert(load_constant_handlers, Head(chain).keys, Head(chain).handler)
        /\ \/ extension_op_handlers' = extension_op_handlers
           \/ /\ Head(chain).table = "ops"
              /\ extension_op_handlers'
                   = Insert(extension_op_handlers, Head(chain).keys, Head(chain).handler)
    BY <1>5 DEF Build, AddExtension, CustomType, CustomConst, ExtensionOp, Registers, Finish
  <2>4. LoadsByRepository'
    BY <2>2, <2>3 DEF Insert, LoadsByRepository
  <2>5. EmitsByRepository'
    BY <2>2, <2>3 DEF Insert, EmitsByRepository
  <2> QED BY <1>4, <2>1, <2>4, <2>5 DEF Runs
<1>6. CASE (\E ext \in Extensions : AddExtension(ext)) \/ Finish
  <2>1. /\ load_constant_handlers' = load_constant_handlers
        /\ extension_op_handlers' = extension_op_handlers
    BY <1>6 DEF AddExtension, Finish, registry
  <2>2. Runs(chain')
    BY <1>6, ConstFnsAssumption, OpFnsAssumption DEF AddExtension, Finish, Runs
  <2> QED BY <1>4, <2>1, <2>2 DEF Runs, LoadsByRepository, EmitsByRepository
<1> QED BY <1>5, <1>6 DEF Build, CustomType, CustomConst, ExtensionOp, Registers

LEMMA TypingHolds == Spec => []TypingInv
<1>1. ASSUME TypingInv, [Next]_vars PROVE TypingInv'
  <2>1. CASE UNCHANGED vars
    <3>1. UNCHANGED extsVars /\ UNCHANGED <<request, verdict>>
      BY <2>1 DEF vars
    <3>2. UNCHANGED <<custom_hooks, load_constant_handlers, extension_op_handlers, chain, finished>>
      BY <3>1 DEF extsVars, registry
    <3>3. LlvmType' = LlvmType /\ ErrorIsCodeAndMessage' = ErrorIsCodeAndMessage
      BY <3>2, SameTypes
    <3>4. ExtsTypeOK'
      BY <1>1, <3>1, ExtsTypeStep DEF TypingInv, TypeOK
    <3>5. TypeOK' /\ ConstantsAreTyped' /\ OpsAreTyped'
      BY <1>1, <3>1, <3>2, <3>3, <3>4 DEF TypingInv, TypeOK, ConstantsAreTyped, OpsAreTyped, Coherent
    <3> QED BY <1>1, <3>2, <3>5 DEF TypingInv, Runs, LoadsByRepository, EmitsByRepository
  <2> QED BY <1>1, <2>1, TypingLowers, TypingBuilds DEF Next
<1> QED BY <1>1, TypingInit, PTL DEF Spec

\* However a request ends, it ends in one of four ways, and only in a registry
\* that is finished.
THEOREM TypeCorrect == Spec => []TypeOK
<1>1. TypingInv => TypeOK
  BY DEF TypingInv
<1> QED BY <1>1, TypingHolds, PTL

\* Whatever callbacks have replaced whatever others, a constant that is loaded
\* has the type its users were promised.
THEOREM ConstantsTyped == Spec => []ConstantsAreTyped
<1>1. TypingInv => ConstantsAreTyped
  BY DEF TypingInv
<1> QED BY <1>1, TypingHolds, PTL

\* Whatever callbacks have replaced whatever others, no operation stores a value
\* of another type than its mailbox or mixes types in an instruction, as long as
\* the types of floats, rotations, arrays and errors are what its handlers take
\* for granted.
THEOREM OperationsTyped == Spec => []OpsAreTyped
<1>1. TypingInv => OpsAreTyped
  BY DEF TypingInv
<1> QED BY <1>1, TypingHolds, PTL

-----------------------------------------------------------------------------
(* The extensions work together.                                           *)

LEMMA EquippedStep ==
  ASSUME TypingInv, LastRegistrationWins, EquippedLowers, TypingInv', [Next]_vars
  PROVE  LastRegistrationWins' /\ EquippedLowers'
<1>1. [Build]_extsVars
  BY DEF Next, Lower, vars
<1>2. LastRegistrationWins'
  BY <1>1, ResolvesStep DEF TypingInv, TypeOK
<1>3. CASE Build /\ UNCHANGED <<request, verdict>>
  <2>1. ~finished
    BY <1>3 DEF Build, AddExtension, CustomType, CustomConst, ExtensionOp, Registers, Finish,
           ExtsTypeOK, TypeOK, TypingInv
  <2>2. request = NoRequest
    BY <2>1 DEF TypeOK, TypingInv
  <2> QED BY <1>2, <1>3, <2>2 DEF EquippedLowers, NoRequest
<1>4. ASSUME UNCHANGED extsVars
      PROVE  \A r : (Equipped(r)' <=> Equipped(r)) /\ (Refused(r)' <=> Refused(r))
  <2>1. calls' = calls /\ LlvmType' = LlvmType
    BY <1>4, SameTypes DEF extsVars, registry
  <2> TAKE r
  <2>2. Equipped(r)' <=> Equipped(r)
    BY <2>1 DEF Equipped, Available, EndsAt
  <2>3. Refused(r)' <=> Refused(r)
    BY <2>1 DEF Refused
  <2> QED BY <2>2, <2>3
<1>5. ASSUME NEW r \in Requests, Lower(r) PROVE EquippedLowers'
  <2> DEFINE op == EmitExtensionOp(r)
             const == IF LlvmType[r.of] = NoType THEN Err
                      ELSE Unchecked(<<LlvmType[r.of]>>, EmitLoadConstant(r.key, r.of))
             few == r.is = "op" /\ TooFewInputs(r.key, r.ins)
  <2>1. UNCHANGED extsVars /\ request' = r /\ verdict' = IF r.is = "op" THEN op.is ELSE const.is
    BY <1>5 DEF Lower
  <2>2. (Equipped(r)' <=> Equipped(r)) /\ (Refused(r)' <=> Refused(r))
    BY <1>4, <2>1
  <2>3. Tables3 /\ LoadsByRepository /\ EmitsByRepository
    BY DEF Tables3, TypingInv, TypeOK, ExtsTypeOK
  <2>4. ASSUME Equipped(r)
        PROVE  (IF r.is = "op" THEN op.is ELSE const.is)
                 = IF few THEN "panic" ELSE IF Refused(r) THEN "err" ELSE "stored"
    <3>1. CASE r.is = "const"
      <4>1. r.of \in HugrTypes /\ r.key \in ConstFns /\ ConstOf(r.key, r.of)
        BY <3>1, RequestsAssumption, NamesAssumption
      <4>2. const.is = IF Refused(r) THEN "err" ELSE "stored"
        BY <2>3, <2>4, <3>1, <4>1, ConstLowers
      <4> HIDE DEF op, const
      <4> QED BY <3>1, <4>2
    <3>2. CASE r.is = "op"
      <4>1. r.key \in OpNames
        BY <3>2, NamesAssumption DEF OpNames, PreludeOps
      <4>2. AnOp(r)
        BY <3>2, <4>1, RequestsAssumption DEF AnOp
      <4>3. op.is = IF TooFewInputs(r.key, r.ins) THEN "panic"
                    ELSE IF Refused(r) THEN "err" ELSE "stored"
        BY <2>3, <2>4, <4>2, OpLowers
      <4> HIDE DEF op, const
      <4> QED BY <3>2, <4>3
    <3> QED BY <3>1, <3>2, RequestsAssumption
  <2> HIDE DEF op, const
  <2> QED BY <2>1, <2>2, <2>4 DEF EquippedLowers, TooFewInputs
<1>6. CASE UNCHANGED vars
  <2>1. UNCHANGED extsVars /\ request' = request /\ verdict' = verdict
    BY <1>6 DEF vars
  <2>2. (Equipped(request)' <=> Equipped(request)) /\ (Refused(request)' <=> Refused(request))
    BY <1>4, <2>1
  <2> QED BY <1>2, <2>1, <2>2 DEF EquippedLowers, TooFewInputs
<1> QED BY <1>2, <1>3, <1>5, <1>6 DEF Next

\* With the extensions a constant or an operation needs, added in whatever order
\* and next to whatever others, it is lowered, unless it is one of those known
\* to be refused, with an Err, or a logic operation on too few inputs.
THEOREM EquippedRequestsLower == Spec => []EquippedLowers
<1>1. Init => LastRegistrationWins /\ EquippedLowers
  BY ResolvesInit DEF Init, EquippedLowers
<1>2. TypingInv /\ TypingInv' /\ LastRegistrationWins /\ EquippedLowers /\ [Next]_vars
        => LastRegistrationWins' /\ EquippedLowers'
  BY EquippedStep
<1> QED BY <1>1, <1>2, TypingHolds, PTL DEF Spec
=============================================================================
