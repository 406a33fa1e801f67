--------------------------- MODULE EmitModuleProofs ---------------------------
(***************************************************************************)
(* Proofs about EmitModule, for any set of HUGRs and of modules to emit    *)
(* them into, any prefix and either naming scheme.                         *)
(***************************************************************************)
EXTENDS EmitModule, TLAPS

-----------------------------------------------------------------------------
(* Lookups                                                                 *)

\* A lookup in a well-formed table leaves a well-formed table, hands out a
\* name that is in it, and leaves every symbol as it was (get_func_impl,
\* get_global).
LEMMA GetOrAddOutcome ==
  ASSUME NEW tab, IsSymbolTable(tab),
         NEW name \in Name, NEW symbol \in Symbol, NEW matches \in BOOLEAN,
         NEW r \in GetOrAdd(tab, name, symbol, matches)
  PROVE  /\ IsSymbolTable(r.tab)
         /\ r.val \in Name
         /\ r.val \in DOMAIN r.tab
         /\ r.ok \in BOOLEAN
         /\ \A s \in DOMAIN tab : s \in DOMAIN r.tab /\ r.tab[s] = tab[s]
<1>1. CASE Holds(tab, symbol.kind, name)
  <2>1. r = [tab |-> tab, val |-> name, ok |-> matches]
    BY <1>1 DEF GetOrAdd
  <2> QED BY <1>1, <2>1 DEF Holds
<1>2. CASE ~Holds(tab, symbol.kind, name)
  <2>1. PICK v \in FiledUnder(tab, name) :
          r = [tab |-> Add(tab, v, symbol), val |-> v, ok |-> TRUE]
    BY <1>2 DEF GetOrAdd
  <2>2. v \in Name /\ v \notin DOMAIN tab
    BY TokenAssumption DEF FiledUnder, Name
  <2>3. /\ DOMAIN Add(tab, v, symbol) = DOMAIN tab \cup {v}
        /\ Add(tab, v, symbol)[v] = symbol
        /\ \A s \in DOMAIN tab : Add(tab, v, symbol)[s] = tab[s]
    BY <2>2 DEF Add
  <2>4. IsSymbolTable(Add(tab, v, symbol))
    BY <2>2 DEF IsSymbolTable, Add
  <2> QED BY <2>1, <2>2, <2>3, <2>4
<1> QED BY <1>1, <1>2

\* A name that is free, or taken by the same kind of symbol, is not changed.
LEMMA GetOrAddKeepsName ==
  ASSUME NEW tab, NEW name, NEW symbol, NEW matches,
         name \in DOMAIN tab => tab[name].kind = symbol.kind,
         NEW r \in GetOrAdd(tab, name, symbol, matches)
  PROVE  /\ r.val = name
         /\ DOMAIN r.tab = DOMAIN tab \cup {name}
         /\ r.tab[name].kind = symbol.kind
         /\ name \notin DOMAIN tab => r.tab[name] = symbol
<1>1. CASE name \in DOMAIN tab
  BY <1>1 DEF GetOrAdd, Holds
<1>2. CASE name \notin DOMAIN tab
  <2>1. r = [tab |-> Add(tab, name, symbol), val |-> name, ok |-> TRUE]
    BY <1>2 DEF GetOrAdd, Holds, FiledUnder
  <2> QED BY <2>1 DEF Add
<1> QED BY <1>1, <1>2

-----------------------------------------------------------------------------
(* Types                                                                   *)

\* The parts of a HUGR the actions look at have their types.
LEMMA HugrTypes ==
  ASSUME hugr \in Hugrs
  PROVE  /\ hugr \in Hugr
         /\ \A n \in Node : Mangled(hugr, n) \in Name
         /\ \A n \in Node : \A i \in DOMAIN hugr.body[n] :
              /\ i \in Nat
              /\ hugr.body[n][i] \in Item
              /\ hugr.body[n][i].op = "nested"
                   => hugr.body[n][i].node \in FuncDefns(hugr)
<1>1. hugr \in Hugr
  BY HugrAssumption
<1>2. ASSUME NEW n \in Node PROVE Mangled(hugr, n) \in Name
  <2>1. hugr.name[n] \in Name
    BY <1>1 DEF Hugr
  <2>2. hugr.namer.prefix \in Seq(Token) /\ <<n>> \in Seq(Token) /\ <<>> \in Seq(Token)
    BY <1>1, TokenAssumption DEF Hugr, Namer, Name
  <2>3. hugr.namer.prefix \o hugr.name[n] \in Seq(Token)
    BY <2>1, <2>2 DEF Name
  <2> QED BY <2>2, <2>3 DEF Mangled, NameFunc, Name
<1>3. ASSUME NEW n \in Node, NEW i \in DOMAIN hugr.body[n]
      PROVE  /\ i \in Nat
             /\ hugr.body[n][i] \in Item
             /\ hugr.body[n][i].op = "nested"
                  => hugr.body[n][i].node \in FuncDefns(hugr)
  <2>1. hugr.body[n] \in Seq(Item)
    BY <1>1 DEF Hugr
  <2>2. i \in Nat /\ hugr.body[n][i] \in Item
    BY <2>1
  <2>3. ASSUME hugr.body[n][i].op = "nested"
        PROVE  hugr.body[n][i].node \in NestedIn(hugr, n)
    BY <2>3 DEF NestedIn, ItemsOf
  <2>4. NestedIn(hugr, n) \subseteq FuncDefns(hugr)
    BY HugrAssumption
  <2> QED BY <2>2, <2>3, <2>4
<1> QED BY <1>1, <1>2, <1>3

\* Each kind of operation carries what its lookup needs.
LEMMA ItemTypes ==
  ASSUME NEW item \in Item
  PROVE  /\ item.op = "ref" => item.node \in Node
         /\ item.op = "extern" => item.sym \in Name /\ item.ty \in Type
         /\ item.op = "global" => /\ item.sym \in Name /\ item.ty \in Type
                                  /\ item.const \in BOOLEAN
BY DEF Item

\* What a lookup that is Ok guarantees, of the table as it is now.
Sound(r) == /\ IsSymbolTable(r.tab)
            /\ r.val \in Name
            /\ r.val \in DOMAIN r.tab
            /\ \A s \in DOMAIN symtab : s \in DOMAIN r.tab /\ r.tab[s] = symtab[s]

LEMMA GetFuncSound ==
  ASSUME IsSymbolTable(symtab), NEW name \in Name, NEW ty \in Type,
         NEW r \in GetFunc(symtab, name, ty)
  PROVE  Sound(r)
<1> DEFINE symbol == [kind |-> "func", ty |-> ty, const |-> FALSE, body |-> NoNode]
<1>1. symbol \in Symbol
  BY DEF Symbol
<1> HIDE DEF symbol
<1>2. PICK matches \in BOOLEAN : r \in GetOrAdd(symtab, name, symbol, matches)
  BY DEF GetFunc, symbol
<1> QED BY <1>1, <1>2, GetOrAddOutcome DEF Sound

LEMMA GetGlobalSound ==
  ASSUME IsSymbolTable(symtab), NEW name \in Name, NEW ty \in Type,
         NEW const \in BOOLEAN, NEW r \in GetGlobal(symtab, name, ty, const)
  PROVE  Sound(r)
<1> DEFINE symbol == [kind |-> "global", ty |-> ty, const |-> const, body |-> NoNode]
<1>1. symbol \in Symbol
  BY DEF Symbol
<1> HIDE DEF symbol
<1>2. PICK matches \in BOOLEAN : r \in GetOrAdd(symtab, name, symbol, matches)
  BY DEF GetGlobal, symbol
<1> QED BY <1>1, <1>2, GetOrAddOutcome DEF Sound

LEMMA GetHugrFuncSound ==
  ASSUME hugr \in Hugrs, IsSymbolTable(symtab), NEW n \in Node,
         NEW r \in GetHugrFunc(n), r.ok
  PROVE  /\ r \in GetFunc(symtab, Mangled(hugr, n), hugr.sig[n])
         /\ Sound(r)
<1>1. r \in GetFunc(symtab, Mangled(hugr, n), hugr.sig[n])
  BY DEF GetHugrFunc, Failure
<1>2. Mangled(hugr, n) \in Name /\ hugr.sig[n] \in Type
  BY HugrTypes DEF Hugr
<1> QED BY <1>1, <1>2, GetFuncSound

-----------------------------------------------------------------------------
(* TypeOK                                                                  *)

\* The one place where symbols, references and pending change together.
LEMMA SettleKeepsTypes ==
  ASSUME TypeOK, phase = "body", NEW i \in pending, NEW outcomes,
         \A r \in outcomes : r.ok => Sound(r),
         Settle(i, outcomes)
  PROVE  TypeOK'
<1>1. PICK r \in outcomes :
        IF r.ok
        THEN /\ symtab' = r.tab
             /\ refs' = refs \cup {[from |-> current, ix |-> i, val |-> r.val]}
             /\ pending' = pending \ {i}
             /\ UNCHANGED <<todo, callVars, phase>>
        ELSE Fail
  BY DEF Settle
<1>2. CASE r.ok
  <2>1. Sound(r)
    BY <1>2
  <2>2. IsSymbolTable(symtab')
    BY <1>1, <1>2, <2>1 DEF Sound
  <2>3. current \in Node /\ i \in Nat
    BY DEF TypeOK, FuncDefns
  <2>4. refs' \subseteq [from : Node, ix : Nat, val : Name]
    BY <1>1, <1>2, <2>1, <2>3 DEF TypeOK, Sound
  <2> QED BY <1>1, <1>2, <2>2, <2>4 DEF TypeOK, callVars, IsSymbolTable
<1>3. CASE ~r.ok
  BY <1>1, <1>3 DEF Fail, bodyVars, callVars, TypeOK, Phase, IsSymbolTable
<1> QED BY <1>2, <1>3

\* The emitter's bookkeeping is always well typed: only FuncDefns are ever on
\* the worklist (the panic in emit_func is unreachable) and a body is being
\* emitted only for a FuncDefn that is marked as emitted.
THEOREM TypeCorrect == Spec => []TypeOK
<1>1. Init => TypeOK
  BY HugrAssumption, ModuleAssumption DEF Init, TypeOK, IsSymbolTable, Name, Phase
<1>2. ASSUME TypeOK, [Next]_vars PROVE TypeOK'
  <2> USE <1>2
  <2>0. /\ hugr \in Hugrs /\ IsSymbolTable(symtab)
        /\ phase = "body" => current \in Node
    BY DEF TypeOK, FuncDefns
  <2>1. ASSUME NEW n \in Node, CallEmitFunc(n) PROVE TypeOK'
    BY <2>1 DEF CallEmitFunc, bodyVars, TypeOK, Phase, IsSymbolTable
  <2>2. CASE CallEmitModule
    BY <2>2 DEF CallEmitModule, bodyVars, TypeOK, Phase, IsSymbolTable, TopFuncDefns
  <2>3. CASE Finish
    BY <2>3 DEF Finish, bodyVars, callVars, TypeOK, Phase, IsSymbolTable
  <2>4. CASE EmitModuleChild
    <3>1. hugr.top[cursor] \in Node
      <4>1. hugr.top \in Seq(Node)
        BY <2>0, HugrTypes DEF Hugr
      <4> QED BY <2>4, <4>1 DEF EmitModuleChild
    <3>2. cursor + 1 \in Nat
      BY DEF TypeOK
    <3> QED BY <2>4, <3>1, <3>2
            DEF EmitModuleChild, Fail, bodyVars, callVars, TypeOK, Phase,
                IsSymbolTable, FuncDefns
  <2>5. CASE EmitModuleReturns
    BY <2>5 DEF EmitModuleReturns, bodyVars, TypeOK, Phase, IsSymbolTable
  <2>6. CASE EmitFuncReturns
    BY <2>6 DEF EmitFuncReturns, bodyVars, callVars, TypeOK, Phase, IsSymbolTable
  <2>7. ASSUME NEW n \in worklist, SkipEmitted(n) PROVE TypeOK'
    BY <2>7 DEF SkipEmitted, bodyVars, TypeOK, Phase, IsSymbolTable
  <2>8. ASSUME NEW n \in worklist, BeginFunc(n) PROVE TypeOK'
    <3>1. n \in FuncDefns(hugr) /\ n \in Node
      BY DEF TypeOK, FuncDefns
    <3>2. PICK r \in GetHugrFunc(n) :
            IF r.ok /\ r.tab[r.val].body = NoNode
            THEN /\ emitted' = emitted \cup {n}
                 /\ worklist' = worklist \ {n}
                 /\ symtab' = [r.tab EXCEPT ![r.val].body = n]
                 /\ current' = n
                 /\ pending' = DOMAIN hugr.body[n]
                 /\ todo' = {}
                 /\ phase' = "body"
                 /\ UNCHANGED <<hugr, given, refs, cursor, requested>>
            ELSE Fail
      BY <2>8 DEF BeginFunc
    <3>3. CASE r.ok /\ r.tab[r.val].body = NoNode
      <4>1. Sound(r)
        BY <2>0, <3>1, <3>3, GetHugrFuncSound
      <4>2. IsSymbolTable(symtab')
        <5>1. r.tab \in [DOMAIN r.tab -> Symbol]
          BY <4>1 DEF Sound, IsSymbolTable
        <5>2. [r.tab[r.val] EXCEPT !.body = n] \in Symbol
          BY <3>1, <4>1, <5>1 DEF Sound, Symbol
        <5>3. symtab' = [r.tab EXCEPT ![r.val] = [r.tab[r.val] EXCEPT !.body = n]]
          BY <3>2, <3>3
        <5> QED BY <4>1, <5>1, <5>2, <5>3 DEF Sound, IsSymbolTable
      <4>3. DOMAIN hugr.body[n] \subseteq Nat
        BY <2>0, <3>1, HugrTypes
      <4> QED BY <3>1, <3>2, <3>3, <4>2, <4>3 DEF TypeOK, Phase
    <3>4. CASE ~(r.ok /\ r.tab[r.val].body = NoNode)
      BY <3>2, <3>4 DEF Fail, bodyVars, callVars, TypeOK, Phase, IsSymbolTable
    <3> QED BY <3>3, <3>4
  <2>9. ASSUME NEW i \in pending, phase = "body"
        PROVE  /\ hugr.body[current][i] \in Item
               /\ hugr.body[current][i].op = "nested"
                    => hugr.body[current][i].node \in FuncDefns(hugr)
    <3>1. i \in DOMAIN hugr.body[current]
      BY <2>9 DEF TypeOK
    <3> QED BY <2>0, <2>9, <3>1, HugrTypes
  <2>10. ASSUME NEW i \in pending, EmitRef(i) PROVE TypeOK'
    <3> DEFINE item == hugr.body[current][i]
    <3>1. phase = "body" /\ item.op = "ref"
      BY <2>10 DEF EmitRef
    <3>2. item.node \in Node
      BY <2>9, <3>1, ItemTypes
    <3>3. \A r \in GetHugrFunc(item.node) : r.ok => Sound(r)
      BY <2>0, <3>2, GetHugrFuncSound
    <3>4. CASE Settle(i, GetHugrFunc(item.node))
      BY <3>1, <3>3, <3>4, SettleKeepsTypes
    <3>5. CASE Fail
      BY <3>5 DEF Fail, bodyVars, callVars, TypeOK, Phase, IsSymbolTable
    <3> QED BY <2>10, <3>4, <3>5 DEF EmitRef
  <2>11. ASSUME NEW i \in pending, EmitExtern(i) PROVE TypeOK'
    <3> DEFINE item == hugr.body[current][i]
    <3>1. phase = "body" /\ item.op = "extern"
      BY <2>11 DEF EmitExtern
    <3>2. item.sym \in Name /\ item.ty \in Type
      BY <2>9, <3>1, ItemTypes
    <3>3. \A r \in GetFunc(symtab, item.sym, item.ty) : r.ok => Sound(r)
      BY <2>0, <3>2, GetFuncSound
    <3> QED BY <2>11, <3>1, <3>3, SettleKeepsTypes DEF EmitExtern
  <2>12. ASSUME NEW i \in pending, EmitGlobal(i) PROVE TypeOK'
    <3> DEFINE item == hugr.body[current][i]
    <3>1. phase = "body" /\ item.op = "global"
      BY <2>12 DEF EmitGlobal
    <3>2. item.sym \in Name /\ item.ty \in Type /\ item.const \in BOOLEAN
      BY <2>9, <3>1, ItemTypes
    <3>3. \A r \in GetGlobal(symtab, item.sym, item.ty, item.const) : r.ok => Sound(r)
      BY <2>0, <3>2, GetGlobalSound
    <3> QED BY <2>12, <3>1, <3>3, SettleKeepsTypes DEF EmitGlobal
  <2>13. ASSUME NEW i \in pending, EmitNested(i) PROVE TypeOK'
    <3>1. hugr.body[current][i].node \in FuncDefns(hugr)
      BY <2>9, <2>13 DEF EmitNested
    <3> QED BY <2>13, <3>1 DEF EmitNested, callVars, TypeOK, Phase, IsSymbolTable
  <2>14. ASSUME NEW i \in pending, EmitUnsupported(i) PROVE TypeOK'
    BY <2>14 DEF EmitUnsupported, Fail, bodyVars, callVars, TypeOK, Phase, IsSymbolTable
  <2>15. CASE FinishFunc
    BY <2>15 DEF FinishFunc, TypeOK, Phase, IsSymbolTable
  <2>16. CASE UNCHANGED vars
    BY <2>16 DEF vars, TypeOK, Phase, IsSymbolTable
  <2> QED
    BY <2>1, <2>2, <2>3, <2>4, <2>5, <2>6, <2>7, <2>8, <2>10, <2>11, <2>12,
       <2>13, <2>14, <2>15, <2>16
    DEF Next, Progress, EmitItem, Stop
<1> QED BY <1>1, <1>2, PTL DEF Spec

-----------------------------------------------------------------------------
(* Calls reach their target                                                *)

\* The names functions and globals are asked for by.
LEMMA AskedFor ==
  ASSUME hugr \in Hugrs, NEW n \in Node, NEW i \in DOMAIN hugr.body[n]
  PROVE  LET item == hugr.body[n][i] IN
         /\ item.op = "ref" /\ hugr.kind[item.node] \in {"FuncDefn", "FuncDecl"}
              => Mangled(hugr, item.node) \in FuncNames(hugr, given)
         /\ item.op = "extern" => item.sym \in FuncNames(hugr, given)
         /\ item.op = "global" => item.sym \in GlobalNames(hugr, given)
<1> DEFINE item == hugr.body[n][i]
<1>1. item \in Item /\ item \in ItemsOf(hugr, n)
  BY HugrTypes DEF ItemsOf
<1>2. item.op = "ref" => item.node \in Node
  BY <1>1, ItemTypes
<1>3. item \in UNION {ItemsOf(hugr, m) : m \in Node}
  BY <1>1
<1>4. ASSUME NEW op, item.op = op PROVE item.sym \in SymsOf(hugr, op)
  BY <1>3, <1>4 DEF SymsOf
<1>5. item.op = "extern" => item.sym \in SymsOf(hugr, "extern")
  BY <1>4
<1>6. item.op = "global" => item.sym \in SymsOf(hugr, "global")
  BY <1>4
<1> QED BY <1>2, <1>5, <1>6 DEF FuncNames, GlobalNames, Functions

\* Filed(tab): every symbol of tab is where its kind says.
Filed(tab) == \A s \in DOMAIN tab :
    s \in (IF tab[s].kind = "func" THEN FuncNames(hugr, given) ELSE GlobalNames(hugr, given))

\* The table of r has the symbol name more, without a body, or no symbol more.
AddsAtMost(r, name) ==
    /\ DOMAIN r.tab = DOMAIN symtab \cup {name}
    /\ name \notin DOMAIN symtab => r.tab[name].body = NoNode

\* While kinds are apart, a lookup hands out the very name it was given.
LEMMA FuncFiled ==
  ASSUME KindsApart(hugr, given), IsSymbolTable(symtab), Filed(symtab),
         NEW name \in FuncNames(hugr, given) \cap Name, NEW ty \in Type,
         NEW r \in GetFunc(symtab, name, ty)
  PROVE  r.val = name /\ Filed(r.tab) /\ AddsAtMost(r, name)
<1> DEFINE symbol == [kind |-> "func", ty |-> ty, const |-> FALSE, body |-> NoNode]
<1>1. PICK matches : r \in GetOrAdd(symtab, name, symbol, matches)
  BY DEF GetFunc
<1>2. name \in DOMAIN symtab => symtab[name].kind = symbol.kind
  BY DEF KindsApart, Filed
<1>3. /\ r.val = name /\ DOMAIN r.tab = DOMAIN symtab \cup {name}
      /\ r.tab[name].kind = symbol.kind
      /\ name \notin DOMAIN symtab => r.tab[name] = symbol
  <2> HIDE DEF symbol
  <2> QED BY <1>1, <1>2, GetOrAddKeepsName
<1>4. Sound(r)
  BY GetFuncSound
<1> QED BY <1>3, <1>4 DEF Sound, Filed, AddsAtMost

LEMMA GlobalFiled ==
  ASSUME KindsApart(hugr, given), IsSymbolTable(symtab), Filed(symtab),
         NEW name \in GlobalNames(hugr, given) \cap Name, NEW ty \in Type,
         NEW const \in BOOLEAN, NEW r \in GetGlobal(symtab, name, ty, const)
  PROVE  r.val = name /\ Filed(r.tab) /\ AddsAtMost(r, name)
<1> DEFINE symbol == [kind |-> "global", ty |-> ty, const |-> const, body |-> NoNode]
<1>1. PICK matches : r \in GetOrAdd(symtab, name, symbol, matches)
  BY DEF GetGlobal
<1>2. name \in DOMAIN symtab => symtab[name].kind = symbol.kind
  <2>1. ASSUME name \in DOMAIN symtab PROVE symtab[name].kind \in {"func", "global"}
    BY <2>1 DEF IsSymbolTable, Symbol
  <2> QED BY <2>1 DEF KindsApart, Filed
<1>3. /\ r.val = name /\ DOMAIN r.tab = DOMAIN symtab \cup {name}
      /\ r.tab[name].kind = symbol.kind
      /\ name \notin DOMAIN symtab => r.tab[name] = symbol
  <2> HIDE DEF symbol
  <2> QED BY <1>1, <1>2, GetOrAddKeepsName
<1>4. Sound(r)
  BY GetGlobalSound
<1> QED BY <1>3, <1>4 DEF Sound, Filed, AddsAtMost

\* A settled operation adds a reference; for a Call it must carry the name.
LEMMA SettleKeepsLinked ==
  ASSUME TypeOK, Linked, phase = "body", NEW i \in pending, NEW outcomes,
         KindsApart(hugr, given) =>
           \A r \in outcomes : r.ok =>
             /\ Sound(r) /\ Filed(r.tab)
             /\ hugr.body[current][i].op = "ref"
                  => r.val = Mangled(hugr, hugr.body[current][i].node),
         Settle(i, outcomes)
  PROVE  Linked'
<1>1. PICK r \in outcomes :
        IF r.ok
        THEN /\ symtab' = r.tab
             /\ refs' = refs \cup {[from |-> current, ix |-> i, val |-> r.val]}
             /\ pending' = pending \ {i}
             /\ UNCHANGED <<todo, callVars, phase>>
        ELSE Fail
  BY DEF Settle
<1>2. CASE r.ok
  <2> SUFFICES ASSUME KindsApart(hugr, given)
               PROVE  /\ Filed(r.tab)
                      /\ \A q \in refs' :
                           LET item == hugr.body[q.from][q.ix] IN
                             item.op = "ref" => q.val = Mangled(hugr, item.node)
                      /\ \A n \in emitted :
                           /\ Mangled(hugr, n) \in DOMAIN r.tab
                           /\ r.tab[Mangled(hugr, n)].body = n
    BY <1>1, <1>2 DEF Linked, Filed, callVars, ItemOf
  <2>1. Sound(r) /\ Filed(r.tab)
    BY <1>2
  <2>2. \A q \in refs :
          LET item == hugr.body[q.from][q.ix] IN
            item.op = "ref" => q.val = Mangled(hugr, item.node)
    BY DEF Linked, ItemOf
  <2>3. \A q \in refs' :
          LET item == hugr.body[q.from][q.ix] IN
            item.op = "ref" => q.val = Mangled(hugr, item.node)
    BY <1>1, <1>2, <2>2
  <2>4. ASSUME NEW n \in emitted
        PROVE  /\ Mangled(hugr, n) \in DOMAIN r.tab
               /\ r.tab[Mangled(hugr, n)].body = n
    BY <2>1 DEF Linked, Sound
  <2> QED BY <2>1, <2>3, <2>4
<1>3. CASE ~r.ok
  BY <1>1, <1>3 DEF Fail, bodyVars, callVars, Linked, ItemOf
<1> QED BY <1>2, <1>3

\* Nothing that Linked speaks of has changed.
LEMMA LinkedStutters ==
  ASSUME Linked, UNCHANGED <<hugr, given, symtab, refs, emitted>>
  PROVE  Linked'
BY DEF Linked, ItemOf

\* Linked is preserved by every step; with it, references agree with bodies.
THEOREM LinkedAlways == Spec => []Linked
<1>1. Init => Linked
  <2> SUFFICES ASSUME Init, NEW s \in DOMAIN symtab
               PROVE  s \in (IF symtab[s].kind = "func" THEN FuncNames(hugr, given)
                             ELSE GlobalNames(hugr, given))
    BY DEF Init, Linked
  <2>1. symtab[s].kind \in {"func", "global"}
    BY ModuleAssumption DEF Init, IsSymbolTable, Symbol
  <2> QED BY <2>1 DEF Init, FuncNames, GlobalNames, GivenNames
<1>2. ASSUME TypeOK, Linked, [Next]_vars PROVE Linked'
  <2> USE <1>2
  <2>0. /\ hugr \in Hugrs /\ IsSymbolTable(symtab)
        /\ phase = "body" => current \in Node
        /\ KindsApart(hugr, given) => Filed(symtab)
    BY DEF TypeOK, FuncDefns, Linked, Filed
  <2>1. ASSUME NEW i \in pending, phase = "body"
        PROVE  i \in DOMAIN hugr.body[current] /\ hugr.body[current][i] \in Item
    <3>1. i \in DOMAIN hugr.body[current]
      BY <2>1 DEF TypeOK
    <3> QED BY <2>0, <2>1, <3>1, HugrTypes
  <2>2. ASSUME NEW n \in worklist, BeginFunc(n) PROVE Linked'
    <3>1. n \in FuncDefns(hugr) /\ n \in Node
      BY DEF TypeOK, FuncDefns
    <3>2. PICK r \in GetHugrFunc(n) :
            IF r.ok /\ r.tab[r.val].body = NoNode
            THEN /\ emitted' = emitted \cup {n}
                 /\ symtab' = [r.tab EXCEPT ![r.val].body = n]
                 /\ UNCHANGED <<hugr, given, refs>>
            ELSE Fail
      BY <2>2 DEF BeginFunc
    <3>3. CASE r.ok /\ r.tab[r.val].body = NoNode
      <4> SUFFICES ASSUME KindsApart(hugr, given)
                   PROVE  /\ Filed(symtab')
                          /\ \A m \in emitted \cup {n} :
                               /\ Mangled(hugr, m) \in DOMAIN symtab'
                               /\ symtab'[Mangled(hugr, m)].body = m
        BY <3>2, <3>3 DEF Linked, Filed, ItemOf
      <4>1. /\ r \in GetFunc(symtab, Mangled(hugr, n), hugr.sig[n])
            /\ Sound(r)
        BY <2>0, <3>1, <3>3, GetHugrFuncSound
      <4>2. /\ Mangled(hugr, n) \in FuncNames(hugr, given) \cap Name
            /\ hugr.sig[n] \in Type
        BY <2>0, <3>1, HugrTypes DEF FuncNames, Functions, FuncDefns, Hugr
      <4>3. r.val = Mangled(hugr, n) /\ Filed(r.tab)
        BY <2>0, <4>1, <4>2, FuncFiled
      <4>4. r.tab \in [DOMAIN r.tab -> Symbol]
        BY <4>1 DEF Sound, IsSymbolTable
      <4>5. /\ DOMAIN symtab' = DOMAIN r.tab
            /\ symtab'[r.val].body = n
            /\ \A s \in DOMAIN r.tab :
                 /\ symtab'[s].kind = r.tab[s].kind
                 /\ s # r.val => symtab'[s] = r.tab[s]
        BY <3>2, <3>3, <4>1, <4>4 DEF Sound, Symbol
      <4>6. Filed(symtab')
        BY <4>3, <4>5 DEF Filed
      <4>7. ASSUME NEW m \in emitted
            PROVE  /\ Mangled(hugr, m) \in DOMAIN symtab'
                   /\ symtab'[Mangled(hugr, m)].body = m
        <5>1. /\ Mangled(hugr, m) \in DOMAIN symtab
              /\ symtab[Mangled(hugr, m)].body = m
          BY DEF Linked
        <5>2. m # NoNode
          BY NodeAssumption DEF TypeOK, FuncDefns
        <5>3. /\ Mangled(hugr, m) \in DOMAIN r.tab
              /\ r.tab[Mangled(hugr, m)].body = m
          BY <4>1, <5>1 DEF Sound
        <5>4. Mangled(hugr, m) # r.val
          BY <3>3, <5>2, <5>3
        <5> QED BY <4>5, <5>3, <5>4
      <4> QED BY <4>1, <4>3, <4>5, <4>6, <4>7 DEF Sound
    <3>4. CASE ~(r.ok /\ r.tab[r.val].body = NoNode)
      BY <3>2, <3>4, LinkedStutters DEF Fail, bodyVars, callVars
    <3> QED BY <3>3, <3>4
  <2>3. ASSUME NEW i \in pending, EmitRef(i) PROVE Linked'
    <3> DEFINE item == hugr.body[current][i]
    <3>1. phase = "body" /\ item.op = "ref"
      BY <2>3 DEF EmitRef
    <3>2. CASE Fail
      BY <3>2, LinkedStutters DEF Fail, bodyVars, callVars
    <3>3. CASE /\ hugr.kind[item.node] \in {"FuncDefn", "FuncDecl"}
               /\ Settle(i, GetHugrFunc(item.node))
      <4>1. item.node \in Node
        BY <2>1, <3>1, ItemTypes
      <4>2. /\ Mangled(hugr, item.node) \in FuncNames(hugr, given) \cap Name
            /\ hugr.sig[item.node] \in Type
        BY <2>0, <2>1, <3>1, <3>3, <4>1, AskedFor, HugrTypes DEF Hugr
      <4>3. ASSUME KindsApart(hugr, given), NEW r \in GetHugrFunc(item.node), r.ok
            PROVE  Sound(r) /\ Filed(r.tab) /\ r.val = Mangled(hugr, item.node)
        <5>1. /\ r \in GetFunc(symtab, Mangled(hugr, item.node), hugr.sig[item.node])
              /\ Sound(r)
          BY <2>0, <4>1, <4>3, GetHugrFuncSound
        <5> QED BY <2>0, <4>2, <4>3, <5>1, FuncFiled
      <4> QED BY <3>1, <3>3, <4>3, SettleKeepsLinked
    <3> QED BY <2>3, <3>2, <3>3 DEF EmitRef
  <2>4. ASSUME NEW i \in pending, EmitExtern(i) PROVE Linked'
    <3> DEFINE item == hugr.body[current][i]
    <3>1. /\ phase = "body" /\ item.op = "extern"
          /\ Settle(i, GetFunc(symtab, item.sym, item.ty))
      BY <2>4 DEF EmitExtern
    <3>2. item.sym \in FuncNames(hugr, given) \cap Name /\ item.ty \in Type
      BY <2>0, <2>1, <3>1, AskedFor, ItemTypes
    <3>3. ASSUME KindsApart(hugr, given), NEW r \in GetFunc(symtab, item.sym, item.ty)
          PROVE  Sound(r) /\ Filed(r.tab)
      BY <2>0, <3>2, <3>3, FuncFiled, GetFuncSound
    <3>4. item.op # "ref"
      BY <3>1
    <3> QED BY <3>1, <3>3, <3>4, SettleKeepsLinked
  <2>5. ASSUME NEW i \in pending, EmitGlobal(i) PROVE Linked'
    <3> DEFINE item == hugr.body[current][i]
    <3>1. /\ phase = "body" /\ item.op = "global"
          /\ Settle(i, GetGlobal(symtab, item.sym, item.ty, item.const))
      BY <2>5 DEF EmitGlobal
    <3>2. /\ item.sym \in GlobalNames(hugr, given) \cap Name
          /\ item.ty \in Type /\ item.const \in BOOLEAN
      BY <2>0, <2>1, <3>1, AskedFor, ItemTypes
    <3>3. ASSUME KindsApart(hugr, given),
                 NEW r \in GetGlobal(symtab, item.sym, item.ty, item.const)
          PROVE  Sound(r) /\ Filed(r.tab)
      BY <2>0, <3>2, <3>3, GlobalFiled, GetGlobalSound
    <3>4. item.op # "ref"
      BY <3>1
    <3> QED BY <3>1, <3>3, <3>4, SettleKeepsLinked
  <2>6. CASE \/ \E n \in Node : CallEmitFunc(n)
             \/ CallEmitModule \/ Finish \/ EmitModuleChild \/ EmitModuleReturns
             \/ EmitFuncReturns \/ (\E n \in worklist : SkipEmitted(n))
             \/ (\E i \in pending : EmitNested(i) \/ EmitUnsupported(i))
             \/ FinishFunc \/ UNCHANGED vars
    <3>1. UNCHANGED <<hugr, given, symtab, refs, emitted>>
      BY <2>6 DEF CallEmitFunc, CallEmitModule, Finish, EmitModuleChild,
                  EmitModuleReturns, EmitFuncReturns, SkipEmitted, EmitNested,
                  EmitUnsupported, FinishFunc, Fail, bodyVars, callVars, vars
    <3> QED BY <3>1, LinkedStutters
  <2> QED BY <2>2, <2>3, <2>4, <2>5, <2>6 DEF Next, Progress, EmitItem, Stop
<1> QED BY <1>1, <1>2, TypeCorrect, PTL DEF Spec

\* For any HUGRs, given modules and namers: a reference to a
\* FuncDefn that has been emitted is a reference to the function that holds its
\* body, provided no symbol is a function for one and a global for another.
THEOREM CallsLinked == Spec => []CallsReachTheirTarget
<1>1. Linked => CallsReachTheirTarget
  BY DEF Linked, CallsReachTheirTarget
<1> QED BY <1>1, LinkedAlways, PTL

-----------------------------------------------------------------------------
(* Symbols are stable                                                      *)

\* One step of SymbolsAreStable.
Stable == \A s \in DOMAIN symtab :
    /\ s \in DOMAIN symtab'
    /\ symtab'[s].kind = symtab[s].kind
    /\ symtab'[s].ty = symtab[s].ty
    /\ symtab'[s].const = symtab[s].const
    /\ symtab[s].body # NoNode => symtab'[s].body = symtab[s].body

LEMMA SettleIsStable ==
  ASSUME NEW i, NEW outcomes, \A r \in outcomes : r.ok => Sound(r),
         Settle(i, outcomes)
  PROVE  Stable
BY DEF Settle, Sound, Stable, Fail, bodyVars

\* For any HUGRs, given modules and namers: a value handed out by
\* a lookup, or there before, is never retyped, dropped or given a second body.
THEOREM SymbolsStable == Spec => SymbolsAreStable
<1>1. ASSUME TypeOK, Next PROVE Stable
  <2> USE <1>1
  <2>0. /\ hugr \in Hugrs /\ IsSymbolTable(symtab)
        /\ phase = "body" => current \in Node
    BY DEF TypeOK, FuncDefns
  <2>1. ASSUME NEW i \in pending, phase = "body"
        PROVE  hugr.body[current][i] \in Item
    <3>1. i \in DOMAIN hugr.body[current]
      BY <2>1 DEF TypeOK
    <3> QED BY <2>0, <2>1, <3>1, HugrTypes
  <2>2. CASE UNCHANGED symtab
    BY <2>2 DEF Stable
  <2>3. ASSUME NEW n \in worklist, BeginFunc(n) PROVE Stable
    <3>1. n \in Node
      BY DEF TypeOK, FuncDefns
    <3>2. PICK r \in GetHugrFunc(n) :
            IF r.ok /\ r.tab[r.val].body = NoNode
            THEN symtab' = [r.tab EXCEPT ![r.val].body = n]
            ELSE Fail
      BY <2>3 DEF BeginFunc
    <3>3. CASE r.ok /\ r.tab[r.val].body = NoNode
      <4>1. Sound(r)
        BY <2>0, <3>1, <3>3, GetHugrFuncSound
      <4>2. r.tab \in [DOMAIN r.tab -> Symbol]
        BY <4>1 DEF Sound, IsSymbolTable
      <4> QED BY <3>2, <3>3, <4>1, <4>2 DEF Sound, Symbol, Stable
    <3>4. CASE ~(r.ok /\ r.tab[r.val].body = NoNode)
      BY <2>2, <3>2, <3>4 DEF Fail, bodyVars
    <3> QED BY <3>3, <3>4
  <2>4. ASSUME NEW i \in pending, EmitRef(i) PROVE Stable
    <3> DEFINE item == hugr.body[current][i]
    <3>1. phase = "body" /\ item.op = "ref"
      BY <2>4 DEF EmitRef
    <3>2. item.node \in Node
      BY <2>1, <3>1, ItemTypes
    <3>3. \A r \in GetHugrFunc(item.node) : r.ok => Sound(r)
      BY <2>0, <3>2, GetHugrFuncSound
    <3>4. CASE Settle(i, GetHugrFunc(item.node))
      BY <3>3, <3>4, SettleIsStable
    <3>5. CASE Fail
      BY <2>2, <3>5 DEF Fail, bodyVars
    <3> QED BY <2>4, <3>4, <3>5 DEF EmitRef
  <2>5. ASSUME NEW i \in pending, EmitExtern(i) PROVE Stable
    <3> DEFINE item == hugr.body[current][i]
    <3>1. /\ phase = "body" /\ item.op = "extern"
          /\ Settle(i, GetFunc(symtab, item.sym, item.ty))
      BY <2>5 DEF EmitExtern
    <3>2. \A r \in GetFunc(symtab, item.sym, item.ty) : Sound(r)
      BY <2>0, <2>1, <3>1, ItemTypes, GetFuncSound
    <3> QED BY <3>1, <3>2, SettleIsStable
  <2>6. ASSUME NEW i \in pending, EmitGlobal(i) PROVE Stable
    <3> DEFINE item == hugr.body[current][i]
    <3>1. /\ phase = "body" /\ item.op = "global"
          /\ Settle(i, GetGlobal(symtab, item.sym, item.ty, item.const))
      BY <2>6 DEF EmitGlobal
    <3>2. \A r \in GetGlobal(symtab, item.sym, item.ty, item.const) : Sound(r)
      BY <2>0, <2>1, <3>1, ItemTypes, GetGlobalSound
    <3> QED BY <3>1, <3>2, SettleIsStable
  <2>7. CASE \/ \E n \in Node : CallEmitFunc(n)
             \/ CallEmitModule \/ Finish \/ EmitModuleChild \/ EmitModuleReturns
             \/ EmitFuncReturns \/ (\E n \in worklist : SkipEmitted(n))
             \/ (\E i \in pending : EmitNested(i) \/ EmitUnsupported(i))
             \/ FinishFunc \/ UNCHANGED vars
    <3>1. UNCHANGED symtab
      BY <2>7 DEF CallEmitFunc, CallEmitModule, Finish, EmitModuleChild,
                  EmitModuleReturns, EmitFuncReturns, SkipEmitted, EmitNested,
                  EmitUnsupported, FinishFunc, Fail, bodyVars, callVars, vars
    <3> QED BY <2>2, <3>1
  <2> QED BY <2>3, <2>4, <2>5, <2>6, <2>7 DEF Next, Progress, EmitItem, Stop
<1>2. TypeOK /\ [Next]_vars => [Stable]_vars
  BY <1>1
<1>3. Spec => [][Stable]_vars
  BY <1>2, TypeCorrect, PTL DEF Spec
<1> QED BY <1>3 DEF SymbolsAreStable, Stable

-----------------------------------------------------------------------------
(* The contract                                                            *)

LEMMA SettleKeepsCovered ==
  ASSUME TypeOK, Covered, phase = "body", NEW i \in pending, NEW outcomes,
         hugr.body[current][i].op # "nested",
         Settle(i, outcomes)
  PROVE  Covered'
<1>1. CASE Fail
  BY <1>1 DEF Fail, Covered
<1>2. CASE /\ pending' = pending \ {i}
           /\ UNCHANGED <<todo, callVars, phase>>
  <2>1. StillToEmit' = StillToEmit /\ StillToVisit' = StillToVisit
    BY <1>2 DEF StillToEmit, StillToVisit, callVars
  <2> QED BY <1>2, <2>1 DEF Covered, callVars
<1> QED BY <1>1, <1>2 DEF Settle

\* Nothing that is owed is ever dropped, and nothing else is taken on.
THEOREM CoveredAlways == Spec => []Covered
<1>1. Init => Covered
  BY DEF Init, Covered
<1>2. ASSUME TypeOK, Covered, [Next]_vars PROVE Covered'
  <2> USE <1>2
  <2>0. CASE Fail
    BY <2>0 DEF Fail, Covered
  <2>1. ASSUME NEW n \in Node, CallEmitFunc(n) PROVE Covered'
    <3>1. worklist' = {n} /\ requested' = requested \cup {n} /\ phase' = "worklist"
      BY <2>1 DEF CallEmitFunc
    <3>2. /\ UNCHANGED <<todo, pending, hugr, emitted, current, cursor>>
          /\ phase = "idle" /\ worklist = {}
      BY <2>1 DEF CallEmitFunc, bodyVars, Covered
    <3>3. StillToVisit' = StillToVisit /\ StillToEmit = {}
      BY <3>2 DEF StillToVisit, StillToEmit
    <3> QED BY <3>1, <3>2, <3>3 DEF Covered
  <2>2. CASE CallEmitModule
    <3>1. /\ cursor' = 1 /\ requested' = requested \cup TopFuncDefns(hugr)
          /\ phase' = "module" /\ phase = "idle" /\ cursor = 0
          /\ UNCHANGED <<todo, pending, hugr, emitted, worklist, current>>
      BY <2>2 DEF CallEmitModule, bodyVars, Covered
    <3>2. hugr.top \in Seq(Node)
      BY HugrTypes DEF TypeOK, Hugr
    <3>3. StillToVisit' = {hugr.top[j] : j \in DOMAIN hugr.top} /\ StillToVisit = {}
      BY <3>1, <3>2 DEF StillToVisit
    <3>4. TopFuncDefns(hugr) \subseteq {hugr.top[j] : j \in DOMAIN hugr.top}
      BY DEF TopFuncDefns
    <3>5. StillToEmit = {} /\ StillToEmit' = {}
      BY <3>1 DEF StillToEmit
    <3> QED BY <3>1, <3>3, <3>4, <3>5 DEF Covered
  <2>3. CASE Finish
    <3>1. /\ phase = "idle" /\ phase' = "finished"
          /\ UNCHANGED <<todo, pending, callVars>>
      BY <2>3 DEF Finish, bodyVars
    <3>2. StillToVisit' = StillToVisit /\ StillToEmit = {} /\ StillToEmit' = {}
      BY <3>1 DEF StillToVisit, StillToEmit, callVars
    <3> QED BY <3>1, <3>2 DEF Covered, callVars
  <2>4. CASE EmitModuleChild
    <3> DEFINE child == hugr.top[cursor]
    <3>1. /\ phase = "module" /\ cursor \in DOMAIN hugr.top
          /\ worklist = {} /\ todo = {} /\ pending = {}
      BY <2>4 DEF EmitModuleChild, Covered
    <3>2. hugr.top \in Seq(Node)
      BY HugrTypes DEF TypeOK, Hugr
    <3>3. ASSUME cursor' = cursor + 1, UNCHANGED hugr
          PROVE  StillToVisit \subseteq {child} \cup StillToVisit'
      BY <3>1, <3>2, <3>3 DEF StillToVisit
    <3>4. CASE /\ hugr.kind[child] = "FuncDefn"
               /\ worklist' = {child} /\ cursor' = cursor + 1
               /\ phase' = "worklist"
               /\ UNCHANGED <<bodyVars, hugr, given, emitted, current, requested>>
      <4>1. child \in StillToVisit
        BY <3>1, <3>2 DEF StillToVisit
      <4>2. child \in Node
        BY <3>1, <3>2
      <4>3. child \in requested \cup UNION {NestedIn(hugr, m) : m \in emitted}
        <5>1. child \in TopFuncDefns(hugr)
          BY <3>1, <3>4, <4>2 DEF TopFuncDefns, FuncDefns
        <5>2. cursor > 0
          BY <3>1 DEF Covered
        <5> QED BY <3>1, <5>1, <5>2 DEF Covered
      <4> QED BY <3>1, <3>3, <3>4, <4>3 DEF Covered, bodyVars, StillToEmit
    <3>5. CASE /\ hugr.kind[child] \in {"FuncDecl", "Const"}
               /\ cursor' = cursor + 1
               /\ UNCHANGED <<bodyVars, hugr, given, emitted, worklist, current,
                              requested, phase>>
      <4>1. child \notin requested
        BY <3>5 DEF TypeOK, FuncDefns
      <4> QED BY <3>1, <3>3, <3>5, <4>1 DEF Covered, bodyVars, StillToEmit, TypeOK
    <3> QED BY <2>0, <2>4, <3>4, <3>5 DEF EmitModuleChild
  <2>5. CASE EmitModuleReturns
    <3>1. /\ phase = "module" /\ cursor \notin DOMAIN hugr.top
          /\ cursor' = 0 /\ phase' = "idle"
          /\ UNCHANGED <<todo, pending, hugr, emitted, worklist, current, requested>>
      BY <2>5 DEF EmitModuleReturns, bodyVars
    <3>2. StillToVisit = {}
      <4>1. DOMAIN hugr.top = 1..Len(hugr.top) /\ Len(hugr.top) \in Nat
        BY HugrTypes DEF TypeOK, Hugr
      <4> QED BY <3>1, <4>1 DEF StillToVisit, Covered, TypeOK
    <3>3. StillToEmit = {}
      BY <3>1 DEF StillToEmit
    <3> QED BY <3>1, <3>2, <3>3 DEF Covered
  <2>6. CASE EmitFuncReturns
    <3>1. /\ phase = "worklist" /\ worklist = {}
          /\ phase' = (IF cursor = 0 THEN "idle" ELSE "module")
          /\ UNCHANGED <<todo, pending, callVars>>
      BY <2>6 DEF EmitFuncReturns, bodyVars
    <3>2. StillToVisit' = StillToVisit /\ StillToEmit = {} /\ StillToEmit' = {}
      BY <3>1 DEF StillToVisit, StillToEmit, callVars
    <3>3. cursor \in Nat
      BY DEF TypeOK
    <3> QED BY <3>1, <3>2, <3>3 DEF Covered, callVars
  <2>7. ASSUME NEW n \in worklist, SkipEmitted(n) PROVE Covered'
    <3>1. /\ phase = "worklist" /\ n \in emitted /\ worklist' = worklist \ {n}
          /\ UNCHANGED <<todo, pending, hugr, emitted, current, cursor, requested, phase>>
      BY <2>7 DEF SkipEmitted, bodyVars
    <3>2. StillToVisit' = StillToVisit /\ StillToEmit = {} /\ StillToEmit' = {}
      BY <3>1 DEF StillToVisit, StillToEmit
    <3> QED BY <3>1, <3>2 DEF Covered
  <2>8. ASSUME NEW n \in worklist, BeginFunc(n), ~Fail PROVE Covered'
    <3>1. /\ phase = "worklist" /\ todo = {} /\ pending = {}
          /\ n \in Node
      BY <2>8 DEF BeginFunc, Covered, TypeOK, FuncDefns
    <3>2. /\ emitted' = emitted \cup {n} /\ worklist' = worklist \ {n}
          /\ current' = n /\ pending' = DOMAIN hugr.body[n]
          /\ todo' = {} /\ phase' = "body"
          /\ UNCHANGED <<hugr, cursor, requested>>
      BY <2>8 DEF BeginFunc
    <3>3. StillToVisit' = StillToVisit /\ StillToEmit = {}
      BY <3>1, <3>2 DEF StillToVisit, StillToEmit
    <3>4. NestedIn(hugr, n) \subseteq StillToEmit'
      BY <3>2 DEF NestedIn, ItemsOf, StillToEmit
    <3> QED BY <3>1, <3>2, <3>3, <3>4 DEF Covered
  <2>9. ASSUME NEW i \in pending, EmitRef(i) PROVE Covered'
    BY <2>0, <2>9, SettleKeepsCovered DEF EmitRef
  <2>10. ASSUME NEW i \in pending, EmitExtern(i) PROVE Covered'
    BY <2>10, SettleKeepsCovered DEF EmitExtern
  <2>11. ASSUME NEW i \in pending, EmitGlobal(i) PROVE Covered'
    BY <2>11, SettleKeepsCovered DEF EmitGlobal
  <2>12. ASSUME NEW i \in pending, EmitNested(i) PROVE Covered'
    <3> DEFINE m == hugr.body[current][i].node
    <3>1. /\ phase = "body" /\ hugr.body[current][i].op = "nested"
          /\ todo' = todo \cup {m} /\ pending' = pending \ {i}
          /\ UNCHANGED <<callVars, phase>>
      BY <2>12 DEF EmitNested
    <3>2. StillToVisit' = StillToVisit
      BY <3>1 DEF StillToVisit, callVars
    <3>3. StillToEmit \subseteq {m} \cup StillToEmit'
      BY <3>1 DEF StillToEmit, callVars
    <3>4. m \in NestedIn(hugr, current) /\ current \in emitted
      BY <3>1 DEF NestedIn, ItemsOf, TypeOK
    <3> QED BY <3>1, <3>2, <3>3, <3>4 DEF Covered, callVars
  <2>13. CASE FinishFunc
    <3>1. /\ phase = "body" /\ pending = {} /\ worklist' = worklist \cup todo
          /\ todo' = {} /\ phase' = "worklist"
          /\ UNCHANGED <<hugr, emitted, pending, cursor, requested>>
      BY <2>13 DEF FinishFunc
    <3>2. StillToVisit' = StillToVisit /\ StillToEmit = {}
      BY <3>1 DEF StillToVisit, StillToEmit
    <3> QED BY <3>1, <3>2 DEF Covered
  <2>14. CASE UNCHANGED vars
    BY <2>14 DEF vars, Covered, StillToVisit, StillToEmit
  <2> QED
    BY <2>0, <2>1, <2>2, <2>3, <2>4, <2>5, <2>6, <2>7, <2>8, <2>9, <2>10,
       <2>11, <2>12, <2>13, <2>14
    DEF Next, Progress, EmitItem, EmitUnsupported, Stop
<1> QED BY <1>1, <1>2, TypeCorrect, PTL DEF Spec

\* For any HUGRs, given modules and namers, EmitHugr keeps its
\* contract: a call returns Ok only once every requested FuncDefn and every FuncDefn nested in
\* a defined one is defined; each is defined once, and no other is.
THEOREM ContractKept == Spec => KeepsContract
<1>1. Init => Contract!Init
  <2> SUFFICES ASSUME Init PROVE Contract!Init
    OBVIOUS
  <2>1. \A n \in Node : NestedIn(hugr, n) \subseteq Node
    BY HugrAssumption DEF Init, FuncDefns
  <2> QED BY <2>1 DEF Init, Contract!Init
<1>2. ASSUME TypeOK, Covered, [Next]_vars
      PROVE  [Contract!Next]_(Contract!contractVars)
  <2> USE <1>2
  <2>1. ASSUME Fail, phase \in {"module", "worklist", "body"}
        PROVE  Contract!Fail
    BY <2>1 DEF Fail, callVars, Contract!Fail
  <2>2. ASSUME UNCHANGED <<hugr, requested, emitted>>,
               \/ UNCHANGED phase
               \/ /\ phase \in {"module", "worklist", "body"}
                  /\ phase' \in {"module", "worklist", "body"}
        PROVE  UNCHANGED Contract!contractVars
    BY <2>2 DEF Contract!contractVars
  <2>3. ASSUME NEW n \in Node, CallEmitFunc(n) PROVE Contract!Request
    BY <2>3 DEF CallEmitFunc, Contract!Request
  <2>4. CASE CallEmitModule
    <3>1. TopFuncDefns(hugr) \in SUBSET Node
      BY DEF TopFuncDefns, FuncDefns
    <3>2. Contract!Request
      BY <2>4, <3>1 DEF CallEmitModule, Contract!Request
    <3> QED BY <3>2 DEF Contract!Next
  <2>5. CASE Finish
    BY <2>5 DEF Finish, callVars, Contract!Next, Contract!Close
  <2>6. CASE EmitModuleChild
    <3>1. phase = "module"
      BY <2>6 DEF EmitModuleChild
    <3>2. CASE Fail
      BY <2>1, <3>1, <3>2 DEF Contract!Next
    <3>3. CASE ~Fail
      BY <2>2, <2>6, <3>1, <3>3 DEF EmitModuleChild
    <3> QED BY <3>2, <3>3
  <2>7. ASSUME worklist = {}, todo = {}, StillToVisit = {}, StillToEmit = {},
               phase \in {"module", "worklist"}, phase' = "idle",
               UNCHANGED <<hugr, requested, emitted>>
        PROVE  Contract!Return
    <3>1. requested \subseteq emitted
      BY <2>7 DEF Covered
    <3>2. \A m \in emitted : m \in Node /\ NestedIn(hugr, m) \subseteq emitted
      BY <2>7 DEF Covered, TypeOK, FuncDefns
    <3>3. Contract!Settled
      BY <3>1, <3>2 DEF Contract!Settled
    <3> QED BY <2>7, <3>3 DEF Contract!Return
  <2>8. CASE EmitModuleReturns
    <3>1. StillToVisit = {}
      <4>1. DOMAIN hugr.top = 1..Len(hugr.top) /\ Len(hugr.top) \in Nat
        BY HugrTypes DEF TypeOK, Hugr
      <4> QED BY <2>8, <4>1 DEF EmitModuleReturns, StillToVisit, Covered, TypeOK
    <3>2. /\ worklist = {} /\ todo = {} /\ StillToEmit = {}
          /\ phase = "module" /\ phase' = "idle"
          /\ UNCHANGED <<hugr, requested, emitted>>
      BY <2>8 DEF EmitModuleReturns, Covered, StillToEmit
    <3> QED BY <2>7, <3>1, <3>2 DEF Contract!Next
  <2>9. CASE EmitFuncReturns
    <3>1. /\ worklist = {} /\ todo = {} /\ StillToEmit = {}
          /\ phase = "worklist"
          /\ phase' = (IF cursor = 0 THEN "idle" ELSE "module")
          /\ UNCHANGED <<hugr, requested, emitted>>
      BY <2>9 DEF EmitFuncReturns, callVars, Covered, StillToEmit
    <3>2. CASE cursor = 0
      BY <2>7, <3>1, <3>2 DEF StillToVisit, Contract!Next
    <3>3. CASE cursor # 0
      BY <2>2, <3>1, <3>3
    <3> QED BY <3>2, <3>3
  <2>10. ASSUME NEW n \in worklist, SkipEmitted(n)
         PROVE  UNCHANGED Contract!contractVars
    BY <2>2, <2>10 DEF SkipEmitted
  <2>11. ASSUME NEW n \in worklist, BeginFunc(n) PROVE Contract!Next
    <3>1. CASE Fail
      BY <2>1, <2>11, <3>1 DEF BeginFunc, Contract!Next
    <3>2. CASE ~Fail
      <4>1. /\ phase = "worklist" /\ phase' = "body"
            /\ n \notin emitted /\ emitted' = emitted \cup {n}
            /\ UNCHANGED <<hugr, requested>>
        BY <2>11, <3>2 DEF BeginFunc
      <4>2. n \in Node /\ \A m \in emitted : m \in Node
        BY DEF TypeOK, FuncDefns
      <4>3. n \in requested \cup UNION {NestedIn(hugr, m) : m \in emitted}
        BY <4>1 DEF Covered
      <4>4. Contract!Define(n)
        BY <4>1, <4>2, <4>3 DEF Contract!Define
      <4> QED BY <4>2, <4>4 DEF Contract!Next
    <3> QED BY <3>1, <3>2
  <2>12. ASSUME NEW i \in pending,
                EmitRef(i) \/ EmitExtern(i) \/ EmitGlobal(i) \/ EmitNested(i)
                  \/ EmitUnsupported(i)
         PROVE  Contract!Next \/ UNCHANGED Contract!contractVars
    <3>1. phase = "body" /\ (Fail \/ UNCHANGED <<hugr, requested, emitted, phase>>)
      BY <2>12 DEF EmitRef, EmitExtern, EmitGlobal, EmitNested, EmitUnsupported,
                   Settle, callVars
    <3> QED BY <2>1, <2>2, <3>1 DEF Contract!Next
  <2>13. CASE FinishFunc
    BY <2>2, <2>13 DEF FinishFunc
  <2>14. CASE UNCHANGED vars
    BY <2>2, <2>14 DEF vars
  <2> QED
    BY <2>3, <2>4, <2>5, <2>6, <2>8, <2>9, <2>10, <2>11, <2>12, <2>13, <2>14
    DEF Next, Progress, EmitItem, Stop, Contract!Next
<1> QED BY <1>1, <1>2, TypeCorrect, CoveredAlways, PTL
        DEF Spec, KeepsContract, Contract!Spec

-----------------------------------------------------------------------------
(* What comes of an emission: it only fails for a reason that can be read  *)
(* off the HUGR, and its result is that of the HUGR and of which FuncDefns *)
(* were emitted, not of the order they were emitted in.                    *)


\* A HUGR that gives no reason to refuse it.
Clean(h) == /\ h.namer.postfix_node /\ KindsApart(h, given) /\ Reserved(h) /\ Consistent(h)
            /\ Supported(h) /\ Agrees(h, given)

\* What the symbol sym of a table can be: a function of the HUGR, with a body
\* once that has been emitted, what some handler asks for, or what the module
\* held before.
OfFunction(name, sym, n) ==
    /\ name = Mangled(hugr, n) /\ sym.kind = "func" /\ sym.ty = hugr.sig[n]
    /\ \/ sym.body = NoNode
       \/ sym.body = n /\ n \in emitted
       \/ sym.body = Foreign /\ n \notin FuncDefns(hugr)

OfItem(name, sym, item) ==
    /\ name = item.sym /\ sym.ty = item.ty
    /\ \/ item.op = "extern" /\ sym.kind = "func"
       \/ item.op = "global" /\ sym.kind = "global" /\ sym.const = item.const

OfGiven(name, sym) == name \in DOMAIN given /\ sym = given[name]

Items == UNION {ItemsOf(hugr, n) : n \in Node}
Asked == {item \in Items : item.op \in {"extern", "global"}}

\* The invariant: every symbol is one of these.
Meant(tab) == \A s \in DOMAIN tab :
    \/ \E n \in Functions(hugr) : OfFunction(s, tab[s], n)
    \/ \E item \in Asked : OfItem(s, tab[s], item)
    \/ OfGiven(s, tab[s])

NothingInTheWay == Clean(hugr) => Meant(symtab) /\ phase # "failed"

-----------------------------------------------------------------------------
(* Names                                                                   *)

\* The index at its end tells the names of functions apart.
LEMMA MangledApart ==
  ASSUME hugr.namer.postfix_node, hugr \in Hugrs, NEW n \in Node, NEW m \in Node,
         Mangled(hugr, n) = Mangled(hugr, m)
  PROVE  n = m
<1>1. ASSUME NEW k \in Node
      PROVE  /\ Mangled(hugr, k) \in Seq(Token)
             /\ Len(Mangled(hugr, k)) > 0
             /\ Mangled(hugr, k)[Len(Mangled(hugr, k))] = k
  <2>1. hugr.namer.prefix \in Seq(Token) /\ hugr.name[k] \in Seq(Token)
    BY HugrTypes DEF Hugr, Namer, Name
  <2>2. hugr.namer.prefix \o hugr.name[k] \in Seq(Token) /\ k \in Token
    BY <2>1, TokenAssumption
  <2>3. Mangled(hugr, k) = (hugr.namer.prefix \o hugr.name[k]) \o <<k>>
    BY DEF Mangled, NameFunc
  <2>4. ASSUME NEW s \in Seq(Token), NEW t \in Token
        PROVE  s \o <<t>> \in Seq(Token) /\ Len(s \o <<t>>) > 0
                 /\ (s \o <<t>>)[Len(s \o <<t>>)] = t
    OBVIOUS
  <2> QED BY <2>2, <2>3, <2>4
<1> QED BY <1>1

\* A name that is wanted as a function is one in the given module too; and the
\* same of globals.
LEMMA GivenKind ==
  ASSUME KindsApart(hugr, given), given \in Modules, NEW name \in DOMAIN given
  PROVE  /\ name \in FuncNames(hugr, given) => given[name].kind = "func"
         /\ name \in GlobalNames(hugr, given) => given[name].kind = "global"
<1>1. given[name].kind \in {"func", "global"}
  BY ModuleAssumption DEF IsSymbolTable, Symbol
<1> QED BY <1>1 DEF KindsApart, FuncNames, GlobalNames, GivenNames

\* Where each kind of symbol can be.
LEMMA FunctionOf ==
  ASSUME Clean(hugr), hugr \in Hugrs, given \in Modules, Meant(symtab), NEW n \in Functions(hugr),
         Mangled(hugr, n) \in DOMAIN symtab
  PROVE  OfFunction(Mangled(hugr, n), symtab[Mangled(hugr, n)], n)
<1> DEFINE name == Mangled(hugr, n)
<1>1. ASSUME NEW item \in Asked PROVE ~OfItem(name, symtab[name], item)
  <2>1. item.op = "extern" => item.sym \in SymsOf(hugr, "extern")
    BY DEF Asked, Items, SymsOf
  <2>2. item.op = "global" => item.sym \in GlobalNames(hugr, given)
    BY DEF Asked, Items, SymsOf, GlobalNames
  <2>3. name \in FuncNames(hugr, given)
    BY DEF FuncNames
  <2> QED BY <2>1, <2>2, <2>3 DEF OfItem, Clean, Reserved, KindsApart
<1>2. ASSUME OfGiven(name, symtab[name]) PROVE OfFunction(name, symtab[name], n)
  <2>1. name \in DOMAIN given /\ symtab[name] = given[name]
    BY <1>2 DEF OfGiven
  <2>2. given[name].kind = "func"
    BY <2>1, GivenKind DEF Clean, FuncNames
  <2>3. given[name].body \in {NoNode, Foreign}
    BY <2>1, ModuleAssumption
  <2> QED BY <2>1, <2>2, <2>3 DEF OfFunction, Clean, Agrees
<1>3. ASSUME NEW m \in Functions(hugr), OfFunction(name, symtab[name], m) PROVE m = n
  BY <1>3, MangledApart DEF OfFunction, Functions, Clean
<1> QED BY <1>1, <1>2, <1>3 DEF Meant

LEMMA ItemOfSymbol ==
  ASSUME Clean(hugr), hugr \in Hugrs, given \in Modules, Meant(symtab), NEW item \in Asked,
         item.sym \in DOMAIN symtab
  PROVE  OfItem(item.sym, symtab[item.sym], item)
<1> DEFINE name == item.sym
<1>1. /\ item.op = "extern" => name \in SymsOf(hugr, "extern")
      /\ item.op = "global" => name \in SymsOf(hugr, "global")
      /\ item.op \in {"extern", "global"}
  BY DEF Asked, Items, SymsOf
<1>2. ASSUME NEW n \in Functions(hugr) PROVE ~OfFunction(name, symtab[name], n)
  <2>1. Mangled(hugr, n) \in FuncNames(hugr, given)
    BY DEF FuncNames
  <2>2. SymsOf(hugr, "global") \subseteq GlobalNames(hugr, given)
    BY DEF GlobalNames
  <2> QED BY <1>1, <2>1, <2>2 DEF OfFunction, Clean, Reserved, KindsApart
<1>3. PICK n \in Node : item \in ItemsOf(hugr, n)
  BY DEF Asked, Items
<1>4. ASSUME OfGiven(name, symtab[name]) PROVE OfItem(name, symtab[name], item)
  <2>1. name \in DOMAIN given /\ symtab[name] = given[name]
    BY <1>4 DEF OfGiven
  <2>2. /\ item.op = "extern" => given[name].kind = "func"
        /\ item.op = "global" => given[name].kind = "global"
    BY <1>1, <2>1, GivenKind DEF Clean, FuncNames, GlobalNames
  <2> QED BY <1>1, <1>3, <2>1, <2>2 DEF OfItem, Clean, Agrees
<1>5. ASSUME NEW other \in Asked, OfItem(name, symtab[name], other) PROVE other = item
  <2>1. /\ other.op = "extern" => other.sym \in SymsOf(hugr, "extern")
        /\ other.op = "global" => other.sym \in SymsOf(hugr, "global")
        /\ other.op \in {"extern", "global"}
    BY DEF Asked, Items, SymsOf
  <2>2. other.sym = name
    BY <1>5 DEF OfItem
  <2>3. /\ SymsOf(hugr, "extern") \subseteq FuncNames(hugr, given)
        /\ SymsOf(hugr, "global") \subseteq GlobalNames(hugr, given)
    BY DEF FuncNames, GlobalNames
  <2>4. other.op = item.op
    BY <1>1, <2>1, <2>2, <2>3 DEF Clean, KindsApart
  <2>5. PICK m \in Node : other \in ItemsOf(hugr, m)
    BY DEF Asked, Items
  <2> QED BY <1>1, <1>3, <2>2, <2>4, <2>5 DEF Clean, Consistent
<1> QED BY <1>2, <1>4, <1>5 DEF Meant

-----------------------------------------------------------------------------
(* Lookups                                                                 *)

\* A lookup that succeeds: it finds the name, or adds symbol under it.
Answered(r, name, symbol) ==
    r = IF name \in DOMAIN symtab
        THEN [tab |-> symtab, val |-> name, ok |-> TRUE]
        ELSE [tab |-> Add(symtab, name, symbol), val |-> name, ok |-> TRUE]

LEMMA AnsweredTable ==
  ASSUME NEW r, NEW name, NEW symbol, Answered(r, name, symbol)
  PROVE  /\ r.ok /\ r.val = name
         /\ DOMAIN r.tab = DOMAIN symtab \cup {name}
         /\ \A s \in DOMAIN symtab : r.tab[s] = symtab[s]
         /\ name \notin DOMAIN symtab => r.tab[name] = symbol
<1>1. CASE name \in DOMAIN symtab
  BY <1>1 DEF Answered
<1>2. CASE name \notin DOMAIN symtab
  BY <1>2 DEF Answered, Add
<1> QED BY <1>1, <1>2

\* get_func_defn and get_func_decl do not fail, and the function has a body only
\* if it has been emitted.
LEMMA HugrFuncSucceeds ==
  ASSUME Clean(hugr), hugr \in Hugrs, given \in Modules, Meant(symtab),
         NEW n \in Functions(hugr), NEW r \in GetHugrFunc(n)
  PROVE  /\ r.ok /\ r.val = Mangled(hugr, n) /\ r.val \in DOMAIN r.tab
         /\ Meant(r.tab)
         /\ OfFunction(r.val, r.tab[r.val], n)
<1> DEFINE name == Mangled(hugr, n)
           symbol == [kind |-> "func", ty |-> hugr.sig[n], const |-> FALSE, body |-> NoNode]
<1>1. r \in GetFunc(symtab, name, hugr.sig[n])
  BY DEF GetHugrFunc, Clean, Supported
<1>2. name \in DOMAIN symtab => OfFunction(name, symtab[name], n)
  BY FunctionOf
<1>3. Answered(r, name, symbol)
  <2>1. CASE name \in DOMAIN symtab
    BY <1>1, <1>2, <2>1 DEF OfFunction, GetFunc, GetOrAdd, Holds, Answered
  <2>2. CASE name \notin DOMAIN symtab
    BY <1>1, <2>2 DEF GetFunc, GetOrAdd, Holds, FiledUnder, Answered
  <2> QED BY <2>1, <2>2
<1>4. OfFunction(name, symbol, n)
  BY DEF OfFunction
<1> HIDE DEF symbol
<1>5. /\ r.ok /\ r.val = name
      /\ DOMAIN r.tab = DOMAIN symtab \cup {name}
      /\ \A s \in DOMAIN symtab : r.tab[s] = symtab[s]
      /\ name \notin DOMAIN symtab => r.tab[name] = symbol
  BY <1>3, AnsweredTable
<1>6. Meant(r.tab)
  BY <1>4, <1>5 DEF Meant
<1>7. OfFunction(name, r.tab[name], n)
  BY <1>2, <1>4, <1>5
<1> QED BY <1>5, <1>6, <1>7

\* Nor do get_extern_func and get_global.
LEMMA ItemSucceeds ==
  ASSUME Clean(hugr), hugr \in Hugrs, given \in Modules, Meant(symtab),
         NEW item \in Asked, NEW r,
         \/ item.op = "extern" /\ r \in GetFunc(symtab, item.sym, item.ty)
         \/ item.op = "global" /\ r \in GetGlobal(symtab, item.sym, item.ty, item.const)
  PROVE  r.ok /\ Meant(r.tab)
<1>1. item.sym \in DOMAIN symtab => OfItem(item.sym, symtab[item.sym], item)
  BY ItemOfSymbol
<1>2. PICK symbol : Answered(r, item.sym, symbol) /\ OfItem(item.sym, symbol, item)
  <2>1. CASE item.op = "extern"
    <3> DEFINE symbol == [kind |-> "func", ty |-> item.ty, const |-> FALSE, body |-> NoNode]
    <3>1. r \in GetFunc(symtab, item.sym, item.ty)
      BY <2>1
    <3>2. ASSUME item.sym \in DOMAIN symtab PROVE Answered(r, item.sym, symbol)
      BY <1>1, <2>1, <3>1, <3>2 DEF OfItem, GetFunc, GetOrAdd, Holds, Answered
    <3>3. ASSUME item.sym \notin DOMAIN symtab PROVE Answered(r, item.sym, symbol)
      BY <3>1, <3>3 DEF GetFunc, GetOrAdd, Holds, FiledUnder, Answered
    <3>4. OfItem(item.sym, symbol, item)
      BY <2>1 DEF OfItem
    <3> QED BY <3>2, <3>3, <3>4
  <2>2. CASE item.op = "global"
    <3> DEFINE symbol == [kind |-> "global", ty |-> item.ty, const |-> item.const,
                          body |-> NoNode]
    <3>1. r \in GetGlobal(symtab, item.sym, item.ty, item.const)
      BY <2>2
    <3>2. ASSUME item.sym \in DOMAIN symtab PROVE Answered(r, item.sym, symbol)
      BY <1>1, <2>2, <3>1, <3>2 DEF OfItem, GetGlobal, GetOrAdd, Holds, Answered
    <3>3. ASSUME item.sym \notin DOMAIN symtab PROVE Answered(r, item.sym, symbol)
      BY <3>1, <3>3 DEF GetGlobal, GetOrAdd, Holds, FiledUnder, Answered
    <3>4. OfItem(item.sym, symbol, item)
      BY <2>2 DEF OfItem
    <3> QED BY <3>2, <3>3, <3>4
  <2> QED BY <2>1, <2>2
<1>3. /\ r.ok
      /\ DOMAIN r.tab = DOMAIN symtab \cup {item.sym}
      /\ \A s \in DOMAIN symtab : r.tab[s] = symtab[s]
      /\ item.sym \notin DOMAIN symtab => r.tab[item.sym] = symbol
  BY <1>2, AnsweredTable
<1> QED BY <1>2, <1>3 DEF Meant

-----------------------------------------------------------------------------
(* Steps                                                                   *)

\* A table goes on meaning the same while more is emitted.
LEMMA MeantStays ==
  ASSUME Meant(symtab), hugr' = hugr, given' = given, emitted \subseteq emitted',
         symtab' = symtab
  PROVE  Meant(symtab)'
BY DEF Meant, OfFunction, OfItem, OfGiven, Asked, Items

LEMMA MeantBecomes ==
  ASSUME NEW tab, Meant(tab), hugr' = hugr, given' = given, emitted' = emitted,
         symtab' = tab
  PROVE  Meant(symtab)'
BY DEF Meant, OfFunction, OfItem, OfGiven, Asked, Items

LEMMA SettleSucceeds ==
  ASSUME Meant(symtab), phase = "body", NEW i, NEW outcomes,
         \A r \in outcomes : r.ok /\ Meant(r.tab),
         Settle(i, outcomes)
  PROVE  Meant(symtab)' /\ phase' # "failed"
<1>1. PICK r \in outcomes :
        IF r.ok
        THEN symtab' = r.tab /\ UNCHANGED <<callVars, phase>>
        ELSE Fail
  BY DEF Settle
<1>2. r.ok /\ Meant(r.tab)
  OBVIOUS
<1>3. /\ symtab' = r.tab /\ hugr' = hugr /\ given' = given
      /\ emitted' = emitted /\ phase' = phase
  BY <1>1, <1>2 DEF callVars
<1> QED BY <1>2, <1>3, MeantBecomes

\* For any HUGRs, given modules and prefix: with node indices in the names, a
\* HUGR all of whose operations are supported, whose symbols are used
\* consistently, also with the given module, and each as a function or as a
\* global, is never refused, whatever calls are made and in whatever order its
\* parts are emitted (get_func_impl, emit_func_impl).
THEOREM CleanNeverFails == Spec => []NoSpuriousFailure
<1>1. Init => NothingInTheWay
  BY DEF Init, NothingInTheWay, Meant, OfGiven
<1>2. ASSUME TypeOK, NothingInTheWay, [Next]_vars PROVE NothingInTheWay'
  <2>1. hugr' = hugr /\ given' = given
    BY <1>2 DEF Next, Progress, EmitItem, Stop, vars, CallEmitFunc, CallEmitModule, Finish,
                EmitModuleChild, EmitModuleReturns, EmitFuncReturns, SkipEmitted, BeginFunc,
                EmitRef, EmitExtern, EmitGlobal, EmitNested, EmitUnsupported, FinishFunc,
                Settle, Fail, bodyVars, callVars
  <2> SUFFICES ASSUME Clean(hugr) PROVE Meant(symtab)' /\ phase' # "failed"
    BY <2>1 DEF NothingInTheWay, Clean
  <2>2. hugr \in Hugrs /\ given \in Modules /\ Meant(symtab) /\ phase # "failed"
    BY <1>2 DEF TypeOK, NothingInTheWay
  <2>3. ASSUME phase = "body", NEW i \in pending
        PROVE  LET item == hugr.body[current][i]
               IN item \in Items /\ item.op # "unsupported"
                    /\ (item.op = "ref" => item.node \in Functions(hugr))
    <3>1. current \in Node /\ i \in DOMAIN hugr.body[current]
      BY <1>2, <2>3 DEF TypeOK, FuncDefns
    <3>2. hugr.body[current][i] \in ItemsOf(hugr, current)
      BY <3>1 DEF ItemsOf
    <3> QED BY <3>1, <3>2 DEF Items, Clean, Supported
  <2>4. ASSUME NEW n \in worklist, BeginFunc(n) PROVE Meant(symtab)' /\ phase' # "failed"
    <3>1. n \in Functions(hugr) /\ n \notin emitted
      BY <1>2, <2>4 DEF BeginFunc, TypeOK, FuncDefns, Functions
    <3>2. PICK r \in GetHugrFunc(n) :
            IF r.ok /\ r.tab[r.val].body = NoNode
            THEN /\ emitted' = emitted \cup {n}
                 /\ symtab' = [r.tab EXCEPT ![r.val].body = n]
                 /\ phase' = "body"
            ELSE Fail
      BY <2>4 DEF BeginFunc
    <3>3. /\ r.ok /\ r.val = Mangled(hugr, n) /\ r.val \in DOMAIN r.tab
          /\ Meant(r.tab) /\ OfFunction(r.val, r.tab[r.val], n)
      BY <2>2, <3>1, HugrFuncSucceeds
    <3>4. r.tab[r.val].body = NoNode
      BY <1>2, <3>1, <3>3 DEF OfFunction, TypeOK
    <3>5. /\ emitted' = emitted \cup {n} /\ phase' = "body"
          /\ symtab' = [r.tab EXCEPT ![r.val].body = n]
      BY <3>2, <3>3, <3>4
    <3>6. Sound(r)
      BY <1>2, <2>2, <3>1, <3>3, GetHugrFuncSound DEF TypeOK, Functions
    <3>7. r.tab[r.val] \in Symbol
      BY <3>6 DEF Sound, IsSymbolTable
    <3>8. /\ DOMAIN symtab' = DOMAIN r.tab
          /\ \A s \in DOMAIN r.tab : s # r.val => symtab'[s] = r.tab[s]
          /\ symtab'[r.val].kind = "func" /\ symtab'[r.val].ty = hugr.sig[n]
          /\ symtab'[r.val].body = n
      BY <3>3, <3>5, <3>7 DEF OfFunction, Symbol
    <3>9. ASSUME NEW s \in DOMAIN symtab'
          PROVE  \/ \E m \in Functions(hugr) : OfFunction(s, symtab[s], m)'
                 \/ \E item \in Asked : OfItem(s, symtab[s], item)'
                 \/ OfGiven(s, symtab[s])'
      <4>1. CASE s = r.val
        <5>1. OfFunction(s, symtab[s], n)'
          BY <2>1, <3>3, <3>5, <3>8, <4>1 DEF OfFunction
        <5> QED BY <3>1, <5>1
      <4>2. CASE s # r.val
        <5>1. s \in DOMAIN r.tab /\ symtab'[s] = r.tab[s]
          BY <3>8, <4>2
        <5>2. CASE \E m \in Functions(hugr) : OfFunction(s, r.tab[s], m)
          BY <2>1, <3>5, <5>1, <5>2 DEF OfFunction
        <5>3. CASE \E item \in Asked : OfItem(s, r.tab[s], item)
          BY <5>1, <5>3 DEF OfItem
        <5>4. CASE OfGiven(s, r.tab[s])
          BY <2>1, <5>1, <5>4 DEF OfGiven
        <5> QED BY <3>3, <5>1, <5>2, <5>3, <5>4 DEF Meant
      <4> QED BY <4>1, <4>2
    <3> QED BY <2>1, <3>5, <3>9 DEF Meant, Asked, Items
  <2>5. ASSUME NEW i \in pending, EmitRef(i) PROVE Meant(symtab)' /\ phase' # "failed"
    <3> DEFINE item == hugr.body[current][i]
    <3>1. phase = "body" /\ item.op = "ref" /\ item.node \in Functions(hugr)
      BY <2>3, <2>5 DEF EmitRef
    <3>2. Settle(i, GetHugrFunc(item.node))
      BY <2>5, <3>1 DEF EmitRef, Functions
    <3>3. \A r \in GetHugrFunc(item.node) : r.ok /\ Meant(r.tab)
      BY <2>2, <3>1, HugrFuncSucceeds
    <3> QED BY <2>2, <3>1, <3>2, <3>3, SettleSucceeds
  <2>6. ASSUME NEW i \in pending, EmitExtern(i) PROVE Meant(symtab)' /\ phase' # "failed"
    <3> DEFINE item == hugr.body[current][i]
    <3>1. /\ phase = "body" /\ item.op = "extern"
          /\ Settle(i, GetFunc(symtab, item.sym, item.ty))
      BY <2>6 DEF EmitExtern
    <3>2. item \in Asked
      BY <2>3, <3>1 DEF Asked
    <3>3. \A r \in GetFunc(symtab, item.sym, item.ty) : r.ok /\ Meant(r.tab)
      BY <2>2, <3>1, <3>2, ItemSucceeds
    <3> QED BY <2>2, <3>1, <3>3, SettleSucceeds
  <2>7. ASSUME NEW i \in pending, EmitGlobal(i) PROVE Meant(symtab)' /\ phase' # "failed"
    <3> DEFINE item == hugr.body[current][i]
    <3>1. /\ phase = "body" /\ item.op = "global"
          /\ Settle(i, GetGlobal(symtab, item.sym, item.ty, item.const))
      BY <2>7 DEF EmitGlobal
    <3>2. item \in Asked
      BY <2>3, <3>1 DEF Asked
    <3>3. \A r \in GetGlobal(symtab, item.sym, item.ty, item.const) : r.ok /\ Meant(r.tab)
      BY <2>2, <3>1, <3>2, ItemSucceeds
    <3> QED BY <2>2, <3>1, <3>3, SettleSucceeds
  <2>8. ASSUME NEW i \in pending PROVE ~EmitUnsupported(i)
    BY <2>3 DEF EmitUnsupported
  <2>9. CASE EmitModuleChild
    <3>1. hugr.kind[hugr.top[cursor]] # "AliasDefn"
      BY <2>9 DEF EmitModuleChild, Clean, Supported
    <3>2. UNCHANGED <<symtab, emitted>> /\ phase' # "failed"
      BY <2>2, <2>9, <3>1 DEF EmitModuleChild, bodyVars
    <3> QED BY <2>1, <2>2, <3>2, MeantStays
  <2>10. CASE \/ \E n \in Node : CallEmitFunc(n)
              \/ CallEmitModule \/ Finish \/ EmitModuleReturns
              \/ EmitFuncReturns \/ (\E n \in worklist : SkipEmitted(n))
              \/ (\E i \in pending : EmitNested(i))
              \/ FinishFunc \/ UNCHANGED vars
    <3>1. UNCHANGED <<symtab, emitted>> /\ phase' # "failed"
      BY <2>2, <2>10 DEF CallEmitFunc, CallEmitModule, Finish, EmitModuleReturns,
                         EmitFuncReturns, SkipEmitted, EmitNested, FinishFunc,
                         bodyVars, callVars, vars
    <3> QED BY <2>1, <2>2, <3>1, MeantStays
  <2> QED BY <1>2, <2>4, <2>5, <2>6, <2>7, <2>8, <2>9, <2>10
          DEF Next, Progress, EmitItem, Stop
<1>3. NothingInTheWay => NoSpuriousFailure
  BY DEF NothingInTheWay, Clean, NoSpuriousFailure
<1> QED BY <1>1, <1>2, <1>3, TypeCorrect, PTL DEF Spec

-----------------------------------------------------------------------------
(* What the module declares.                                               *)

\* The names an operation looks up.
NamesOf(h, item) ==
    CASE item.op = "ref" -> {Mangled(h, item.node)}
      [] item.op \in {"extern", "global"} -> {item.sym}
      [] OTHER -> {}

\* The names that come up in FuncDefn n, but for its operations at open.
Mentioned(h, n, open) ==
    {Mangled(h, n)} \cup UNION {NamesOf(h, h.body[n][i]) : i \in DOMAIN h.body[n] \ open}

\* The same of several FuncDefns, of which only cur has open operations.
MentionedIn(h, ns, cur, open) ==
    UNION {Mentioned(h, n, IF n = cur THEN open ELSE {}) : n \in ns}

\* A body is that of an emitted FuncDefn, or came with the given module.
Accounted(s) ==
    \/ symtab[s].body = NoNode
    \/ symtab[s].body \in emitted /\ s = Mangled(hugr, symtab[s].body)
    \/ s \in DOMAIN given /\ symtab[s] = given[s]

\* The invariant: so far exactly the emitted operations have been declared.
Exact ==
    KindsApart(hugr, given) /\ phase # "failed" =>
      /\ phase # "body" => current = NoNode
      /\ DOMAIN symtab = DOMAIN given \cup MentionedIn(hugr, emitted, current, pending)
      /\ \A s \in DOMAIN symtab : Accounted(s)

\* One operation more.
LEMMA OneMore ==
  ASSUME NEW h, NEW ns, NEW cur \in ns, NEW open, open \subseteq DOMAIN h.body[cur],
         NEW i \in open
  PROVE  MentionedIn(h, ns, cur, open \ {i})
           = MentionedIn(h, ns, cur, open) \cup NamesOf(h, h.body[cur][i])
<1> DEFINE rest == UNION {Mentioned(h, n, {}) : n \in ns \ {cur}}
<1>1. ASSUME NEW S
      PROVE  MentionedIn(h, ns, cur, S) = rest \cup Mentioned(h, cur, S)
  BY DEF MentionedIn
<1>2. Mentioned(h, cur, open \ {i}) = Mentioned(h, cur, open) \cup NamesOf(h, h.body[cur][i])
  BY DEF Mentioned
<1> HIDE DEF rest
<1> QED BY <1>1, <1>2

LEMMA OneMoreNext ==
  ASSUME current \in emitted, pending \subseteq DOMAIN hugr.body[current], NEW i \in pending
  PROVE  MentionedIn(hugr, emitted, current, pending \ {i})
           = MentionedIn(hugr, emitted, current, pending)
               \cup NamesOf(hugr, hugr.body[current][i])
BY OneMore

\* One FuncDefn more, with all of its operations open.
LEMMA OneBegun ==
  ASSUME NEW h, NEW ns, NEW n, NEW cur, NEW open, n \notin ns, cur \notin ns
  PROVE  MentionedIn(h, ns \cup {n}, n, DOMAIN h.body[n])
           = MentionedIn(h, ns, cur, open) \cup {Mangled(h, n)}
<1> DEFINE rest == UNION {Mentioned(h, m, {}) : m \in ns}
<1>1. MentionedIn(h, ns, cur, open) = rest
  BY DEF MentionedIn
<1>2. MentionedIn(h, ns \cup {n}, n, DOMAIN h.body[n])
        = rest \cup Mentioned(h, n, DOMAIN h.body[n])
  BY DEF MentionedIn
<1>3. Mentioned(h, n, DOMAIN h.body[n]) = {Mangled(h, n)}
  BY DEF Mentioned
<1> HIDE DEF rest
<1> QED BY <1>1, <1>2, <1>3

\* Nothing open: all that the FuncDefns use.
LEMMA AllMentioned ==
  ASSUME NEW h, NEW ns, NEW cur, NEW open, cur \notin ns \/ open = {}
  PROVE  MentionedIn(h, ns, cur, open) = UNION {NamesUsedBy(h, n) : n \in ns}
<1>1. ASSUME NEW n PROVE Mentioned(h, n, {}) = NamesUsedBy(h, n)
  <2> DEFINE T == {it \in ItemsOf(h, n) : it.op = "ref"}
             U == {it \in ItemsOf(h, n) : it.op \in {"extern", "global"}}
  <2>1. ASSUME NEW s
        PROVE  s \in UNION {NamesOf(h, item) : item \in ItemsOf(h, n)}
                 <=> \/ s \in {Mangled(h, item.node) : item \in T}
                     \/ s \in {item.sym : item \in U}
    BY DEF NamesOf
  <2>2. {NamesOf(h, h.body[n][i]) : i \in DOMAIN h.body[n] \ {}}
          = {NamesOf(h, item) : item \in ItemsOf(h, n)}
    BY DEF ItemsOf
  <2> QED BY <2>1, <2>2 DEF Mentioned, NamesUsedBy
<1>2. ASSUME NEW n \in ns
      PROVE  Mentioned(h, n, IF n = cur THEN open ELSE {}) = NamesUsedBy(h, n)
  BY <1>1
<1> QED BY <1>2 DEF MentionedIn

\* An operation that is settled has been declared.
LEMMA SettleExact ==
  ASSUME TypeOK, Exact, KindsApart(hugr, given), phase = "body", NEW i \in pending,
         NEW outcomes, NEW name, NamesOf(hugr, hugr.body[current][i]) = {name},
         \A r \in outcomes : r.ok => Sound(r) /\ AddsAtMost(r, name),
         Settle(i, outcomes)
  PROVE  Exact'
<1>1. PICK r \in outcomes :
        IF r.ok
        THEN /\ symtab' = r.tab
             /\ pending' = pending \ {i}
             /\ UNCHANGED <<todo, callVars, phase>>
        ELSE Fail
  BY DEF Settle
<1>2. CASE r.ok
  <2>1. Sound(r) /\ AddsAtMost(r, name)
    BY <1>2
  <2>2. /\ symtab' = r.tab /\ pending' = pending \ {i}
        /\ hugr' = hugr /\ given' = given
        /\ emitted' = emitted /\ current' = current /\ phase' = phase
    BY <1>1, <1>2 DEF callVars
  <2>3. /\ DOMAIN symtab = DOMAIN given \cup MentionedIn(hugr, emitted, current, pending)
        /\ \A s \in DOMAIN symtab : Accounted(s)
    BY DEF Exact
  <2>4. current \in emitted /\ pending \subseteq DOMAIN hugr.body[current]
    BY DEF TypeOK
  <2>5. MentionedIn(hugr, emitted, current, pending \ {i})
          = MentionedIn(hugr, emitted, current, pending) \cup {name}
    <3>1. MentionedIn(hugr, emitted, current, pending \ {i})
            = MentionedIn(hugr, emitted, current, pending)
                \cup NamesOf(hugr, hugr.body[current][i])
      BY <2>4, OneMoreNext
    <3> QED BY <3>1
  <2>6. DOMAIN symtab' = DOMAIN given' \cup MentionedIn(hugr, emitted, current, pending')
    BY <2>1, <2>2, <2>3, <2>5 DEF AddsAtMost
  <2>7. ASSUME NEW s \in DOMAIN symtab' PROVE Accounted(s)'
    BY <2>1, <2>2, <2>3 DEF AddsAtMost, Sound, Accounted
  <2> QED BY <2>2, <2>6, <2>7 DEF Exact
<1>3. CASE ~r.ok
  BY <1>1, <1>3 DEF Fail, Exact
<1> QED BY <1>2, <1>3

\* Nothing that Exact speaks of has changed.
LEMMA ExactStutters ==
  ASSUME Exact, UNCHANGED <<hugr, given, symtab, emitted, current, pending>>,
         \/ phase # "failed" /\ (phase' = "body" <=> phase = "body")
         \/ phase' = "failed"
  PROVE  Exact'
BY DEF Exact, Accounted

\* The same of the FuncDefns of the HUGR.
LEMMA OneBegunNext ==
  ASSUME NEW n \in worklist, n \notin emitted, current \notin emitted
  PROVE  MentionedIn(hugr, emitted \cup {n}, n, DOMAIN hugr.body[n])
           = MentionedIn(hugr, emitted, current, pending) \cup {Mangled(hugr, n)}
BY OneBegun

\* Where a body is begun, its function is declared.
LEMMA BeginExact ==
  ASSUME TypeOK, Linked, Exact, KindsApart(hugr, given), NEW n \in worklist, BeginFunc(n)
  PROVE  Exact'
<1>1. /\ n \in FuncDefns(hugr) /\ n \in Node /\ n \notin emitted /\ phase = "worklist"
      /\ hugr \in Hugrs /\ IsSymbolTable(symtab) /\ Filed(symtab)
  BY DEF TypeOK, FuncDefns, BeginFunc, Linked, Filed
<1>2. PICK r \in GetHugrFunc(n) :
        IF r.ok /\ r.tab[r.val].body = NoNode
        THEN /\ emitted' = emitted \cup {n}
             /\ symtab' = [r.tab EXCEPT ![r.val].body = n]
             /\ current' = n
             /\ pending' = DOMAIN hugr.body[n]
             /\ phase' = "body"
             /\ hugr' = hugr /\ given' = given
        ELSE Fail
  BY DEF BeginFunc
<1>3. CASE r.ok /\ r.tab[r.val].body = NoNode
  <2>1. r \in GetFunc(symtab, Mangled(hugr, n), hugr.sig[n]) /\ Sound(r)
    BY <1>1, <1>3, GetHugrFuncSound
  <2>2. Mangled(hugr, n) \in FuncNames(hugr, given) \cap Name /\ hugr.sig[n] \in Type
    BY <1>1, HugrTypes DEF FuncNames, Functions, FuncDefns, Hugr
  <2>3. r.val = Mangled(hugr, n) /\ AddsAtMost(r, Mangled(hugr, n))
    BY <1>1, <2>1, <2>2, FuncFiled
  <2>4. r.tab \in [DOMAIN r.tab -> Symbol]
    BY <2>1 DEF Sound, IsSymbolTable
  <2>5. /\ DOMAIN symtab' = DOMAIN r.tab
        /\ symtab'[r.val].body = n
        /\ \A s \in DOMAIN r.tab : s # r.val => symtab'[s] = r.tab[s]
    BY <1>2, <1>3, <2>1, <2>4 DEF Sound, Symbol
  <2>6. /\ emitted' = emitted \cup {n} /\ current' = n /\ phase' = "body"
        /\ pending' = DOMAIN hugr.body[n] /\ hugr' = hugr /\ given' = given
    BY <1>2, <1>3
  <2>7. /\ current = NoNode /\ DOMAIN symtab = DOMAIN given \cup MentionedIn(hugr, emitted, current, pending)
        /\ \A s \in DOMAIN symtab : Accounted(s)
    BY <1>1 DEF Exact
  <2>8. current \notin emitted
    BY <2>7, NodeAssumption DEF TypeOK, FuncDefns
  <2>9. MentionedIn(hugr, emitted \cup {n}, n, DOMAIN hugr.body[n])
          = MentionedIn(hugr, emitted, current, pending) \cup {Mangled(hugr, n)}
    BY <1>1, <2>8, OneBegunNext
  <2>10. DOMAIN symtab' = DOMAIN given' \cup MentionedIn(hugr, emitted', current', pending')
    BY <2>3, <2>5, <2>6, <2>7, <2>9 DEF AddsAtMost
  <2>11. ASSUME NEW s \in DOMAIN symtab' PROVE Accounted(s)'
    <3>1. CASE s = r.val
      BY <2>3, <2>5, <2>6, <3>1 DEF Accounted
    <3>2. CASE s # r.val
      <4>1. s \in DOMAIN symtab /\ symtab'[s] = symtab[s]
        BY <2>1, <2>3, <2>5, <2>11, <3>2 DEF AddsAtMost, Sound
      <4> QED BY <2>6, <2>7, <4>1 DEF Accounted
    <3> QED BY <3>1, <3>2
  <2> QED BY <2>6, <2>10, <2>11 DEF Exact
<1>4. CASE ~(r.ok /\ r.tab[r.val].body = NoNode)
  BY <1>2, <1>4 DEF Fail, Exact
<1> QED BY <1>3, <1>4

\* For any HUGRs, given modules and namers, and whatever the order
\* in which the worklist is popped and bodies are emitted: while no symbol is a
\* function for one and a global for another, the module that results declares
\* what it held before and what the emitted bodies mention, and defines what it
\* did before and the emitted FuncDefns, nothing else.
THEOREM OutputIsDetermined == Spec => []OutputDetermined
<1>1. Init => Exact
  BY DEF Init, Exact, MentionedIn, Accounted
<1>2. ASSUME TypeOK, Linked, Exact, [Next]_vars PROVE Exact'
  <2> USE <1>2
  <2>1. CASE \/ \E n \in Node : CallEmitFunc(n)
             \/ CallEmitModule \/ Finish \/ EmitModuleChild \/ EmitModuleReturns
             \/ EmitFuncReturns \/ (\E n \in worklist : SkipEmitted(n))
             \/ (\E i \in pending : EmitUnsupported(i)) \/ UNCHANGED vars
    <3>1. UNCHANGED <<hugr, given, symtab, emitted, current, pending>>
      BY <2>1 DEF CallEmitFunc, CallEmitModule, Finish, EmitModuleChild, EmitModuleReturns,
                  EmitFuncReturns, SkipEmitted, EmitUnsupported, Fail, bodyVars, callVars, vars
    <3>2. \/ phase' = "failed" \/ phase' = phase
          \/ phase # "failed" /\ phase # "body" /\ phase' # "body"
      BY <2>1 DEF CallEmitFunc, CallEmitModule, Finish, EmitModuleChild, EmitModuleReturns,
                  EmitFuncReturns, SkipEmitted, EmitUnsupported, Fail, vars
    <3> QED BY <3>1, <3>2, ExactStutters DEF Exact
  <2>2. CASE ~KindsApart(hugr, given)
    <3>1. hugr' = hugr /\ given' = given
      BY DEF Next, Progress, EmitItem, Stop, vars, CallEmitFunc, CallEmitModule, Finish,
             EmitModuleChild, EmitModuleReturns, EmitFuncReturns, SkipEmitted, BeginFunc,
             EmitRef, EmitExtern, EmitGlobal, EmitNested, EmitUnsupported, FinishFunc,
             Settle, Fail, bodyVars, callVars
    <3> QED BY <2>2, <3>1 DEF Exact
  <2>3. ASSUME KindsApart(hugr, given), NEW n \in worklist, BeginFunc(n) PROVE Exact'
    BY <2>3, BeginExact
  <2>4. /\ hugr \in Hugrs /\ IsSymbolTable(symtab)
        /\ phase = "body" => current \in Node /\ current \in emitted
        /\ KindsApart(hugr, given) => Filed(symtab)
    BY DEF TypeOK, FuncDefns, Linked, Filed
  <2>5. ASSUME NEW i \in pending, phase = "body"
        PROVE  i \in DOMAIN hugr.body[current] /\ hugr.body[current][i] \in Item
    <3>1. i \in DOMAIN hugr.body[current]
      BY <2>5 DEF TypeOK
    <3> QED BY <2>4, <2>5, <3>1, HugrTypes
  <2>6. ASSUME KindsApart(hugr, given), NEW i \in pending, EmitRef(i) PROVE Exact'
    <3> DEFINE item == hugr.body[current][i]
    <3>1. phase = "body" /\ item.op = "ref"
      BY <2>6 DEF EmitRef
    <3>2. CASE Fail
      BY <3>2 DEF Fail, Exact
    <3>3. CASE /\ hugr.kind[item.node] \in {"FuncDefn", "FuncDecl"}
               /\ Settle(i, GetHugrFunc(item.node))
      <4>1. item.node \in Node
        BY <2>5, <3>1, ItemTypes
      <4>2. /\ Mangled(hugr, item.node) \in FuncNames(hugr, given) \cap Name
            /\ hugr.sig[item.node] \in Type
        BY <2>4, <2>5, <3>1, <3>3, <4>1, AskedFor, HugrTypes DEF Hugr
      <4>3. ASSUME NEW r \in GetHugrFunc(item.node), r.ok
            PROVE  Sound(r) /\ AddsAtMost(r, Mangled(hugr, item.node))
        <5>1. /\ r \in GetFunc(symtab, Mangled(hugr, item.node), hugr.sig[item.node])
              /\ Sound(r)
          BY <2>4, <4>1, <4>3, GetHugrFuncSound
        <5> QED BY <2>4, <2>6, <4>2, <5>1, FuncFiled
      <4>4. NamesOf(hugr, item) = {Mangled(hugr, item.node)}
        BY <3>1 DEF NamesOf
      <4> QED BY <2>6, <3>1, <3>3, <4>3, <4>4, SettleExact
    <3> QED BY <2>6, <3>2, <3>3 DEF EmitRef
  <2>7. ASSUME KindsApart(hugr, given), NEW i \in pending, EmitExtern(i) PROVE Exact'
    <3> DEFINE item == hugr.body[current][i]
    <3>1. /\ phase = "body" /\ item.op = "extern"
          /\ Settle(i, GetFunc(symtab, item.sym, item.ty))
      BY <2>7 DEF EmitExtern
    <3>2. item.sym \in FuncNames(hugr, given) \cap Name /\ item.ty \in Type
      BY <2>4, <2>5, <3>1, AskedFor, ItemTypes
    <3>3. ASSUME NEW r \in GetFunc(symtab, item.sym, item.ty)
          PROVE  Sound(r) /\ AddsAtMost(r, item.sym)
      BY <2>4, <2>7, <3>2, <3>3, FuncFiled, GetFuncSound
    <3>4. NamesOf(hugr, item) = {item.sym}
      BY <3>1 DEF NamesOf
    <3> QED BY <2>7, <3>1, <3>3, <3>4, SettleExact
  <2>8. ASSUME KindsApart(hugr, given), NEW i \in pending, EmitGlobal(i) PROVE Exact'
    <3> DEFINE item == hugr.body[current][i]
    <3>1. /\ phase = "body" /\ item.op = "global"
          /\ Settle(i, GetGlobal(symtab, item.sym, item.ty, item.const))
      BY <2>8 DEF EmitGlobal
    <3>2. /\ item.sym \in GlobalNames(hugr, given) \cap Name
          /\ item.ty \in Type /\ item.const \in BOOLEAN
      BY <2>4, <2>5, <3>1, AskedFor, ItemTypes
    <3>3. ASSUME NEW r \in GetGlobal(symtab, item.sym, item.ty, item.const)
          PROVE  Sound(r) /\ AddsAtMost(r, item.sym)
      BY <2>4, <2>8, <3>2, <3>3, GlobalFiled, GetGlobalSound
    <3>4. NamesOf(hugr, item) = {item.sym}
      BY <3>1 DEF NamesOf
    <3> QED BY <2>8, <3>1, <3>3, <3>4, SettleExact
  <2>9. ASSUME KindsApart(hugr, given), NEW i \in pending, EmitNested(i) PROVE Exact'
    <3>1. /\ phase = "body" /\ hugr.body[current][i].op = "nested"
          /\ pending' = pending \ {i} /\ hugr' = hugr /\ given' = given /\ symtab' = symtab
          /\ emitted' = emitted /\ current' = current /\ phase' = phase
      BY <2>9 DEF EmitNested, callVars
    <3>2. current \in emitted /\ pending \subseteq DOMAIN hugr.body[current]
      BY <3>1 DEF TypeOK
    <3>3. MentionedIn(hugr, emitted, current, pending \ {i})
            = MentionedIn(hugr, emitted, current, pending)
                \cup NamesOf(hugr, hugr.body[current][i])
      BY <3>2, <2>9, OneMore
    <3>4. NamesOf(hugr, hugr.body[current][i]) = {}
      BY <3>1 DEF NamesOf
    <3> QED BY <3>1, <3>3, <3>4 DEF Exact, Accounted
  <2>10. CASE FinishFunc
    <3>1. /\ phase = "body" /\ pending = {} /\ pending' = {} /\ current' = NoNode
          /\ phase' = "worklist" /\ UNCHANGED <<hugr, given, symtab, emitted>>
      BY <2>10 DEF FinishFunc
    <3>2. MentionedIn(hugr, emitted, current, {}) = UNION {NamesUsedBy(hugr, n) : n \in emitted}
      BY AllMentioned
    <3>3. MentionedIn(hugr, emitted, NoNode, {}) = UNION {NamesUsedBy(hugr, n) : n \in emitted}
      BY AllMentioned
    <3> QED BY <3>1, <3>2, <3>3 DEF Exact, Accounted
  <2> QED BY <2>1, <2>2, <2>3, <2>6, <2>7, <2>8, <2>9, <2>10
          DEF Next, Progress, EmitItem, Stop
<1>3. TypeOK /\ Linked /\ Exact => OutputDetermined
  <2> SUFFICES ASSUME TypeOK, Linked, Exact, AtRest, KindsApart(hugr, given)
               PROVE  /\ DOMAIN symtab = DOMAIN given \cup UNION {NamesUsedBy(hugr, n) : n \in emitted}
                      /\ \A n \in emitted : symtab[Mangled(hugr, n)].body = n
                      /\ \A s \in DOMAIN symtab : Accounted(s)
    BY DEF OutputDetermined, Accounted
  <2>1. /\ current = NoNode
        /\ DOMAIN symtab = DOMAIN given \cup MentionedIn(hugr, emitted, current, pending)
        /\ \A s \in DOMAIN symtab : Accounted(s)
    BY DEF Exact, AtRest
  <2>2. current \notin emitted
    BY <2>1, NodeAssumption DEF TypeOK, FuncDefns
  <2>3. MentionedIn(hugr, emitted, current, pending)
          = UNION {NamesUsedBy(hugr, n) : n \in emitted}
    BY <2>2, AllMentioned
  <2>4. \A n \in emitted : symtab[Mangled(hugr, n)].body = n
    BY DEF Linked
  <2> QED BY <2>1, <2>3, <2>4
<1> QED BY <1>1, <1>2, <1>3, TypeCorrect, LinkedAlways, PTL DEF Spec

-----------------------------------------------------------------------------
(* The whole module                                                        *)

\* For any HUGRs, given modules and namers: once all FuncDefns of
\* the module have been asked for and no call has failed, each has a function of
\* its own and all references to it are references to that one, whatever names
\* collide; while no symbol is a function for one and a global for another.
THEOREM WholeModuleIsLinked == Spec => []WholeModuleLinked
<1>1. TypeOK /\ Linked /\ Covered => WholeModuleLinked
  <2> SUFFICES ASSUME TypeOK, Linked, Covered, AtRest,
                      TopFuncDefns(hugr) \subseteq requested, KindsApart(hugr, given)
               PROVE  /\ \A n \in FuncDefns(hugr) :
                           /\ Mangled(hugr, n) \in DOMAIN symtab
                           /\ symtab[Mangled(hugr, n)].body = n
                      /\ \A r \in refs :
                           LET item == ItemOf(r) IN
                             item.op = "ref" /\ item.node \in FuncDefns(hugr)
                               => symtab[r.val].body = item.node
    BY DEF WholeModuleLinked
  <2>1. worklist = {} /\ todo = {} /\ StillToVisit = {} /\ StillToEmit = {}
    BY DEF AtRest, Covered, StillToVisit, StillToEmit
  <2>2. requested \subseteq emitted
    BY <2>1 DEF AtRest, Covered
  <2>3. \A n \in emitted : NestedIn(hugr, n) \subseteq emitted
    BY <2>1 DEF AtRest, Covered
  <2>4. emitted = FuncDefns(hugr)
    BY <2>2, <2>3, HugrAssumption DEF TypeOK
  <2> QED BY <2>4 DEF Linked
<1> QED BY <1>1, TypeCorrect, LinkedAlways, CoveredAlways, PTL
=============================================================================
