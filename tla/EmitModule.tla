------------------------------ MODULE EmitModule ------------------------------
(***************************************************************************)
(* EmitHugr (src/emit.rs): a caller asks, through emit_func and            *)
(* emit_module, for FuncDefns of a HUGR to be emitted into an LLVM module. *)
(* emit_func works off a set of FuncDefns; emitting the body of one looks  *)
(* symbols up and may discover FuncDefns scoped inside it, which join the  *)
(* worklist.                                                               *)
(*                                                                         *)
(* A function body is the sequence of those of its operations that touch   *)
(* the LLVM module or the worklist; they are emitted in any order, which   *)
(* covers every topological order of every region.                         *)
(***************************************************************************)
EXTENDS LlvmModule, Naturals

CONSTANTS
    Hugrs,    \* the HUGRs under consideration, each with a Namer
    Modules   \* the LLVM modules that EmitHugr::new may be handed

Item ==
    [op : {"ref"}, node : Node]                       \* Call, LoadFunction
      \cup [op : {"extern"}, sym : Name, ty : Type]   \* get_extern_func
      \cup [op : {"global"}, sym : Name, ty : Type, const : BOOLEAN]
      \cup [op : {"nested"}, node : Node]             \* a scoped FuncDefn
      \cup [op : {"unsupported"}]                     \* no handler: Err

Namer == [prefix : Name, postfix_node : BOOLEAN]

\* A HUGR, and the Namer that EmitHugr::new is handed with it.
Hugr == [namer : Namer,
         kind : [Node -> {"FuncDefn", "FuncDecl", "Const", "AliasDefn"}],
         name : [Node -> Name],
         sig : [Node -> Type],
         generic : [Node -> BOOLEAN],     \* the signature has type parameters
         top : Seq(Node),                 \* the children of the Module root
         body : [Node -> Seq(Item)]]

FuncDefns(h) == {n \in Node : h.kind[n] = "FuncDefn"}

ItemsOf(h, n) == {h.body[n][i] : i \in DOMAIN h.body[n]}

NestedIn(h, n) == {item.node : item \in {it \in ItemsOf(h, n) : it.op = "nested"}}

TopFuncDefns(h) == {h.top[i] : i \in DOMAIN h.top} \cap FuncDefns(h)

\* A FuncDefn's scoped definitions are FuncDefns too, and a FuncDefn is either
\* a child of the root or scoped in another.
ASSUME HugrAssumption ==
    \A h \in Hugrs :
      /\ h \in Hugr
      /\ \A n \in Node : NestedIn(h, n) \subseteq FuncDefns(h)
      /\ \A S \in SUBSET FuncDefns(h) :
           TopFuncDefns(h) \subseteq S /\ (\A n \in S : NestedIn(h, n) \subseteq S)
             => S = FuncDefns(h)

ASSUME ModuleAssumption ==
    \A tab \in Modules :
      IsSymbolTable(tab) /\ \A s \in DOMAIN tab : tab[s].body \in {NoNode, Foreign}

VARIABLES
    hugr,        \* the HUGR being emitted
    given,       \* the LLVM module as it was handed to EmitHugr::new
    symtab,      \* the LLVM module
    refs,        \* the value each emitted Call, LoadFunction, ... ended up with
    emitted,     \* EmitHugr::emitted
    worklist,    \* emit_func's worklist
    todo,        \* EmitFuncContext::todo
    current,     \* the FuncDefn whose body is being emitted, or NoNode
    pending,     \* the positions of its body still to be emitted
    cursor,      \* emit_module's position in the children of the root, or 0
    requested,   \* history: every FuncDefn emit_func was called with
    phase

vars == <<hugr, given, symtab, refs, emitted, worklist, todo, current, pending,
          cursor, requested, phase>>

\* What emitting a body may touch, and what only the calls around it touch.
bodyVars == <<symtab, refs, todo, pending>>
callVars == <<hugr, given, emitted, worklist, current, cursor, requested>>

Phase == {"idle", "module", "worklist", "body", "failed", "finished"}

-----------------------------------------------------------------------------
\* Faulty: never appends the node index.
NameFuncWithoutIndex(namer, name, node) == namer.prefix \o name

\* Namer::name_func
NameFunc(namer, name, node) ==
    namer.prefix \o name \o (IF namer.postfix_node THEN <<node>> ELSE <<>>)

Mangled(h, n) == NameFunc(h.namer, h.name[n], n)

Failure == {[tab |-> symtab, val |-> <<>>, ok |-> FALSE]}

\* Faulty: a FuncDecl is looked up under its own name.
GetHugrFuncDeclUnmangled(n) ==
    IF hugr.generic[n]
    THEN Failure
    ELSE GetFunc(symtab,
                 IF hugr.kind[n] = "FuncDecl" THEN hugr.name[n] ELSE Mangled(hugr, n),
                 hugr.sig[n])

\* get_func_defn and get_func_decl, both get_hugr_func_impl.
GetHugrFunc(n) ==
    IF hugr.generic[n]
    THEN Failure
    ELSE GetFunc(symtab, Mangled(hugr, n), hugr.sig[n])

Fail == /\ phase' = "failed"
        /\ UNCHANGED <<bodyVars, callVars>>

-----------------------------------------------------------------------------
\* The caller: EmitHugr::new, then any calls, then finish.
Init == /\ hugr \in Hugrs
        /\ given \in Modules /\ symtab = given
        /\ refs = {}
        /\ emitted = {} /\ worklist = {} /\ todo = {} /\ pending = {}
        /\ current = NoNode
        /\ cursor = 0
        /\ requested = {}
        /\ phase = "idle"

CallEmitFunc(n) ==
    /\ phase = "idle" /\ n \in FuncDefns(hugr)
    /\ worklist' = {n}
    /\ requested' = requested \cup {n}
    /\ phase' = "worklist"
    /\ UNCHANGED <<bodyVars, hugr, given, emitted, current, cursor>>

CallEmitModule ==
    /\ phase = "idle"
    /\ cursor' = 1
    /\ requested' = requested \cup TopFuncDefns(hugr)
    /\ phase' = "module"
    /\ UNCHANGED <<bodyVars, hugr, given, emitted, worklist, current>>

Finish ==
    /\ phase = "idle"
    /\ phase' = "finished"
    /\ UNCHANGED <<bodyVars, callVars>>

\* An Err consumes the EmitHugr; finish does too.  Nothing can follow.
Stop == phase \in {"failed", "finished"} /\ UNCHANGED vars

-----------------------------------------------------------------------------
\* Faulty: treats a FuncDecl as something to emit.
EmitModuleChildOfAnyKind ==
    /\ phase = "module" /\ cursor \in DOMAIN hugr.top
    /\ worklist' = {hugr.top[cursor]}
    /\ cursor' = cursor + 1
    /\ phase' = "worklist"
    /\ UNCHANGED <<bodyVars, hugr, given, emitted, current, requested>>

\* emit_module: one iteration per child of the root.
EmitModuleChild ==
    /\ phase = "module" /\ cursor \in DOMAIN hugr.top
    /\ LET child == hugr.top[cursor] IN
         \/ /\ hugr.kind[child] = "FuncDefn"
            /\ worklist' = {child}
            /\ cursor' = cursor + 1
            /\ phase' = "worklist"
            /\ UNCHANGED <<bodyVars, hugr, given, emitted, current, requested>>
         \/ /\ hugr.kind[child] \in {"FuncDecl", "Const"}
            /\ cursor' = cursor + 1
            /\ UNCHANGED <<bodyVars, hugr, given, emitted, worklist, current,
                           requested, phase>>
         \/ /\ hugr.kind[child] = "AliasDefn"
            /\ Fail

EmitModuleReturns ==
    /\ phase = "module" /\ cursor \notin DOMAIN hugr.top
    /\ cursor' = 0
    /\ phase' = "idle"
    /\ UNCHANGED <<bodyVars, hugr, given, emitted, worklist, current, requested>>

-----------------------------------------------------------------------------
\* emit_func: pop any member of the worklist and hand it to emit_func_impl.
EmitFuncReturns ==
    /\ phase = "worklist" /\ worklist = {}
    /\ phase' = IF cursor = 0 THEN "idle" ELSE "module"
    /\ UNCHANGED <<bodyVars, callVars>>

\* Faulty: looks at a member of the worklist without taking it out.
SkipEmittedPeeks(n) ==
    /\ phase = "worklist" /\ n \in worklist
    /\ n \in emitted
    /\ UNCHANGED vars

SkipEmitted(n) ==
    /\ phase = "worklist" /\ n \in worklist
    /\ n \in emitted
    /\ worklist' = worklist \ {n}
    /\ UNCHANGED <<bodyVars, hugr, given, emitted, current, cursor, requested, phase>>

\* Faulty: does not ask whether the function already has a basic block.
BeginFuncUnchecked(n) ==
    /\ phase = "worklist" /\ n \in worklist
    /\ n \notin emitted
    /\ \E r \in GetHugrFunc(n) :
         IF r.ok
         THEN /\ emitted' = emitted \cup {n}
              /\ worklist' = worklist \ {n}
              /\ symtab' = [r.tab EXCEPT ![r.val].body = n]
              /\ current' = n
              /\ pending' = DOMAIN hugr.body[n]
              /\ todo' = {}
              /\ phase' = "body"
              /\ UNCHANGED <<hugr, given, refs, cursor, requested>>
         ELSE Fail

\* emit_func_impl up to the body.  EmitFuncContext::new refuses a function
\* that already has a basic block, and adds the first ones.
BeginFunc(n) ==
    /\ phase = "worklist" /\ n \in worklist
    /\ n \notin emitted
    /\ \E r \in GetHugrFunc(n) :
         IF r.ok /\ r.tab[r.val].body = NoNode
         THEN /\ emitted' = emitted \cup {n}
              /\ worklist' = worklist \ {n}
              /\ symtab' = [r.tab EXCEPT ![r.val].body = n]
              /\ current' = n
              /\ pending' = DOMAIN hugr.body[n]
              /\ todo' = {}
              /\ phase' = "body"
              /\ UNCHANGED <<hugr, given, refs, cursor, requested>>
         ELSE Fail

-----------------------------------------------------------------------------
\* The operations of a body, in any order.
Settle(i, outcomes) ==
    \E r \in outcomes :
      IF r.ok
      THEN /\ symtab' = r.tab
           /\ refs' = refs \cup {[from |-> current, ix |-> i, val |-> r.val]}
           /\ pending' = pending \ {i}
           /\ UNCHANGED <<todo, callVars, phase>>
      ELSE Fail

\* emit_call and emit_load_function
EmitRef(i) ==
    LET item == hugr.body[current][i] IN
      /\ phase = "body" /\ i \in pending /\ item.op = "ref"
      /\ IF hugr.kind[item.node] \in {"FuncDefn", "FuncDecl"}
         THEN Settle(i, GetHugrFunc(item.node))
         ELSE Fail

\* Handlers that call out: printf, abort, panic hooks, intrinsics.
EmitExtern(i) ==
    LET item == hugr.body[current][i] IN
      /\ phase = "body" /\ i \in pending /\ item.op = "extern"
      /\ Settle(i, GetFunc(symtab, item.sym, item.ty))

\* ConstExternalSymbol and the string constants of the prelude.
EmitGlobal(i) ==
    LET item == hugr.body[current][i] IN
      /\ phase = "body" /\ i \in pending /\ item.op = "global"
      /\ Settle(i, GetGlobal(symtab, item.sym, item.ty, item.const))

\* A scoped FuncDefn is left for later: push_todo_func.
EmitNested(i) ==
    LET item == hugr.body[current][i] IN
      /\ phase = "body" /\ i \in pending /\ item.op = "nested"
      /\ todo' = todo \cup {item.node}
      /\ pending' = pending \ {i}
      /\ UNCHANGED <<symtab, refs, callVars, phase>>

EmitUnsupported(i) ==
    /\ phase = "body" /\ i \in pending
    /\ hugr.body[current][i].op = "unsupported"
    /\ Fail

\* Faulty: the new tasks are lost.
FinishFuncForgets ==
    /\ phase = "body" /\ pending = {}
    /\ todo' = {}
    /\ current' = NoNode
    /\ phase' = "worklist"
    /\ UNCHANGED <<hugr, given, symtab, refs, emitted, worklist, pending, cursor,
                   requested>>

\* The return is built, and the new tasks extend the worklist.
FinishFunc ==
    /\ phase = "body" /\ pending = {}
    /\ worklist' = worklist \cup todo
    /\ todo' = {}
    /\ current' = NoNode
    /\ phase' = "worklist"
    /\ UNCHANGED <<hugr, given, symtab, refs, emitted, pending, cursor, requested>>

-----------------------------------------------------------------------------
EmitItem == \E i \in pending : EmitRef(i) \/ EmitExtern(i) \/ EmitGlobal(i)
                                 \/ EmitNested(i) \/ EmitUnsupported(i)

\* What runs by itself once the caller has made a call.
Progress ==
    \/ EmitModuleChild \/ EmitModuleReturns
    \/ EmitFuncReturns \/ (\E n \in worklist : SkipEmitted(n) \/ BeginFunc(n))
    \/ EmitItem \/ FinishFunc

Next ==
    \/ (\E n \in Node : CallEmitFunc(n)) \/ CallEmitModule \/ Finish
    \/ Progress
    \/ Stop

Spec == Init /\ [][Next]_vars

\* The emission is a plain loop: once called, it keeps taking steps.
FairSpec == Spec /\ WF_vars(Progress)
-----------------------------------------------------------------------------
\* The types of the variables; only FuncDefns are ever put on a worklist, so
\* emit_func's "node in worklist was not a FuncDefn" panic is never reached.
TypeOK ==
    /\ hugr \in Hugrs /\ given \in Modules
    /\ IsSymbolTable(symtab)
    /\ refs \subseteq [from : Node, ix : Nat, val : Name]
    /\ emitted \subseteq FuncDefns(hugr)
    /\ worklist \subseteq FuncDefns(hugr)
    /\ todo \subseteq FuncDefns(hugr)
    /\ current \in Node \cup {NoNode}
    /\ pending \subseteq Nat
    /\ cursor \in Nat
    /\ requested \subseteq FuncDefns(hugr)
    /\ phase \in Phase
    /\ phase = "body" => current \in emitted /\ pending \subseteq DOMAIN hugr.body[current]

(* Names.  Functions and globals live in one name space in LLVM, but each  *)
(* lookup sees only its own kind.                                          *)
SymsOf(h, op) ==
    {item.sym : item \in {it \in UNION {ItemsOf(h, n) : n \in Node} : it.op = op}}

Functions(h) == {n \in Node : h.kind[n] \in {"FuncDefn", "FuncDecl"}}

GivenNames(tab, kind) == {s \in DOMAIN tab : tab[s].kind = kind}

FuncNames(h, tab) == {Mangled(h, n) : n \in Functions(h)} \cup SymsOf(h, "extern")
                       \cup GivenNames(tab, "func")

GlobalNames(h, tab) == SymsOf(h, "global") \cup GivenNames(tab, "global")

\* No symbol is a function for one and a global for another, of those that ask
\* for it and the module that was there before.
KindsApart(h, tab) == FuncNames(h, tab) \cap GlobalNames(h, tab) = {}

\* No symbol that handlers ask for looks like the name of a HUGR function.
Reserved(h) ==
    \A n \in Functions(h), sym \in SymsOf(h, "extern") : sym # Mangled(h, n)

\* Handlers agree on what they mean by a symbol.
Consistent(h) ==
    \A n, m \in Node : \A s \in ItemsOf(h, n), t \in ItemsOf(h, m) :
        s.op = t.op /\ s.op \in {"extern", "global"} /\ s.sym = t.sym => s = t

\* Nothing in the HUGR is beyond the lowering.
Supported(h) ==
    /\ \A n \in Functions(h) : ~h.generic[n]
    /\ \A i \in DOMAIN h.top : h.kind[h.top[i]] # "AliasDefn"
    /\ \A n \in Node : \A item \in ItemsOf(h, n) :
         /\ item.op # "unsupported"
         /\ item.op = "ref" => item.node \in Functions(h)

\* What the module holds beforehand has the types it will be asked for with,
\* and leaves the definitions to the HUGR.
Agrees(h, tab) ==
    /\ \A n \in Functions(h) : Mangled(h, n) \in DOMAIN tab =>
         /\ tab[Mangled(h, n)].ty = h.sig[n]
         /\ n \in FuncDefns(h) => tab[Mangled(h, n)].body = NoNode
    /\ \A n \in Node : \A item \in ItemsOf(h, n) :
         item.op \in {"extern", "global"} /\ item.sym \in DOMAIN tab =>
           /\ tab[item.sym].ty = item.ty
           /\ item.op = "global" => tab[item.sym].const = item.const

ItemOf(r) == hugr.body[r.from][r.ix]

-----------------------------------------------------------------------------
(* Safety                                                                  *)

\* A call of, or a pointer to, a FuncDefn that has been emitted is a
\* reference to the very function that holds its body, whether the reference
\* or the body came first, in whatever order the worklist was popped, and
\* even when two FuncDefns share a name (get_func_impl, emit_func).  Of a
\* FuncDefn that has not been emitted it says nothing: see WholeModuleLinked.
CallsReachTheirTarget ==
    KindsApart(hugr, given) =>
      \A r \in refs :
        LET item == ItemOf(r) IN
          item.op = "ref" /\ item.node \in emitted
            => symtab[r.val].body = item.node

\* Why: no lookup is ever renamed, so a symbol is filed under the name it was
\* asked for, references to a function all carry its mangled name, and that is
\* where its body is (get_hugr_func_impl).
Linked ==
    KindsApart(hugr, given) =>
      /\ \A s \in DOMAIN symtab :
           s \in (IF symtab[s].kind = "func" THEN FuncNames(hugr, given)
                  ELSE GlobalNames(hugr, given))
      /\ \A r \in refs :
           LET item == ItemOf(r) IN
             item.op = "ref" => r.val = Mangled(hugr, item.node)
      /\ \A n \in emitted :
           /\ Mangled(hugr, n) \in DOMAIN symtab
           /\ symtab[Mangled(hugr, n)].body = n

\* A HUGR whose operations are all supported is never refused: with node
\* indices in the names, no two functions get in each other's way, and
\* re-emitting, or meeting a function before its definition, is not an error
\* (get_func_impl, emit_func_impl, EmitFuncContext::new).
NoSpuriousFailure ==
    /\ hugr.namer.postfix_node
    /\ KindsApart(hugr, given) /\ Reserved(hugr) /\ Consistent(hugr)
    /\ Supported(hugr) /\ Agrees(hugr, given)
    => phase # "failed"

AtRest == phase \in {"idle", "finished"}

NamesUsedBy(h, n) ==
    {Mangled(h, n)}
      \cup {Mangled(h, item.node) : item \in {it \in ItemsOf(h, n) : it.op = "ref"}}
      \cup {item.sym : item \in {it \in ItemsOf(h, n) : it.op \in {"extern", "global"}}}

\* The HashSet worklist is popped in no particular order, and yet the emitted
\* module declares exactly what the emitted bodies mention besides what it held
\* before, and defines exactly the emitted FuncDefns under their own names.
OutputDetermined ==
    AtRest /\ KindsApart(hugr, given) =>
      /\ DOMAIN symtab = DOMAIN given \cup UNION {NamesUsedBy(hugr, n) : n \in emitted}
      /\ \A n \in emitted : symtab[Mangled(hugr, n)].body = n
      /\ \A s \in DOMAIN symtab :
           \/ symtab[s].body = NoNode
           \/ symtab[s].body \in emitted /\ s = Mangled(hugr, symtab[s].body)
           \/ s \in DOMAIN given /\ symtab[s] = given[s]

\* Once the whole module has been asked for and the calls have returned Ok,
\* every FuncDefn has a function of its own under its own name, and whatever
\* refers to it refers to that one.  So names that collide, two FuncDefns called
\* alike or a FuncDefn called like a function that was there before, end in an
\* error and not in a wrong body (EmitFuncContext::new, emit_func).  Short of
\* the whole module this is not so: a reference to a FuncDefn nobody asked for
\* is a reference to whatever has its name.
WholeModuleLinked ==
    AtRest /\ TopFuncDefns(hugr) \subseteq requested /\ KindsApart(hugr, given) =>
      /\ \A n \in FuncDefns(hugr) :
           /\ Mangled(hugr, n) \in DOMAIN symtab
           /\ symtab[Mangled(hugr, n)].body = n
      /\ \A r \in refs :
           LET item == ItemOf(r) IN
             item.op = "ref" /\ item.node \in FuncDefns(hugr)
               => symtab[r.val].body = item.node

\* Doc of get_extern_func: "If this function is called multiple times with
\* the same arguments it will return the same [FunctionValue]."
SameExternSameFunction ==
    \A r, s \in refs :
      ItemOf(r).op = "extern" /\ ItemOf(r) = ItemOf(s) => r.val = s.val

-----------------------------------------------------------------------------
(* Action properties, refinement, liveness                                 *)

\* What has been handed out stays valid: a symbol is never dropped, retyped
\* or given a second body (interior mutability of inkwell's Module).
SymbolsAreStable ==
    [][\A s \in DOMAIN symtab :
         /\ s \in DOMAIN symtab'
         /\ symtab'[s].kind = symtab[s].kind
         /\ symtab'[s].ty = symtab[s].ty
         /\ symtab'[s].const = symtab[s].const
         /\ symtab[s].body # NoNode => symtab'[s].body = symtab[s].body]_vars

\* What is still owed: every requested FuncDefn, and every FuncDefn nested in
\* an emitted one, is emitted, on the worklist or on todo, or comes up later
\* in the root's children or in the body being emitted; and nothing else is
\* on the worklist.
StillToVisit == {hugr.top[j] : j \in {k \in DOMAIN hugr.top : 0 < cursor /\ cursor <= k}}

StillToEmit ==
    {hugr.body[current][i].node :
        i \in {k \in pending : phase = "body" /\ hugr.body[current][k].op = "nested"}}

Covered ==
    phase # "failed" =>
      /\ phase \in {"idle", "module", "finished"} => worklist = {}
      /\ phase \in {"idle", "finished"} => cursor = 0
      /\ phase = "module" => cursor > 0
      /\ cursor > 0 => TopFuncDefns(hugr) \subseteq requested
      /\ phase # "body" => todo = {} /\ pending = {}
      /\ worklist \cup todo \subseteq
           requested \cup UNION {NestedIn(hugr, m) : m \in emitted}
      /\ requested \subseteq emitted \cup worklist \cup StillToVisit
      /\ \A m \in emitted :
           NestedIn(hugr, m) \subseteq
             emitted \cup worklist \cup todo
               \cup (IF m = current THEN StillToEmit ELSE {})

Contract == INSTANCE EmitContract WITH
    nested <- [n \in Node |-> NestedIn(hugr, n)],
    defined <- emitted,
    status <- CASE phase = "idle" -> "ready"
                [] phase = "failed" -> "failed"
                [] phase = "finished" -> "closed"
                [] OTHER -> "busy"

\* EmitHugr keeps the promises of its doc comments.
KeepsContract == Contract!Spec

\* Every call of emit_func or emit_module comes back: the worklist only ever
\* gains FuncDefns nested in the one just emitted, and recursion between
\* functions does not feed it.
CallsReturn == phase \notin {"idle", "failed", "finished"}
                 ~> phase \in {"idle", "failed"}
=============================================================================
