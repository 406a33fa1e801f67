------------------------------ MODULE LlvmModule ------------------------------
(***************************************************************************)
(* The symbol table of the LLVM module under construction, and the two     *)
(* get-or-add lookups of EmitModuleContext (src/emit.rs) that every other  *)
(* part of the lowering goes through.                                      *)
(*                                                                         *)
(* A symbol table is a function from the names in use to symbols; a value  *)
(* handed out by a lookup (FunctionValue, GlobalValue) is identified by    *)
(* the name under which LLVM finally filed it.  Names are sequences of     *)
(* tokens, so that gluing a prefix, a name and a numeric suffix can        *)
(* collide exactly as the strings do.                                      *)
(***************************************************************************)
EXTENDS Sequences

CONSTANTS
    Node,     \* the nodes of a HUGR; as a token, a node is its rendered index
    NoNode,   \* "no FuncDefn": the symbol is a declaration
    Foreign,  \* "not of this HUGR": the function had its blocks beforehand
    Token,    \* the pieces names are made of
    Type,     \* LLVM types, function types included
    Suffix    \* the counters LLVM may append to keep names apart

ASSUME NodeAssumption ==
    NoNode \notin Node /\ Foreign \notin Node /\ Foreign # NoNode
ASSUME TokenAssumption == Node \subseteq Token /\ Suffix \subseteq Token

Name == Seq(Token)

\* body is the FuncDefn whose basic blocks the function holds.
Symbol == [kind : {"func", "global"}, ty : Type, const : BOOLEAN,
           body : Node \cup {NoNode, Foreign}]

IsSymbolTable(tab) == DOMAIN tab \subseteq Name /\ tab \in [DOMAIN tab -> Symbol]

-----------------------------------------------------------------------------
\* Module::get_function and Module::get_global answer only for their own kind.
Holds(tab, kind, name) == name \in DOMAIN tab /\ tab[name].kind = kind

\* LLVM keeps the names of a module unique, whatever their kind: a name that
\* is taken is filed under itself followed by a counter.
FiledUnder(tab, name) ==
    IF name \in DOMAIN tab
    THEN {Append(name, k) : k \in Suffix} \ DOMAIN tab
    ELSE {name}

\* Module::add_function and Module::add_global.
Add(tab, name, symbol) ==
    [n \in DOMAIN tab \cup {name} |-> IF n = name THEN symbol ELSE tab[n]]

-----------------------------------------------------------------------------
(* A lookup has a set of outcomes: the table after it, the value it hands  *)
(* out, and whether it is Ok.                                              *)

\* Faulty: adds without looking first.
AlwaysAdd(tab, name, symbol, matches) ==
    {[tab |-> Add(tab, v, symbol), val |-> v, ok |-> TRUE] :
         v \in FiledUnder(tab, name)}

GetOrAdd(tab, name, symbol, matches) ==
    IF Holds(tab, symbol.kind, name)
    THEN {[tab |-> tab, val |-> name, ok |-> matches]}
    ELSE {[tab |-> Add(tab, v, symbol), val |-> v, ok |-> TRUE] :
              v \in FiledUnder(tab, name)}

\* Faulty: a type mismatch redeclares the function instead of failing.
GetFuncRetypes(tab, name, ty) ==
    LET symbol == [kind |-> "func", ty |-> ty, const |-> FALSE, body |-> NoNode] IN
    IF Holds(tab, "func", name) /\ tab[name].ty # ty
    THEN {[tab |-> Add(tab, name, symbol), val |-> name, ok |-> TRUE]}
    ELSE GetOrAdd(tab, name, symbol, TRUE)

GetFunc(tab, name, ty) ==
    GetOrAdd(tab, name,
             [kind |-> "func", ty |-> ty, const |-> FALSE, body |-> NoNode],
             Holds(tab, "func", name) /\ tab[name].ty = ty)

GetGlobal(tab, name, ty, const) ==
    GetOrAdd(tab, name,
             [kind |-> "global", ty |-> ty, const |-> const, body |-> NoNode],
             /\ Holds(tab, "global", name)
             /\ tab[name].ty = ty
             /\ tab[name].const = const)
=============================================================================
