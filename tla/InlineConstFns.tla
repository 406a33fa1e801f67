---------------------------- MODULE InlineConstFns ----------------------------
(***************************************************************************)
(* utils/inline_constant_functions.rs: a HUGR is rewritten in place until  *)
(* no constant holds a function.  Each pass collects the constants and the *)
(* LoadConstants they feed, then, constant by constant, adds a FuncDefn    *)
(* with the function's HUGR in it, turns the LoadConstants into            *)
(* LoadFunctions and removes the constant.  A function that was inserted   *)
(* may hold constants of its own, which the next pass finds.               *)
(*                                                                         *)
(* A HUGR is a function from nodes to their kind, parent, static source    *)
(* and function: what a constant holds, or what the type of a load and the *)
(* signature of a FuncDefn stand for.  A constant is a function or, as a   *)
(* SumConst, a sum with a function among its values, which the rewriting   *)
(* passes over like the nodes of other kinds.  These, and the loads of     *)
(* constants that hold no function, are left out.                          *)
(*                                                                         *)
(* Nodes are indices, and the graph gives a new node one that nobody has:  *)
(* that of a removed node, or one that has never been used.                *)
(***************************************************************************)
EXTENDS Naturals, Sequences, FiniteSets

CONSTANTS Fns,     \* the functions constants may hold
          Body,    \* Body[f]: the nodes of f's HUGR, its root first, each
                   \* naming parent and static source by position (0: none)
          Mains    \* the functions that the modules to be rewritten contain

Consts == {"FunctionConst", "SumConst"}
Loads  == {"LoadConstant", "LoadFunction"}
Kind   == {"Module", "FuncDefn", "DFG", "CFG"} \cup Consts \cup Loads

NoFn == <<>>       \* of a node that has nothing to do with a function

\* Functions are HUGRs: the root comes first and is the only one, the parent and
\* the static source of a node are in the same function, constants have no
\* children, the two ends of a static edge are of one type, and a load has a
\* static source of its kind.
ASSUME BodyAssumption ==
    /\ Mains \subseteq Fns
    /\ Body \in [Fns -> Seq([kind : Kind, parent : Nat, fn : Fns \cup {NoFn}, from : Nat])]
    /\ \A f \in Fns : Body[f] # <<>>
    /\ \A f \in Fns : \A i \in DOMAIN Body[f] :
         LET b == Body[f][i] IN
         /\ b.parent = 0 <=> i = 1
         /\ {b.parent, b.from} \subseteq DOMAIN Body[f] \cup {0}
         /\ b.kind = "FunctionConst" => b.fn \in Fns
         /\ b.parent # 0 => Body[f][b.parent].kind \notin Consts
         /\ b.from # 0 => Body[f][b.from].fn = b.fn
         /\ b.kind = "LoadConstant" => b.from # 0 /\ Body[f][b.from].kind \in Consts
         /\ b.kind = "LoadFunction" => b.from # 0 /\ Body[f][b.from].kind = "FuncDefn"

VARIABLES hugr,         \* the HUGR
          next,         \* the first index that has never been used
          phase,        \* "collect", "rewrite", "done" (Ok) or "failed" (Err)
          const_funs,   \* the constants of this pass that are still to be rewritten
          any_changes

vars == <<hugr, next, phase, const_funs, any_changes>>

NoNode == 0
Root   == 1     \* the HUGR's root, a module

Node(kind, parent, fn, from) ==
    [kind |-> kind, parent |-> parent, fn |-> fn, from |-> from]

-----------------------------------------------------------------------------
(* Operations of the HUGR. *)

\* The nodes of two HUGRs together.
Merge(h, g) == [n \in DOMAIN h \cup DOMAIN g |-> IF n \in DOMAIN h THEN h[n] ELSE g[n]]

\* Indices that up to k new nodes of h may take over from removed ones, in any order.
Reusable(h, k) ==
    {r \in UNION {[1 .. j -> (Root .. next - 1) \ DOMAIN h] : j \in 0 .. k} :
        \A i, j \in DOMAIN r : r[i] = r[j] => i = j}

\* The index of the i-th new node.
Place(reused, i) == IF i \in DOMAIN reused THEN reused[i] ELSE next + i - Len(reused) - 1

\* The nodes f's HUGR becomes below parent when its nodes are given indices at.
Copies(f, parent, at) ==
    [n \in {at[i] : i \in DOMAIN Body[f]} |->
        LET b == Body[f][CHOOSE i \in DOMAIN Body[f] : at[i] = n]
        IN Node(b.kind, IF b.parent = 0 THEN parent ELSE at[b.parent], b.fn,
                        IF b.from = 0 THEN NoNode ELSE at[b.from])]

\* Faulty: leaves the edges of the removed node dangling.
RemoveNodeLeavesEdges(h, gone) == [n \in DOMAIN h \ {gone} |-> h[n]]

\* remove_node: the node goes, and with it the edges that leave it.
RemoveNode(h, gone) ==
    [n \in DOMAIN h \ {gone} |-> [h[n] EXCEPT !.from = IF @ = gone THEN NoNode ELSE @]]

OutputNeighbours(h, n) == {m \in DOMAIN h : h[m].from = n}

FunctionConsts(h) == {n \in DOMAIN h : h[n].kind = "FunctionConst"}

-----------------------------------------------------------------------------
(* inline_constant_functions_impl. *)

\* What the collection refuses: a function whose root is neither a DFG nor a
\* FuncDefn, or a constant with a use that is not a LoadConstant.
Unsupported(h, n) ==
    \/ Body[h[n].fn][1].kind \notin {"DFG", "FuncDefn"}
    \/ \E m \in OutputNeighbours(h, n) : h[m].kind # "LoadConstant"

CollectFails ==
    /\ phase = "collect"
    /\ \E n \in FunctionConsts(hugr) : Unsupported(hugr, n)
    /\ phase' = "failed"
    /\ UNCHANGED <<hugr, next, const_funs, any_changes>>

\* Faulty: any_changes is not reset at the start of a pass.
CollectKeepsChanges ==
    /\ phase = "collect"
    /\ \A n \in FunctionConsts(hugr) : ~Unsupported(hugr, n)
    /\ const_funs' = {[konst |-> n, fn |-> hugr[n].fn, loads |-> OutputNeighbours(hugr, n)] :
                         n \in FunctionConsts(hugr)}
    /\ phase' = "rewrite"
    /\ UNCHANGED <<hugr, next, any_changes>>

\* Each constant is collected with a copy of its function and its uses.
Collect ==
    /\ phase = "collect"
    /\ \A n \in FunctionConsts(hugr) : ~Unsupported(hugr, n)
    /\ const_funs' = {[konst |-> n, fn |-> hugr[n].fn, loads |-> OutputNeighbours(hugr, n)] :
                         n \in FunctionConsts(hugr)}
    /\ any_changes' = FALSE
    /\ phase' = "rewrite"
    /\ UNCHANGED <<hugr, next>>

\* Faulty: forgets to insert the body.
FuncDefnNodesOnly(fn, at) == [n \in {at[1]} |-> Node("FuncDefn", Root, fn, NoNode)]

\* A FuncDefn of the function's type is added to the module, and the function's
\* HUGR below it.
FuncDefnNodes(fn, at) ==
    Merge([n \in {at[1]} |-> Node("FuncDefn", Root, fn, NoNode)],
          Copies(fn, at[1], [i \in DOMAIN Body[fn] |-> at[i + 1]]))

\* Faulty: replaces every LoadConstant there is.
ReplaceLoadsAll(h, entry) ==
    [n \in DOMAIN h |-> IF h[n].kind = "LoadConstant"
                        THEN [h[n] EXCEPT !.kind = "LoadFunction", !.fn = entry.fn]
                        ELSE h[n]]

\* replace_op leaves the edges of the load as they are.
ReplaceLoads(h, entry) ==
    [n \in DOMAIN h |-> IF n \in entry.loads
                        THEN [h[n] EXCEPT !.kind = "LoadFunction", !.fn = entry.fn]
                        ELSE h[n]]

\* The constants are rewritten in the order of their indices.
First(S) == CHOOSE e \in S : \A d \in S : e.konst <= d.konst

\* Faulty: removes the constant before it adds the FuncDefn, which may then take
\* the constant's index.
RewriteUsedRemovesFirst ==
    /\ phase = "rewrite" /\ const_funs # {} /\ First(const_funs).loads # {}
    /\ LET entry == First(const_funs)
           kept  == RemoveNode(ReplaceLoads(hugr, entry), entry.konst)
           len   == 1 + Len(Body[entry.fn])
       IN  /\ \E reused \in Reusable(kept, len) :
                 /\ hugr' = Merge(kept,
                                 FuncDefnNodes(entry.fn, [i \in 1 .. len |-> Place(reused, i)]))
                 /\ next' = next + len - Len(reused)
           /\ const_funs' = const_funs \ {entry}
    /\ any_changes' = TRUE
    /\ UNCHANGED phase

\* A constant in use: its FuncDefn is added before it is removed.
RewriteUsed ==
    /\ phase = "rewrite" /\ const_funs # {} /\ First(const_funs).loads # {}
    /\ LET entry == First(const_funs)
           len   == 1 + Len(Body[entry.fn])
       IN  /\ \E reused \in Reusable(hugr, len) :
                 /\ hugr' = Merge(RemoveNode(ReplaceLoads(hugr, entry), entry.konst),
                                 FuncDefnNodes(entry.fn, [i \in 1 .. len |-> Place(reused, i)]))
                 /\ next' = next + len - Len(reused)
           /\ const_funs' = const_funs \ {entry}
    /\ any_changes' = TRUE
    /\ UNCHANGED phase

\* A constant nobody loads is only removed.
RemoveUnused ==
    /\ phase = "rewrite" /\ const_funs # {} /\ First(const_funs).loads = {}
    /\ hugr' = RemoveNode(hugr, First(const_funs).konst)
    /\ const_funs' = const_funs \ {First(const_funs)}
    /\ UNCHANGED <<phase, any_changes, next>>

\* Faulty: one pass, whatever it has inserted.
EndPassAtOnce ==
    /\ phase = "rewrite" /\ const_funs = {}
    /\ phase' = "done"
    /\ UNCHANGED <<hugr, next, const_funs, any_changes>>

\* The end of a pass, and the while loop around it.
EndPass ==
    /\ phase = "rewrite" /\ const_funs = {}
    /\ phase' = IF any_changes THEN "collect" ELSE "done"
    /\ UNCHANGED <<hugr, next, const_funs, any_changes>>

-----------------------------------------------------------------------------
(* The module: a root, and the nodes of a FuncDefn below it. *)
Init == /\ \E f \in Mains : /\ hugr = Merge([n \in {Root} |-> Node("Module", NoNode, NoFn, NoNode)],
                                            Copies(f, Root, [i \in DOMAIN Body[f] |-> Root + i]))
                              /\ next = Root + 1 + Len(Body[f])
        /\ phase = "collect"
        /\ const_funs = {}
        /\ any_changes = FALSE

Next == CollectFails \/ Collect \/ RewriteUsed \/ RemoveUnused \/ EndPass

\* One call, a sequential program: it runs until it returns.
Spec == Init /\ [][Next]_vars /\ WF_vars(Next)

-----------------------------------------------------------------------------
(* Properties. *)

\* The type invariant: a tree below the root, static edges between its nodes.
TypeOK ==
    /\ phase \in {"collect", "rewrite", "done", "failed"}
    /\ any_changes \in BOOLEAN
    /\ DOMAIN hugr \subseteq Root .. next - 1
    /\ hugr[Root].kind = "Module"
    /\ \A n \in DOMAIN hugr : /\ hugr[n].parent \in DOMAIN hugr \cup {NoNode}
                              /\ hugr[n].parent = NoNode => n = Root
                              /\ hugr[n].from \in DOMAIN hugr \cup {NoNode}
    /\ \A e \in const_funs : e.loads \cup {e.konst} \subseteq DOMAIN hugr

\* Whatever the nesting of functions in constants, the call ends.
Terminates == <>(phase \in {"done", "failed"})

\* A call that returns Ok leaves no constant whose value is a function, also none
\* inside the functions it inserted (the tests ask this of two HUGRs).  One that
\* holds a function inside a sum may be left: see NothingLeftToRefuse.
NoConstFunctionsLeft == phase = "done" => FunctionConsts(hugr) = {}

\* The uses of a constant are collected before any constant of the pass is
\* rewritten.  Rewriting the others does not make them out of date: the indices
\* that were collected still stand for the same nodes, though those of removed
\* constants may by now stand for new ones.
CollectedUsesAreCurrent ==
    \A e \in const_funs :
        /\ hugr[e.konst].kind = "FunctionConst" /\ hugr[e.konst].fn = e.fn
        /\ OutputNeighbours(hugr, e.konst) = e.loads
        /\ \A n \in e.loads : hugr[n].kind = "LoadConstant"

\* After Ok a load, also one inside the functions that were inserted, loads a sum
\* or is a LoadFunction.  One that was a LoadFunction before is still linked to its
\* FuncDefn; for the others the module has one of their function, with one body.
EveryLoadHasItsFunction ==
    phase = "done" =>
        \A n \in DOMAIN hugr :
            /\ hugr[n].kind = "LoadConstant" =>
                 hugr[n].from \in DOMAIN hugr /\ hugr[hugr[n].from].kind = "SumConst"
            /\ hugr[n].kind = "LoadFunction" =>
               \/ hugr[n].from \in DOMAIN hugr /\ hugr[hugr[n].from].kind = "FuncDefn"
               \/ \E d \in DOMAIN hugr :
                    /\ hugr[d].kind = "FuncDefn" /\ hugr[d].parent = Root
                    /\ hugr[d].fn = hugr[n].fn
                    /\ Cardinality({m \in DOMAIN hugr : hugr[m].parent = d}) = 1

\* Rewriting touches nothing but function constants and their loads, and a load
\* goes on loading the same function, so the wires it feeds keep their type.
OnlyConstantsAndLoadsChange ==
    [][\A n \in DOMAIN hugr :
          /\ n \in DOMAIN hugr' => /\ hugr'[n].fn = hugr[n].fn
                                   /\ hugr'[n].parent = hugr[n].parent
                                   /\ hugr'[n] # hugr[n] => hugr[n].kind = "LoadConstant"
          /\ n \notin DOMAIN hugr' => hugr[n].kind = "FunctionConst"]_vars

\* After Ok there is no constant left that emit_value refuses with the words of
\* emit/ops.rs:123-127, that this pass is provided for eliminating it: none that
\* is a function, and none with a function among the values of its sum.
NothingLeftToRefuse ==
    phase = "done" => \A n \in DOMAIN hugr : hugr[n].kind \notin Consts

\* The result can be lowered, which is what emit/ops.rs:124-126 says the pass is
\* provided for: a LoadFunction is linked to the function it loads.
LoadsAreLinked ==
    phase = "done" =>
        \A n \in DOMAIN hugr : hugr[n].kind = "LoadFunction" =>
            hugr[n].from \in DOMAIN hugr /\ hugr[hugr[n].from].kind = "FuncDefn"
=============================================================================
