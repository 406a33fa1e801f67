----------------------------- MODULE EmitContract -----------------------------
(***************************************************************************)
(* What EmitHugr promises its caller (the doc comments of emit_func and    *)
(* emit_module in src/emit.rs), with nothing said of how: every requested  *)
(* FuncDefn and every FuncDefn nested in a defined one gets a definition,  *)
(* each of them once, and nothing else does.                               *)
(***************************************************************************)
CONSTANT Node          \* the nodes of the HUGR

VARIABLES nested,      \* the FuncDefns scoped directly inside each FuncDefn
          requested,   \* FuncDefns the caller asked for
          defined,     \* FuncDefns that have a definition
          status       \* where the caller stands

contractVars == <<nested, requested, defined, status>>

\* Everything the requests so far call for has its definition.
Settled == requested \cup UNION {nested[n] : n \in defined} \subseteq defined

Init == /\ nested \in [Node -> SUBSET Node]
        /\ requested = {} /\ defined = {} /\ status = "ready"

Request == /\ status = "ready"
           /\ \E S \in SUBSET Node : requested' = requested \cup S
           /\ status' = "busy"
           /\ UNCHANGED <<nested, defined>>

Define(n) == /\ status = "busy"
             /\ n \in requested \cup UNION {nested[m] : m \in defined}
             /\ n \notin defined
             /\ defined' = defined \cup {n}
             /\ UNCHANGED <<nested, requested, status>>

Return == /\ status = "busy" /\ Settled
          /\ status' = "ready"
          /\ UNCHANGED <<nested, requested, defined>>

Fail == /\ status = "busy"
        /\ status' = "failed"
        /\ UNCHANGED <<nested, requested, defined>>

Close == /\ status = "ready"
         /\ status' = "closed"
         /\ UNCHANGED <<nested, requested, defined>>

Next == Request \/ (\E n \in Node : Define(n)) \/ Return \/ Fail \/ Close

Spec == Init /\ [][Next]_contractVars
=============================================================================
