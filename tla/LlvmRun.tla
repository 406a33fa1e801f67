-------------------------------- MODULE LlvmRun --------------------------------
(***************************************************************************)
(* FuncEmitter followed by a run of the code it emitted: once the function *)
(* is complete it is called with some arguments, and its instructions are  *)
(* executed one by one until it returns.                                   *)
(*                                                                         *)
(* Whether that goes well depends on more of a HUGR than its emission      *)
(* does: on where its wires come from, and on their types.  So a function  *)
(* h also has, for each node,                                              *)
(*   h.scope    the nodes outside that it, and what is in it, may refer to *)
(*   h.types    the values that each wire it feeds may carry               *)
(***************************************************************************)
EXTENDS FuncEmitter

CONSTANTS Arguments(_),    \* the arguments a function may be called with
          Meaning(_, _)    \* the outputs of an Op from its name and arguments

VARIABLES
    args,      \* the arguments of the call
    values,    \* what the instructions executed so far last computed
    memory,    \* the contents of the mailboxes; absent until written
    pc         \* <<block, position>> of the next instruction, or <<0, 0>>

machineVars == <<args, values, memory, pc>>

allVars == <<vars, machineVars>>

-----------------------------------------------------------------------------
(* Where wires come from.                                                  *)

\* Every path through the CFG n to its block b passes a: those that do not
\* stay in S.
Dominates(h, n, a, b) ==
    /\ a # b
    /\ \E S \in SUBSET (CfgBlocks(h, n) \ {a, b}) :
         /\ h.kids[n][1] \in S \cup {a}
         /\ \A m \in {s \in S : h.kind[s] = "DataflowBlock"} :
              \A i \in DOMAIN h.rows[m] : h.succ[m][i] \in S \cup {a}

\* The siblings that a node comes after.
Before(h, n) == h.after[n] \cup {h.ins[n][i][1] : i \in DOMAIN h.ins[n]}

\* What a child m of n may refer to, beside what n may.
Adds(h, n, m) ==
    IF IsRegion(h, n) THEN ChildrenOf(h, n) \cap Before(h, m)
    ELSE UNION {ChildrenOf(h, a) : a \in {b \in CfgBlocks(h, n) : Dominates(h, n, b, m)}}

\* Operations use wires of their siblings, and wires in scope.
ASSUME ScopeAssumption ==
    \A h \in Hugrs :
      /\ h.scope[h.root] = {}
      /\ \A n \in NodesOf(h) :
           /\ \A m \in ChildrenOf(h, n) : h.scope[m] = h.scope[n] \cup Adds(h, n, m)
           /\ IsRegion(h, n) =>
                \A m \in ChildrenOf(h, n) : \A i \in DOMAIN h.ins[m] :
                  /\ h.ins[m][i][1] \in ChildrenOf(h, n) \cup h.scope[n]
                  /\ h.ins[m][i][2] \in 1..h.nout[h.ins[m][i][1]]
           /\ h.kind[n] \in Silent \cup {"Output"} => h.nout[n] = 0

-----------------------------------------------------------------------------
(* What wires carry.                                                       *)

InTypes(h, n) == [i \in DOMAIN h.ins[n] |-> h.types[h.ins[n][i][1]][h.ins[n][i][2]]]
TypesIn(h, n) == h.types[TheChild(h, n, "Input")]
TypesOut(h, n) == InTypes(h, TheChild(h, n, "Output"))

\* What enters a child of the CFG n.
BlockTypes(h, n, m) == IF m = h.kids[n][2] THEN h.types[n] ELSE TypesIn(h, m)

\* Values of types S can be passed on as values of types T.
Passes(S, T) == \A i \in DOMAIN S : S[i] \subseteq T[i]

\* Each value of the first of the types S is of a variant, and its fields and
\* the other values can be passed on as values of the types targets gives it.
Distributes(S, widths, targets) ==
    /\ \A x \in S[1] : /\ x.tag \in Nat /\ x.tag + 1 \in DOMAIN widths
                       /\ \A j \in 1..widths[x.tag + 1] : x.fields[j] \in targets[x.tag + 1][j]
    /\ \A i \in DOMAIN widths : \A j \in 2..Len(S) :
         S[j] \subseteq targets[i][widths[i] + j - 1]

\* The ways to take one value of each type.
Picks(S) == {a \in [DOMAIN S -> UNION {S[i] : i \in DOMAIN S}] :
                 \A i \in DOMAIN S : a[i] \in S[i]}

TypesFit(h, n) ==
    LET S == InTypes(h, n)
        T == h.types[n]
        kids == h.kids[n]
    IN CASE h.kind[n] = "Tag" ->
              \A a \in Picks(S) : [tag |-> h.tag[n], fields |-> a] \in T[1]
         [] h.kind[n] = "LoadConstant" -> h.const[n] \in T[1]
         [] h.kind[n] = "Op" ->
              \A a \in Picks(S) : \A p \in 1..h.nout[n] : Meaning(h.fn[n], a)[p] \in T[p]
         [] h.kind[n] = Guarded ->
              \A a \in Picks(S) :
                /\ Meaning(h.fn[n].test, a)[1].tag \in {0, 1}
                /\ \A f \in {h.fn[n].ok, h.fn[n].bad} : \A p \in 1..h.nout[n] :
                     Meaning(f, a)[p] \in T[p]
         [] h.kind[n] = "DFG" -> Passes(S, TypesIn(h, n)) /\ Passes(TypesOut(h, n), T)
         [] h.kind[n] = "Conditional" ->
              /\ Distributes(S, h.rows[n], [i \in DOMAIN kids |-> TypesIn(h, kids[i])])
              /\ \A m \in ChildrenOf(h, n) : Passes(TypesOut(h, m), T)
         [] h.kind[n] = "CFG" ->
              /\ Passes(S, TypesIn(h, kids[1]))
              /\ \A m \in ChildrenOf(h, n) : h.kind[m] = "DataflowBlock" =>
                   Distributes(TypesOut(h, m), h.rows[m],
                          [i \in DOMAIN h.rows[m] |-> BlockTypes(h, n, h.succ[m][i])])
         [] OTHER -> TRUE

\* Functions are well typed, and called with arguments of the right types.
ASSUME TypesAssumption ==
    \A h \in Hugrs :
      /\ \A n \in NodesOf(h) : TypesFit(h, n)
      /\ \A a \in Arguments(h) : \A i \in 1..h.params : a[i] \in TypesIn(h, h.root)[i]

-----------------------------------------------------------------------------
(* The machine.                                                            *)

Instr == blocks[pc[1]][pc[2]]

Is(op) == pc # <<0, 0>> /\ phase = "emitted" /\ Instr.op = op

Of(v) == IF v[1] = 0 THEN args[v[2]] ELSE values[v]
AllOf(vs) == [i \in DOMAIN vs |-> Of(vs[i])]

Set(f, k, v) == [x \in DOMAIN f \cup {k} |-> IF x = k THEN v ELSE f[x]]

Compute(v) == /\ values' = Set(values, pc, v)
              /\ pc' = <<pc[1], pc[2] + 1>>
              /\ UNCHANGED <<vars, args, memory>>

GoTo(b) == pc' = <<b, 1>> /\ UNCHANGED <<vars, args, values, memory>>

MachineInit == args = <<>> /\ values = <<>> /\ memory = <<>> /\ pc = <<0, 0>>

Call == /\ phase = "emitted" /\ pc = <<0, 0>>
        /\ args' \in Arguments(hugr)
        /\ pc' = <<1, 1>>
        /\ UNCHANGED <<vars, values, memory>>

ExecLoad == Is("load") /\ Instr.mb \in DOMAIN memory /\ Compute(memory[Instr.mb])

ExecStore == /\ Is("store")
             /\ memory' = Set(memory, Instr.mb, Of(Instr.val))
             /\ pc' = <<pc[1], pc[2] + 1>>
             /\ UNCHANGED <<vars, args, values>>

ExecTag == Is("tag") /\ Compute([tag |-> Instr.tag, fields |-> AllOf(Instr.args)])

\* Taking a field of a variant the sum is not in would give poison.
ExecField == /\ Is("field")
             /\ Of(Instr.sum).tag = Instr.tag - 1
             /\ Compute(Of(Instr.sum).fields[Instr.ix])

ExecConst == Is("const") /\ Compute(Instr.const)

ExecApply == Is("apply") /\ Compute(Meaning(Instr.f, AllOf(Instr.args))[Instr.port])

ExecBranch == Is("br") /\ GoTo(Instr.to)

\* The first case doubles as the default of the switch.
ExecSwitch == /\ Is("switch")
              /\ LET i == Of(Instr.on).tag + 1
                 IN GoTo(Instr.to[IF i \in DOMAIN Instr.to THEN i ELSE 1])

Returned == Is("ret")

Exec == \/ ExecLoad \/ ExecStore \/ ExecTag \/ ExecField \/ ExecConst
        \/ ExecApply \/ ExecBranch \/ ExecSwitch

Done == (Returned \/ phase = "panicked") /\ UNCHANGED allVars

RunInit == Init /\ MachineInit
RunNext == (Emit /\ UNCHANGED machineVars) \/ Call \/ Exec \/ Done

RunSpec == RunInit /\ [][RunNext]_allVars

FairRunSpec == RunSpec /\ WF_allVars(RunNext)

-----------------------------------------------------------------------------
\* No mailbox is read before it is written, no field of an absent variant is
\* used, and no value of another activation or an untaken path is needed.
NothingUndefinedIsUsed ==
    /\ Is("load") => Instr.mb \in DOMAIN memory
    /\ pc # <<0, 0>> /\ phase = "emitted" =>
         \A v \in Operands(Instr) : v[1] = 0 \/ v \in DOMAIN values
    /\ Is("field") => Of(Instr.sum).tag = Instr.tag - 1

\* A call comes back whenever the HUGR's own evaluation does.
CallReturns == <>(Returned \/ phase = "panicked")
=============================================================================
