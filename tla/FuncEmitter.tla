------------------------------ MODULE FuncEmitter ------------------------------
(***************************************************************************)
(* The emission of one FuncDefn into LLVM basic blocks: EmitFuncContext    *)
(* (src/emit/func.rs), the mailboxes that carry every value from one       *)
(* operation to the next (src/emit/func/mailbox.rs), and the emitters of   *)
(* dataflow parents, conditionals and control-flow graphs (src/emit/ops.rs,*)
(* src/emit/ops/cfg.rs, build_destructure in src/sum.rs).                  *)
(*                                                                         *)
(* The emitters call one another recursively while moving one shared       *)
(* builder around; here their activations are the frames of a stack, and   *)
(* each step is what happens between two such calls.  The children of a    *)
(* dataflow parent are visited in any topological order.                   *)
(*                                                                         *)
(* A value is the instruction that computes it, <<block, position>>;       *)
(* <<0, i>> is the i-th parameter.  A mailbox is an alloca, named after    *)
(* the wire it is mapped to or, when anonymous, after its owner.           *)
(***************************************************************************)
EXTENDS Integers, Sequences, FiniteSets, SequencesExt

CONSTANT Hugrs     \* the functions under consideration

Leaf == {"Tag", "LoadConstant", "Op"}             \* Op: ExtensionOp, Call, ...
Guarded == "GuardedOp"                            \* get, set, swap of arrays
Silent == {"Const", "FuncDecl", "FuncDefn"}       \* nothing to emit in place
Parent == {"DFG", "Conditional", "CFG"}
Kind == Leaf \cup Silent \cup Parent
          \cup {Guarded, "Input", "Output", "Case", "DataflowBlock", "ExitBlock"}

(* A function h: its nodes are numbers, a parent's below its children's;   *)
(* h.root is its FuncDefn, h.params and h.results count what it takes and  *)
(* returns; and for each node                                              *)
(*   h.kind, h.kids    its operation and its children                      *)
(*   h.ins, h.nout     the wires <<node, port>> it reads, how many it feeds*)
(*   h.after           the siblings it has order edges from                *)
(*   h.rows            the number of fields of each variant of the sum a   *)
(*                     Conditional or DataflowBlock branches on            *)
(*   h.succ            the successors of a DataflowBlock                   *)
(*   h.tag, h.fn, h.const   of a Tag, an Op, a LoadConstant; the fn of a   *)
(*                     GuardedOp is [test, ok, bad]                        *)

ChildrenOf(h, n) == ToSet(h.kids[n])
NodesOf(h) == DOMAIN h.kind
TheChild(h, n, kind) == CHOOSE m \in ChildrenOf(h, n) : h.kind[m] = kind

HasOne(h, n, kind) ==
    \E m \in ChildrenOf(h, n) : \A k \in ChildrenOf(h, n) : h.kind[k] = kind <=> k = m

IsRegion(h, n) == n = h.root \/ h.kind[n] \in {"DFG", "Case", "DataflowBlock"}

CfgBlocks(h, n) ==
    {m \in ChildrenOf(h, n) : h.kind[m] \in {"DataflowBlock", "ExitBlock"}}

\* The children of a node are those that its operation may have.
ChildrenFit(h, n) ==
    LET Are(kinds) == \A m \in ChildrenOf(h, n) : h.kind[m] \in kinds
        kids == h.kids[n] IN
    /\ IsRegion(h, n) => /\ Are({Guarded, "Input", "Output"} \cup Leaf \cup Silent \cup Parent)
                         /\ HasOne(h, n, "Input") /\ HasOne(h, n, "Output")
    /\ h.kind[n] = "Conditional" => Are({"Case"}) /\ Len(h.rows[n]) = Len(kids)
    /\ h.kind[n] = "CFG" =>
         /\ Len(kids) >= 2 /\ h.kind[kids[1]] = "DataflowBlock"
         /\ \A i \in DOMAIN kids : /\ h.kind[kids[i]] = "ExitBlock" <=> i = 2
                                   /\ \A j \in DOMAIN kids : kids[i] = kids[j] => i = j
         /\ Are({"DataflowBlock", "ExitBlock"} \cup Silent)
         /\ \A m \in ChildrenOf(h, n) : h.kind[m] = "DataflowBlock" =>
              \A i \in DOMAIN h.rows[m] : h.succ[m][i] \in CfgBlocks(h, n)
    /\ ~IsRegion(h, n) /\ h.kind[n] \notin {"Conditional", "CFG"} => kids = <<>>

\* How many values enter and leave a region, and enter a block of the CFG n.
Entering(h, n) == h.nout[TheChild(h, n, "Input")]
Leaving(h, n) == Len(h.ins[TheChild(h, n, "Output")])
BlockTakes(h, n, m) == IF m = h.kids[n][2] THEN h.nout[n] ELSE Entering(h, m)

\* What enters and leaves the regions of a node is as long as what it passes
\* to them and gets from them.
RowsFit(h, n) ==
    LET kids == h.kids[n] IN
    /\ n = h.root => Entering(h, n) = h.params /\ Leaving(h, n) = h.results
    /\ h.kind[n] = "DFG" => Entering(h, n) = Len(h.ins[n]) /\ Leaving(h, n) = h.nout[n]
    /\ h.kind[n] = "Conditional" =>
         /\ h.ins[n] # <<>>
         /\ \A i \in DOMAIN kids : /\ Entering(h, kids[i]) = h.rows[n][i] + Len(h.ins[n]) - 1
                                  /\ Leaving(h, kids[i]) = h.nout[n]
    /\ h.kind[n] = "CFG" =>
         /\ Entering(h, kids[1]) = Len(h.ins[n])
         /\ \A m \in ChildrenOf(h, n) : h.kind[m] = "DataflowBlock" =>
              /\ Leaving(h, m) > 0
              /\ \A i \in DOMAIN h.rows[m] :
                   BlockTakes(h, n, h.succ[m][i]) = h.rows[m][i] + Leaving(h, m) - 1
    /\ h.kind[n] \in {"Tag", "LoadConstant"} => h.nout[n] = 1

\* Functions are valid HUGRs.
ASSUME HugrAssumption ==
    \A h \in Hugrs :
      /\ h.root \in NodesOf(h) /\ NodesOf(h) \subseteq Nat
      /\ h.params \in Nat /\ h.results \in Nat
      /\ h.kind \in [NodesOf(h) -> Kind]
      /\ h.kids \in [NodesOf(h) -> Seq(NodesOf(h))]
      /\ h.ins \in [NodesOf(h) -> Seq(NodesOf(h) \X Nat)]
      /\ h.nout \in [NodesOf(h) -> Nat]
      /\ h.rows \in [NodesOf(h) -> Seq(Nat)]
      /\ h.kind[h.root] = "FuncDefn"
      /\ \A n \in NodesOf(h) :
           /\ \A m \in ChildrenOf(h, n) : n < m
           /\ n # h.root => \E p \in NodesOf(h) : n \in ChildrenOf(h, p)
           /\ ChildrenFit(h, n) /\ RowsFit(h, n)

VARIABLES
    hugr,       \* the function being emitted
    blocks,     \* its basic blocks: 1 is alloca_block, 2 is entry_block
    pos,        \* the block the builder is at the end of
    mailboxes,  \* the allocas in alloca_block
    todo,       \* EmitFuncContext::todo
    stack,      \* the activations of the emitters, innermost last
    phase

vars == <<hugr, blocks, pos, mailboxes, todo, stack, phase>>

-----------------------------------------------------------------------------
(* Instructions and code                                                   *)

Load(mb) == [op |-> "load", mb |-> mb]
Store(mb, v) == [op |-> "store", mb |-> mb, val |-> v]
MakeTag(tag, args) == [op |-> "tag", tag |-> tag, args |-> args]
Field(sum, tag, i) == [op |-> "field", sum |-> sum, tag |-> tag, ix |-> i]
Constant(c) == [op |-> "const", const |-> c]
Apply(f, args, port) == [op |-> "apply", f |-> f, args |-> args, port |-> port]
Branch(b) == [op |-> "br", to |-> b]
Switch(sum, bs) == [op |-> "switch", on |-> sum, to |-> bs]
Return(vs) == [op |-> "ret", vals |-> vs]

IsTerminator(instr) == instr.op \in {"br", "switch", "ret"}

\* The code of the function and the builder's place in it.
Code == [blocks |-> blocks, pos |-> pos]

SetCode(c) == blocks' = c.blocks /\ pos' = c.pos

Build(c, instrs) ==
    [blocks |-> [c.blocks EXCEPT ![c.pos] = @ \o instrs], pos |-> c.pos]

\* The values of the next k instructions.
Upcoming(c, k) == [i \in 1..k |-> <<c.pos, Len(c.blocks[c.pos]) + i>>]

At(c, b) == [c EXCEPT !.pos = b]

\* new_basic_block: k fresh blocks, the first of them NewBlock(c).
NewBlock(c) == Len(c.blocks) + 1
Extend(c, new) == [blocks |-> c.blocks \o new, pos |-> c.pos]
AddBlocks(c, k) == Extend(c, [i \in 1..k |-> <<>>])

-----------------------------------------------------------------------------
(* Mailboxes                                                               *)

WireBox(w) == <<"wire", w[1], w[2]>>

\* new_row_mail_box
AnonymousRow(name, n, k) == [i \in 1..k |-> <<name, n, i>>]

\* node_ins_rmb and node_outs_rmb, by way of map_wire
InsRow(n) == [i \in DOMAIN hugr.ins[n] |-> WireBox(hugr.ins[n][i])]
OutsRow(n) == [p \in 1..hugr.nout[n] |-> WireBox(<<n, p>>)]

\* A mailbox that does not exist yet is allocated in the prologue.
Allocate(rows) == mailboxes' = mailboxes \cup UNION {ToSet(row) : row \in rows}

\* RowMailBox::read: the values read are Upcoming(c, Len(row)).
Read(c, row) == Build(c, [i \in DOMAIN row |-> Load(row[i])])

\* RowMailBox::write and RowPromise::finish
Write(c, row, vs) == Build(c, [i \in DOMAIN row |-> Store(row[i], vs[i])])
-----------------------------------------------------------------------------
(* Activations of the emitters                                             *)

\* DataflowParentEmitter: left are the children not yet visited.
DataflowFrame(n, inputs, outputs) ==
    [is |-> "dataflow", node |-> n, inputs |-> inputs, outputs |-> outputs,
     left |-> ChildrenOf(hugr, n)]

\* emit_conditional: cases are the blocks of the cases entered so far, home
\* is where build_positioned puts the builder back after a case.
ConditionalFrame(n, inputs, exit) ==
    [is |-> "conditional", node |-> n, inputs |-> inputs, exit |-> exit,
     cases |-> <<>>, home |-> pos]

\* CfgEmitter: bb are the blocks of the children, next the child to emit.
CfgFrame(n, bb, outputs) ==
    [is |-> "cfg", node |-> n, bb |-> bb, outputs |-> outputs,
     next |-> 1, home |-> pos]

Top == Last(stack)
Below == stack[Len(stack) - 1]
Pop == Front(stack)
ReplaceTop(frame) == Append(Front(stack), frame)

Running(frame) == phase = "emitting" /\ stack # <<>> /\ Top.is = frame

\* The innermost activation is a dataflow parent all of whose children have
\* been visited, called from an activation of the given kind.
Completed(caller) ==
    /\ Running("dataflow") /\ Top.left = {}
    /\ Len(stack) > 1 /\ Below.is = caller

\* emit_func_impl up to the call of emit_dataflow_parent
Init ==
    /\ hugr \in Hugrs
    /\ blocks = <<<<>>, <<>>>>
    /\ pos = 2
    /\ mailboxes = ToSet(AnonymousRow("ret", hugr.root, hugr.results))
    /\ todo = {}
    /\ stack = <<DataflowFrame(hugr.root,
                               [i \in 1..hugr.params |-> <<0, i>>],
                               AnonymousRow("ret", hugr.root, hugr.results))>>
    /\ phase = "emitting"

-----------------------------------------------------------------------------
(* One child of a dataflow parent                                          *)

\* Topo visits a node once all its siblings with an edge to it are visited.
Ready(n) ==
    /\ \A i \in DOMAIN hugr.ins[n] : hugr.ins[n][i][1] \notin Top.left
    /\ hugr.after[n] \cap Top.left = {}

Visit(n) == Running("dataflow") /\ n \in Top.left /\ Ready(n)

Visited(n) == [Top EXCEPT !.left = @ \ {n}]

\* The inputs of n are read before anything else happens to it.
Args(n) == Upcoming(Code, Len(hugr.ins[n]))
ArgsRead(n) == Read(Code, InsRow(n))

Touches(n) == Allocate({InsRow(n), OutsRow(n)})

EmitInput(n) ==
    /\ Visit(n) /\ hugr.kind[n] = "Input"
    /\ SetCode(Write(Code, OutsRow(n), Top.inputs))
    /\ Touches(n)
    /\ stack' = ReplaceTop(Visited(n))
    /\ UNCHANGED <<hugr, todo, phase>>

EmitOutput(n) ==
    /\ Visit(n) /\ hugr.kind[n] = "Output"
    /\ SetCode(Write(ArgsRead(n), Top.outputs, Args(n)))
    /\ Touches(n)
    /\ stack' = ReplaceTop(Visited(n))
    /\ UNCHANGED <<hugr, todo, phase>>

\* emit_tag, emit_load_constant, and emit_extension_op with a handler that stays
\* in its block, emit_call, emit_call_indirect, emit_load_function: one
\* instruction per output, then the promise is finished.
TagInstrs(n, args) == <<MakeTag(hugr.tag[n], args)>>
ConstantInstrs(n) == <<Constant(hugr.const[n])>>
Applied(f, args, n) == [p \in 1..hugr.nout[n] |-> Apply(f, args, p)]

LeafInstrs(n, args) ==
    CASE hugr.kind[n] = "Tag" -> TagInstrs(n, args)
      [] hugr.kind[n] = "LoadConstant" -> ConstantInstrs(n)
      [] hugr.kind[n] = "Op" -> Applied(hugr.fn[n], args, n)

EmitLeaf(n) ==
    /\ Visit(n) /\ hugr.kind[n] \in Leaf
    /\ LET c == ArgsRead(n)
           instrs == LeafInstrs(n, Args(n))
       IN SetCode(Write(Build(c, instrs), OutsRow(n), Upcoming(c, Len(instrs))))
    /\ Touches(n)
    /\ stack' = ReplaceTop(Visited(n))
    /\ UNCHANGED <<hugr, todo, phase>>

\* Faulty: hands on every definition, constants included.
EmitSilentPushesAll(n) ==
    /\ Visit(n) /\ hugr.kind[n] \in Silent
    /\ todo' = todo \cup {n}
    /\ stack' = ReplaceTop(Visited(n))
    /\ UNCHANGED <<hugr, blocks, pos, mailboxes, phase>>

\* Const and FuncDecl need no work; a scoped FuncDefn is pushed on todo.
EmitSilent(n) ==
    /\ Visit(n) /\ hugr.kind[n] \in Silent
    /\ todo' = IF hugr.kind[n] = "FuncDefn" THEN todo \cup {n} ELSE todo
    /\ stack' = ReplaceTop(Visited(n))
    /\ UNCHANGED <<hugr, blocks, pos, mailboxes, phase>>

\* A DFG is emitted in place, into the promise of its own outputs.
EnterDfg(n) ==
    /\ Visit(n) /\ hugr.kind[n] = "DFG"
    /\ SetCode(ArgsRead(n))
    /\ Touches(n)
    /\ stack' = Append(ReplaceTop(Visited(n)),
                       DataflowFrame(n, Args(n), OutsRow(n)))
    /\ UNCHANGED <<hugr, todo, phase>>

LeaveDfg ==
    /\ Completed("dataflow")
    /\ stack' = Pop
    /\ UNCHANGED <<hugr, blocks, pos, mailboxes, todo, phase>>

-----------------------------------------------------------------------------
(* LLVMSumValue::build_destructure                                         *)

\* One new block per variant, which takes the variant apart and hands its
\* fields, followed by rest, to the mailboxes and the block of that variant;
\* and a switch to them on the tag, where the builder was.
\* Faulty: the fields follow the other values instead of preceding them.
VariantBlockRestFirst(b, sum, i, fields, row, rest, target) ==
    [j \in 1..fields |-> Field(sum, i, j)]
      \o [j \in DOMAIN row |->
            Store(row[j], IF j <= Len(rest) THEN rest[j] ELSE <<b, j - Len(rest)>>)]
      \o <<Branch(target)>>

\* Faulty: the fields are not handed on.
VariantBlockDropsFields(b, sum, i, fields, row, rest, target) ==
    [j \in DOMAIN rest |-> Store(row[fields + j], rest[j])] \o <<Branch(target)>>

VariantBlock(b, sum, i, fields, row, rest, target) ==
    [j \in 1..fields |-> Field(sum, i, j)]
      \o [j \in DOMAIN row |->
            Store(row[j], IF j <= fields THEN <<b, j>> ELSE rest[j - fields])]
      \o <<Branch(target)>>

Destructure(c, sum, widths, rows, rest, targets) ==
    LET b(i) == Len(c.blocks) + i
        variants == [i \in DOMAIN widths |->
            VariantBlock(b(i), sum, i, widths[i], rows[i], rest, targets[i])]
    IN Extend(Build(c, <<Switch(sum, [i \in DOMAIN widths |-> b(i)])>>), variants)

-----------------------------------------------------------------------------
(* A handler with blocks of its own: emit_array_op of get, set and swap    *)

ExitRow(n) == AnonymousRow("exit", n, hugr.nout[n])

\* With a new block, the exit, that moves the exit mailboxes to the outputs of n.
WithExit(c, n) ==
    LET e == At(AddBlocks(c, 1), NewBlock(c))
    IN At(Write(Read(e, ExitRow(n)), OutsRow(n), Upcoming(e, hugr.nout[n])), c.pos)

\* The block b that does f, and hands what comes of it to the exit block.
Alternative(b, f, n, args, exit) ==
    Applied(f, args, n)
      \o [p \in DOMAIN ExitRow(n) |-> Store(ExitRow(n)[p], <<b, p>>)]
      \o <<Branch(exit)>>

\* The blocks of the GuardedOp n: first the exit, then one for success and one for
\* failure; and a branch to either of these (a switch on a Boolean) where the
\* builder was.
GuardedCode(c, n, args) ==
    LET exit == NewBlock(c)
        f == hugr.fn[n]
        moved == WithExit(c, n)
        tested == Build(moved, <<Apply(f.test, args, 1)>>)
        branch == Switch(Upcoming(moved, 1)[1], <<exit + 2, exit + 1>>)
    IN Extend(Build(tested, <<branch>>),
              <<Alternative(exit + 1, f.ok, n, args, exit),
                Alternative(exit + 2, f.bad, n, args, exit)>>)

\* Faulty: the builder stays behind, after the branch.
EmitGuardedStays(n) ==
    /\ Visit(n) /\ hugr.kind[n] = Guarded
    /\ SetCode(GuardedCode(ArgsRead(n), n, Args(n)))
    /\ Allocate({InsRow(n), OutsRow(n), ExitRow(n)})
    /\ stack' = ReplaceTop(Visited(n))
    /\ UNCHANGED <<hugr, todo, phase>>

EmitGuarded(n) ==
    /\ Visit(n) /\ hugr.kind[n] = Guarded
    /\ LET c == ArgsRead(n) IN SetCode(At(GuardedCode(c, n, Args(n)), NewBlock(c)))
    /\ Allocate({InsRow(n), OutsRow(n), ExitRow(n)})
    /\ stack' = ReplaceTop(Visited(n))
    /\ UNCHANGED <<hugr, todo, phase>>

-----------------------------------------------------------------------------
(* emit_conditional                                                        *)

CaseRow(n) == AnonymousRow("case", n, hugr.nout[TheChild(hugr, n, "Input")])

\* Faulty: the inputs are read where the exit block is built.
EnterConditionalReadsLate(n) ==
    /\ Visit(n) /\ hugr.kind[n] = "Conditional"
    /\ LET exit == NewBlock(Code)
           e == At(AddBlocks(Code, 1), exit)
           c == Read(e, InsRow(n))
           moved == Write(Read(c, ExitRow(n)), OutsRow(n),
                          Upcoming(c, hugr.nout[n]))
       IN /\ SetCode(At(moved, pos))
          /\ stack' = Append(ReplaceTop(Visited(n)),
                             ConditionalFrame(n, Upcoming(e, Len(hugr.ins[n])), exit))
    /\ Allocate({InsRow(n), OutsRow(n), ExitRow(n)})
    /\ UNCHANGED <<hugr, todo, phase>>

\* The exit comes first.
EnterConditional(n) ==
    /\ Visit(n) /\ hugr.kind[n] = "Conditional"
    /\ LET c == ArgsRead(n)
       IN /\ SetCode(WithExit(c, n))
          /\ stack' = Append(ReplaceTop(Visited(n)),
                             ConditionalFrame(n, Args(n), NewBlock(c)))
    /\ Allocate({InsRow(n), OutsRow(n), ExitRow(n)})
    /\ UNCHANGED <<hugr, todo, phase>>

\* Faulty: the case's mailboxes are read before the builder is moved.
EnterCaseReadsEarly ==
    /\ Running("conditional")
    /\ Len(Top.cases) < Len(hugr.kids[Top.node])
    /\ LET case == hugr.kids[Top.node][Len(Top.cases) + 1]
           b == NewBlock(Code)
           row == CaseRow(case)
       IN /\ SetCode(At(AddBlocks(Read(Code, row), 1), b))
          /\ Allocate({row})
          /\ stack' = Append(
               ReplaceTop([Top EXCEPT !.cases = Append(@, b), !.home = pos]),
               DataflowFrame(case, Upcoming(Code, Len(row)), ExitRow(Top.node)))
    /\ UNCHANGED <<hugr, todo, phase>>

EnterCase ==
    /\ Running("conditional")
    /\ Len(Top.cases) < Len(hugr.kids[Top.node])
    /\ LET case == hugr.kids[Top.node][Len(Top.cases) + 1]
           b == NewBlock(Code)
           c == At(AddBlocks(Code, 1), b)
           row == CaseRow(case)
       IN /\ SetCode(Read(c, row))
          /\ Allocate({row})
          /\ stack' = Append(
               ReplaceTop([Top EXCEPT !.cases = Append(@, b), !.home = pos]),
               DataflowFrame(case, Upcoming(c, Len(row)), ExitRow(Top.node)))
    /\ UNCHANGED <<hugr, todo, phase>>

\* Faulty: the case does not branch to the exit block.
LeaveCaseOpen ==
    /\ Completed("conditional")
    /\ pos' = Below.home
    /\ stack' = Pop
    /\ UNCHANGED <<hugr, blocks, mailboxes, todo, phase>>

LeaveCase ==
    /\ Completed("conditional")
    /\ SetCode(At(Build(Code, <<Branch(Below.exit)>>), Below.home))
    /\ stack' = Pop
    /\ UNCHANGED <<hugr, mailboxes, todo, phase>>

\* With every case emitted, the sum is taken apart and the builder moves on
\* to the exit block.  A sum without variants has no cases[0] to switch to.
LeaveConditional ==
    /\ Running("conditional")
    /\ LET kids == hugr.kids[Top.node]
           widths == hugr.rows[Top.node]
       IN /\ Len(Top.cases) = Len(kids)
          /\ IF widths = <<>>
             THEN phase' = "panicked" /\ UNCHANGED <<blocks, pos, stack>>
             ELSE /\ SetCode(At(Destructure(Code, Top.inputs[1], widths,
                                            [i \in DOMAIN widths |-> CaseRow(kids[i])],
                                            Tail(Top.inputs), Top.cases),
                                Top.exit))
                  /\ stack' = Pop
                  /\ UNCHANGED phase
    /\ UNCHANGED <<hugr, mailboxes, todo>>

-----------------------------------------------------------------------------
(* emit_cfg: CfgEmitter::new and emit_children                             *)

Entry(n) == hugr.kids[n][1]
Exit(n) == hugr.kids[n][2]

DataflowBlocks(n) == {m \in ChildrenOf(hugr, n) : hugr.kind[m] = "DataflowBlock"}

\* The mailboxes through which a child of the CFG n receives its inputs: a
\* block's are those of the wires out of its Input node.
InputRow(n, m) == IF m = Exit(n) THEN ExitRow(n)
                  ELSE OutsRow(TheChild(hugr, m, "Input"))

EnterCfg(n) ==
    /\ Visit(n) /\ hugr.kind[n] = "CFG"
    /\ LET c == ArgsRead(n)
           dfbs == SetToSeq(DataflowBlocks(n))
           bb == [m \in ToSet(dfbs) \cup {Exit(n)} |->
                    IF m = Exit(n) THEN NewBlock(c)
                    ELSE NewBlock(c) + CHOOSE i \in DOMAIN dfbs : dfbs[i] = m]
           ready == AddBlocks(c, 1 + Len(dfbs))
           written == Write(ready, InputRow(n, Entry(n)), Args(n))
       IN /\ SetCode(Build(written, <<Branch(bb[Entry(n)])>>))
          /\ Allocate({InsRow(n), OutsRow(n)}
                        \cup {InputRow(n, m) : m \in DOMAIN bb})
          /\ stack' = Append(ReplaceTop(Visited(n)),
                             CfgFrame(n, bb, OutsRow(n)))
    /\ UNCHANGED <<hugr, todo, phase>>

CfgChild(kind) == /\ Running("cfg")
                  /\ Top.next <= Len(hugr.kids[Top.node])
                  /\ hugr.kind[hugr.kids[Top.node][Top.next]] \in kind

EnterBlock ==
    /\ CfgChild({"DataflowBlock"})
    /\ LET block == hugr.kids[Top.node][Top.next]
           row == InputRow(Top.node, block)
           results == InsRow(TheChild(hugr, block, "Output"))
           c == At(Code, Top.bb[block])
       IN /\ SetCode(Read(c, row))
          /\ Allocate({results})
          /\ stack' = Append(
               ReplaceTop([Top EXCEPT !.next = @ + 1, !.home = pos]),
               DataflowFrame(block, Upcoming(c, Len(row)), results))
    /\ UNCHANGED <<hugr, todo, phase>>

\* The block's outputs are read back; the first decides which successor the
\* fields of its variant and the other outputs are handed to.
LeaveBlock ==
    /\ Completed("cfg")
    /\ LET block == Top.node
           cfg == Below.node
           widths == hugr.rows[block]
           succ == hugr.succ[block]
           results == InsRow(TheChild(hugr, block, "Output"))
           outs == Upcoming(Code, Len(results))
       IN IF widths = <<>>
          THEN phase' = "panicked" /\ UNCHANGED <<blocks, pos, stack>>
          ELSE /\ SetCode(At(Destructure(Read(Code, results), outs[1], widths,
                               [i \in DOMAIN widths |-> InputRow(cfg, succ[i])],
                               Tail(outs),
                               [i \in DOMAIN widths |-> Below.bb[succ[i]]]),
                             Below.home))
               /\ stack' = Pop
               /\ UNCHANGED phase
    /\ UNCHANGED <<hugr, mailboxes, todo>>

\* emit_exit_block
EmitExitBlock ==
    /\ CfgChild({"ExitBlock"})
    /\ LET c == At(Code, Top.bb[Exit(Top.node)])
           row == ExitRow(Top.node)
       IN SetCode(At(Write(Read(c, row), Top.outputs, Upcoming(c, Len(row))), pos))
    /\ stack' = ReplaceTop([Top EXCEPT !.next = @ + 1])
    /\ UNCHANGED <<hugr, mailboxes, todo, phase>>

\* Faulty: a FuncDefn among the blocks is passed over.
EmitCfgDefinitionSkips ==
    /\ CfgChild(Silent)
    /\ stack' = ReplaceTop([Top EXCEPT !.next = @ + 1])
    /\ UNCHANGED <<hugr, blocks, pos, mailboxes, todo, phase>>

EmitCfgDefinition ==
    /\ CfgChild(Silent)
    /\ LET n == hugr.kids[Top.node][Top.next]
       IN todo' = IF hugr.kind[n] = "FuncDefn" THEN todo \cup {n} ELSE todo
    /\ stack' = ReplaceTop([Top EXCEPT !.next = @ + 1])
    /\ UNCHANGED <<hugr, blocks, pos, mailboxes, phase>>

\* Faulty: the builder stays behind, after the branch to the entry block.
LeaveCfgStays ==
    /\ Running("cfg") /\ Top.next > Len(hugr.kids[Top.node])
    /\ stack' = Pop
    /\ UNCHANGED <<hugr, blocks, pos, mailboxes, todo, phase>>

LeaveCfg ==
    /\ Running("cfg") /\ Top.next > Len(hugr.kids[Top.node])
    /\ pos' = Top.bb[Exit(Top.node)]
    /\ stack' = Pop
    /\ UNCHANGED <<hugr, blocks, mailboxes, todo, phase>>

-----------------------------------------------------------------------------
\* The rest of emit_func_impl, and EmitFuncContext::finish.
FinishFunc ==
    /\ Running("dataflow") /\ Top.left = {} /\ Len(stack) = 1
    /\ LET row == Top.outputs
           returned == Build(Read(Code, row), <<Return(Upcoming(Code, Len(row)))>>)
       IN SetCode(Build(At(returned, 1), <<Branch(2)>>))
    /\ stack' = <<>>
    /\ phase' = "emitted"
    /\ UNCHANGED <<hugr, mailboxes, todo>>

VisitChild == \E n \in (IF Running("dataflow") THEN Top.left ELSE {}) :
    \/ EmitInput(n) \/ EmitOutput(n) \/ EmitLeaf(n) \/ EmitGuarded(n) \/ EmitSilent(n)
    \/ EnterDfg(n) \/ EnterConditional(n) \/ EnterCfg(n)

Emit ==
    \/ VisitChild
    \/ LeaveDfg
    \/ EnterCase \/ LeaveCase \/ LeaveConditional
    \/ EnterBlock \/ LeaveBlock \/ EmitExitBlock \/ EmitCfgDefinition \/ LeaveCfg
    \/ FinishFunc

Halted == phase \in {"emitted", "panicked"} /\ UNCHANGED vars

Next == Emit \/ Halted

Spec == Init /\ [][Next]_vars

-----------------------------------------------------------------------------
Value == (0..Len(blocks)) \X Nat
Mailbox == {"wire", "ret", "exit", "case"} \X NodesOf(hugr) \X Nat

IsFrame(f) ==
    /\ f.node \in NodesOf(hugr)
    /\ f.is \in {"dataflow", "conditional", "cfg"}
    /\ f.is = "dataflow" => f.left \subseteq ChildrenOf(hugr, f.node)
    /\ f.is # "cfg" => ToSet(f.inputs) \subseteq Value
    /\ f.is # "conditional" => ToSet(f.outputs) \subseteq mailboxes
    /\ f.is # "dataflow" => f.home \in DOMAIN blocks

\* The types of the variables; the builder always stands in a block of the
\* function, and only FuncDefns are handed on.
TypeOK ==
    /\ hugr \in Hugrs
    /\ pos \in DOMAIN blocks
    /\ mailboxes \subseteq Mailbox
    /\ todo \subseteq {n \in NodesOf(hugr) : hugr.kind[n] = "FuncDefn"}
    /\ \A i \in DOMAIN stack : IsFrame(stack[i])
    /\ phase \in {"emitting", "emitted", "panicked"}

Terminated(b) == blocks[b] # <<>> /\ IsTerminator(Last(blocks[b]))

\* Doc of EmitFuncContext::builder: "Callers must ensure that it is positioned
\* at the end of a basic block. This invariant is not checked".  No emitter
\* ever leaves the builder where another has closed the block: a terminator is
\* the last instruction of its block, and the position that will be restored
\* after a case is still open.
NothingAfterATerminator ==
    /\ \A b \in DOMAIN blocks : \A i \in DOMAIN blocks[b] :
         IsTerminator(blocks[b][i]) => i = Len(blocks[b])
    /\ Running("dataflow") => ~Terminated(pos)
    /\ \A k \in DOMAIN stack :
         stack[k].is = "conditional" /\ stack[k].cases # <<>>
           => ~Terminated(stack[k].home)

\* What the verifier of LLVM looks at in the code of a function.
Operands(instr) ==
    CASE instr.op = "store" -> {instr.val}
      [] instr.op \in {"tag", "apply"} -> ToSet(instr.args)
      [] instr.op = "field" -> {instr.sum}
      [] instr.op = "switch" -> {instr.on}
      [] instr.op = "ret" -> ToSet(instr.vals)
      [] OTHER -> {}

Successors(b) ==
    LET t == Last(blocks[b]) IN
    CASE t.op = "br" -> {t.to}
      [] t.op = "switch" -> ToSet(t.to)
      [] OTHER -> {}

\* The blocks reachable from the prologue without entering b.
Avoiding(b) ==
    LET Grow[k \in Nat] ==
          IF k = 0 THEN {1} \ {b}
          ELSE LET before == Grow[k-1]
               IN before \cup ((UNION {Successors(a) : a \in before}) \ {b})
    IN Grow[Len(blocks)]

\* Whoever opens a block, or leaves it for
\* another that it will come back from, sees to it that it is closed; in the
\* finished function no block is without a terminator.
BlocksAreClosed == phase = "emitted" => \A b \in DOMAIN blocks : Terminated(b)

\* The finished function uses only mailboxes that are allocated in the
\* prologue, and every value is computed on every path to its use.
VerifiesAsLlvm ==
    phase = "emitted" =>
      \A b \in DOMAIN blocks : \A i \in DOMAIN blocks[b] :
         LET instr == blocks[b][i] IN
           /\ instr.op \in {"load", "store"} => instr.mb \in mailboxes
           /\ \A v \in Operands(instr) :
                IF v[1] = 0 THEN v[2] \in 1..hugr.params
                ELSE IF v[1] = b THEN v[2] < i
                ELSE v[2] \in DOMAIN blocks[v[1]] /\ b \notin Avoiding(v[1])

\* A FuncDefn scoped anywhere in the function, in a region or among the blocks
\* of a CFG, has been handed on to emit_func by the time the function is done.
ScopedFuncsHandedOn ==
    phase = "emitted" =>
      todo = {n \in NodesOf(hugr) : hugr.kind[n] = "FuncDefn"} \ {hugr.root}
=============================================================================
