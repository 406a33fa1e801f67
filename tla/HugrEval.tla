------------------------------- MODULE HugrEval -------------------------------
(***************************************************************************)
(* What a HUGR function means, with no blocks, mailboxes or builder: the   *)
(* reference the emitted code is compared with.  A dataflow region is      *)
(* evaluated along its edges, a Conditional picks the child its sum tells  *)
(* it to, a CFG passes values from block to block until it exits.          *)
(*                                                                         *)
(* A value is a tagged tuple; memo maps the wires evaluated so far to      *)
(* their latest values, which is what an edge from an enclosing region or  *)
(* a dominating block refers to.                                           *)
(***************************************************************************)
EXTENDS Integers, Sequences, SequencesExt

CONSTANT Meaning(_, _)    \* the outputs of an Op from its name and arguments

Sum(tag, fields) == [tag |-> tag, fields |-> fields]

\* memo with the outputs of node n set to outs
Bind(memo, n, outs) ==
    [w \in DOMAIN memo \cup {<<n, p>> : p \in DOMAIN outs} |->
        IF w[1] = n /\ w[2] \in DOMAIN outs THEN outs[w[2]] ELSE memo[w]]

Branches(outs) == outs[1].fields \o Tail(outs)

RECURSIVE EvalRegion(_, _, _, _), EvalChildren(_, _, _, _, _), EvalCfg(_, _, _, _, _)

\* The outputs of a dataflow parent, and the memo after it.
EvalRegion(h, n, inputs, memo) ==
    LET kids == {h.kids[n][i] : i \in DOMAIN h.kids[n]}
        after == EvalChildren(h, n, kids, inputs, memo)
        output == CHOOSE m \in kids : h.kind[m] = "Output"
    IN [outs |-> [i \in DOMAIN h.ins[output] |-> after[h.ins[output][i]]],
        memo |-> after]

EvalChildren(h, n, left, inputs, memo) ==
    IF left = {} THEN memo ELSE
    LET m == CHOOSE m \in left :
                 /\ \A i \in DOMAIN h.ins[m] : h.ins[m][i][1] \notin left
                 /\ h.after[m] \cap left = {}
        args == [i \in DOMAIN h.ins[m] |-> memo[h.ins[m][i]]]
        Leaf(outs) == [outs |-> outs, memo |-> memo]
        r == CASE h.kind[m] = "Input" -> Leaf(inputs)
               [] h.kind[m] = "Tag" -> Leaf(<<Sum(h.tag[m], args)>>)
               [] h.kind[m] = "LoadConstant" -> Leaf(<<h.const[m]>>)
               [] h.kind[m] = "Op" -> Leaf(Meaning(h.fn[m], args))
               [] h.kind[m] = "GuardedOp" ->
                    LET test == Meaning(h.fn[m].test, args)[1] IN
                    Leaf(Meaning(IF test.tag = 1 THEN h.fn[m].ok ELSE h.fn[m].bad, args))
               [] h.kind[m] = "DFG" -> EvalRegion(h, m, args, memo)
               [] h.kind[m] = "Conditional" ->
                    EvalRegion(h, h.kids[m][args[1].tag + 1], Branches(args), memo)
               [] h.kind[m] = "CFG" -> EvalCfg(h, m, h.kids[m][1], args, memo)
               [] OTHER -> Leaf(<<>>)
    IN EvalChildren(h, n, left \ {m}, inputs, Bind(r.memo, m, r.outs))

EvalCfg(h, cfg, block, inputs, memo) ==
    IF h.kind[block] = "ExitBlock" THEN [outs |-> inputs, memo |-> memo] ELSE
    LET r == EvalRegion(h, block, inputs, memo)
    IN EvalCfg(h, cfg, h.succ[block][r.outs[1].tag + 1], Branches(r.outs), r.memo)

EvalFunc(h, inputs) == EvalRegion(h, h.root, inputs, <<>>).outs
=============================================================================
