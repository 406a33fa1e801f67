------------------------------ MODULE SmallHugrs ------------------------------
(***************************************************************************)
(* Small HUGR functions for FuncEmitter and LlvmRun.  Node 1 is the        *)
(* FuncDefn, 2 its Input, 3 its Output.  Atoms are 0..2; "inc" adds one    *)
(* modulo 3, "pair" returns its argument and the next atom, "pred" returns *)
(* a sum: variant 0 for zero, variant 1 with the predecessor otherwise;    *)
(* "small" is the Boolean whether its argument is less than 2.             *)
(***************************************************************************)
EXTENDS Integers, Sequences

Atom(x) == [tag |-> x, fields |-> <<>>]
Atoms == {Atom(x) : x \in 0..2}
Variant(tag, fields) == [tag |-> tag, fields |-> fields]
Counts == {Variant(0, <<>>)} \cup {Variant(1, <<Atom(x)>>) : x \in 0..1}

-----------------------------------------------------------------------------
Nd(kind, ins, nout) ==
    [kind |-> kind, ins |-> ins, nout |-> nout, kids |-> <<>>, after |-> {},
     rows |-> <<>>, succ |-> <<>>, tag |-> 0, fn |-> "", const |-> Atom(0),
     types |-> [i \in 1..nout |-> Atoms]]

Op(f, ins, nout) == [Nd("Op", ins, nout) EXCEPT !.fn = f]
Pred(ins) == [Op("pred", ins, 1) EXCEPT !.types = <<Counts>>]
GetOp(ins) == [Nd("GuardedOp", ins, 1)
                EXCEPT !.fn = [test |-> "small", ok |-> "inc", bad |-> "keep"]]
Tag(tag, ins) ==
    [Nd("Tag", ins, 1) EXCEPT !.tag = tag, !.types = <<{Variant(tag, a) : a \in [DOMAIN ins -> Atoms]}>>]
In(nout) == Nd("Input", <<>>, nout)
Out(ins) == Nd("Output", ins, 0)
Holding(nd, kids) == [nd EXCEPT !.kids = kids]
Region(kind, kids) == Holding(Nd(kind, <<>>, 0), kids)
Block(kids, rows, succ) ==
    [Region("DataflowBlock", kids) EXCEPT !.rows = rows, !.succ = succ]

Fn(params, nodes) ==
    LET Get(f(_)) == [n \in DOMAIN nodes |-> f(nodes[n])] IN
    [root |-> 1, params |-> Len(params), results |-> Len(nodes[3].ins),
     kind |-> Get(LAMBDA x : x.kind), ins |-> Get(LAMBDA x : x.ins),
     nout |-> Get(LAMBDA x : x.nout), kids |-> Get(LAMBDA x : x.kids),
     after |-> Get(LAMBDA x : x.after), rows |-> Get(LAMBDA x : x.rows),
     succ |-> Get(LAMBDA x : x.succ), tag |-> Get(LAMBDA x : x.tag),
     fn |-> Get(LAMBDA x : x.fn), const |-> Get(LAMBDA x : x.const),
     types |-> [Get(LAMBDA x : x.types) EXCEPT ![2] = params]]

\* A sum with a field in its first variant only.
Option == {[tag |-> 0, fields |-> <<x>>] : x \in {Atom(0), Atom(2)}}
            \cup {[tag |-> 1, fields |-> <<>>]}
Some == {Atom(0), Atom(2)}

-----------------------------------------------------------------------------
\* A DFG that crosses its wires, constants with no edge from the Input, and a
\* scoped FuncDefn; the Output takes any two of the wires.
Nested == {Fn(<<Some, Some>>, <<
    Region("FuncDefn", <<2, 3, 4, 5, 12, 9, 10, 11>>),
    In(2),
    Out(<<w, <<4, 2>>>>),
    Holding(Nd("DFG", <<<<2, 2>>, <<2, 1>>>>, 2), <<6, 7, 8>>),
    Op("pair", <<<<2, 1>>>>, 2),
    In(2),
    Out(<<<<8, 1>>, <<6, 1>>>>),
    Op("inc", <<<<6, 2>>>>, 1),
    [Nd("LoadConstant", <<>>, 1) EXCEPT !.const = Atom(1)],
    Nd("FuncDefn", <<>>, 0),
    Tag(1, <<<<9, 1>>, <<5, 2>>>>),
    Nd("Const", <<>>, 0)>>) :
    w \in {<<4, 1>>, <<5, 2>>, <<9, 1>>, <<11, 1>>}}

\* A conditional on an Option, one case of which refers to a wire outside it;
\* the result is used by an operation after the conditional.
Choice == {Fn(<<Option, Some>>, <<
    Region("FuncDefn", <<2, 3, 5, 4, 13>>),
    In(2),
    Out(<<<<13, 1>>, <<4, 1>>>>),
    [Holding(Nd("Conditional", <<<<2, 1>>, <<2, 2>>>>, 2), <<6, 7>>)
        EXCEPT !.rows = <<1, 0>>, !.after = {5}],
    Op("inc", <<<<2, 2>>>>, 1),
    Region("Case", <<8, 9, 10>>),
    Region("Case", <<11, 12>>),
    In(2),
    Out(<<<<10, 1>>, w>>),
    Op("inc", <<<<8, 1>>>>, 1),
    In(1),
    Out(<<<<11, 1>>, <<5, 1>>>>),
    Op("inc", <<<<4, 2>>>>, 1)>>) : w \in {<<8, 1>>, <<8, 2>>, <<5, 1>>}}

\* A loop whose only block branches to itself with its arguments permuted or
\* duplicated, and leaves with them when the counter runs out.
Loop == {Fn(<<Atoms, {Atom(0)}, {Atom(2)}>>, <<
    Region("FuncDefn", <<2, 3, 4>>),
    In(3),
    Out(<<<<4, 1>>, <<4, 2>>>>),
    Holding(Nd("CFG", <<<<2, 1>>, <<2, 2>>, <<2, 3>>>>, 2), <<5, 6>>),
    Block(<<7, 8, 9>>, <<0, 1>>, <<6, 5>>),
    Nd("ExitBlock", <<>>, 0),
    In(3),
    Out(<<<<9, 1>>, <<7, a>>, <<7, b>>>>),
    Pred(<<<<7, 1>>>>)>>) : a, b \in {2, 3}}

\* Three blocks in a row, the middle one a loop; the last one, emitted before
\* the middle one, refers to a wire inside it, and to the function's input.
Dominated == {Fn(<<Atoms, Some>>, <<
    Region("FuncDefn", <<2, 3, 4>>),
    In(2),
    Out(<<<<4, 1>>, <<4, 2>>>>),
    [Holding(Nd("CFG", <<<<2, 1>>>>, 2), <<5, 6, 8, 7, 19, 20>>)
        EXCEPT !.types[2] = @ \cup {Variant(0, <<x>>) : x \in Atoms}],
    Block(<<9, 10, 11>>, <<1>>, <<7>>),
    Nd("ExitBlock", <<>>, 0),
    Block(<<12, 13, 14, 15>>, <<0, 1>>, <<8, 7>>),
    Block(<<16, 17, 18>>, <<0>>, <<6>>),
    In(1), Out(<<<<11, 1>>>>), Tag(0, <<<<9, 1>>>>),
    In(1), Out(<<<<15, 1>>>>), Op("inc", <<<<12, 1>>>>, 1),
    Pred(<<<<12, 1>>>>),
    In(0), Out(<<<<18, 1>>, <<14, 1>>, w>>), Tag(0, <<>>),
    Nd("Const", <<>>, 0), Nd("FuncDefn", <<>>, 0)>>) :
    w \in {<<2, 2>>, <<11, 1>>}}

\* A loop inside a case of a conditional inside a block of a loop.
Deep == {Fn(<<Some, Some>>, <<
    Region("FuncDefn", <<2, 3, 4>>),
    In(2),
    Out(<<<<4, 1>>>>),
    Holding(Nd("CFG", <<<<2, 1>>, <<2, 2>>>>, 1), <<5, 6>>),
    Block(<<7, 8, 9, 10, 11>>, <<0, 1>>, <<6, 5>>),
    Nd("ExitBlock", <<>>, 0),
    In(2),
    Out(<<<<9, 1>>, <<11, 1>>>>),
    Pred(<<<<7, 1>>>>),
    Pred(<<<<7, 2>>>>),
    [Holding(Nd("Conditional", <<<<10, 1>>, <<7, 1>>>>, 1), <<12, 13>>)
        EXCEPT !.rows = <<0, 1>>],
    Region("Case", <<14, 15, 16>>),
    Region("Case", <<17, 18, 19>>),
    In(1), Out(<<<<16, 1>>>>), Op("inc", <<<<14, 1>>>>, 1),
    In(2), Out(<<<<19, 1>>>>),
    Holding(Nd("CFG", <<<<17, 1>>, <<17, 2>>>>, 1), <<20, 21>>),
    Block(<<22, 23, 24, 25>>, <<0, 1>>, <<21, 20>>),
    Nd("ExitBlock", <<>>, 0),
    In(2), Out(<<<<24, 1>>, <<25, 1>>>>),
    Pred(<<<<22, 1>>>>),
    Op("inc", <<<<22, 2>>>>, 1)>>)}

\* Handlers with blocks of their own: one after another in a loop and beside it;
\* in a case of a conditional, and after it.
Guards == {
  Fn(<<Atoms, Atoms>>, <<
    Region("FuncDefn", <<2, 3, 4, 12>>),
    In(2),
    Out(<<<<4, 1>>, <<12, 1>>>>),
    Holding(Nd("CFG", <<<<2, 1>>, <<2, 2>>>>, 1), <<5, 6>>),
    Block(<<7, 8, 9, 10, 11>>, <<0, 1>>, <<6, 5>>),
    Nd("ExitBlock", <<>>, 0),
    In(2),
    Out(<<<<9, 1>>, <<11, 1>>>>),
    Pred(<<<<7, 1>>>>),
    GetOp(<<<<7, 2>>>>),
    GetOp(<<<<10, 1>>>>),
    GetOp(<<<<2, 2>>>>)>>),
  Fn(<<Option, Some>>, <<
    Region("FuncDefn", <<2, 3, 4, 11>>),
    In(2),
    Out(<<<<11, 1>>, <<4, 1>>>>),
    [Holding(Nd("Conditional", <<<<2, 1>>, <<2, 2>>>>, 1), <<5, 6>>) EXCEPT !.rows = <<1, 0>>],
    Region("Case", <<7, 8, 12>>),
    Region("Case", <<9, 10>>),
    In(2),
    Out(<<<<12, 1>>>>),
    In(1),
    Out(<<<<9, 1>>>>),
    GetOp(<<<<4, 1>>>>),
    GetOp(<<<<7, 1>>>>)>>)}

\* A conditional on the empty sum, which has no values and no case, and a block that ends in
\* one, which has no successor.
Absurd == {
  Fn(<<{}>>, <<
    Region("FuncDefn", <<2, 3, 4>>),
    In(1),
    Out(<<<<4, 1>>>>),
    Nd("Conditional", <<<<2, 1>>>>, 1)>>),
  Fn(<<{}>>, <<
    Region("FuncDefn", <<2, 3, 4>>),
    In(1),
    Out(<<<<4, 1>>>>),
    Holding(Nd("CFG", <<<<2, 1>>>>, 1), <<5, 6>>),
    Block(<<7, 8>>, <<>>, <<>>),
    Nd("ExitBlock", <<>>, 0),
    [In(1) EXCEPT !.types = <<{}>>], Out(<<<<7, 1>>>>)>>)}

SmallFunctions == Nested \cup Choice \cup Loop \cup Dominated \cup Deep \cup Guards
=============================================================================
