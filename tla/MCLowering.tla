------------------------------ MODULE MCLowering ------------------------------
(***************************************************************************)
(* Lowering of the functions of SmallHugrs, called with every combination  *)
(* of arguments of their parameters' types.  On the empty sum, Absurd, the *)
(* emitter panics, so nothing comes out that could be called.              *)
(***************************************************************************)
EXTENDS Lowering, SmallHugrs

Scoped(h) ==
    LET scope[n \in NodesOf(h)] ==
            IF n = h.root THEN {}
            ELSE LET p == CHOOSE p \in NodesOf(h) : n \in ChildrenOf(h, p)
                 IN scope[p] \cup Adds(h, p, n)
    IN h @@ [scope |-> scope]

MCHugrs == {Scoped(h) : h \in SmallFunctions \cup Absurd}

\* Every way of calling h with arguments of its parameters' types.
MCArguments(h) == Picks(TypesIn(h, h.root))

MCMeaning(f, a) ==
    LET x == a[1].tag IN
    CASE f = "inc" -> <<Atom((x + 1) % 3)>>
      [] f = "pair" -> <<a[1], Atom((x + 1) % 3)>>
      [] f = "keep" -> a
      [] f = "small" -> <<Atom(IF x < 2 THEN 1 ELSE 0)>>
      [] f = "pred" -> <<IF x = 0 THEN [tag |-> 0, fields |-> <<>>]
                         ELSE [tag |-> 1, fields |-> <<Atom(x - 1)>>]>>
=============================================================================
