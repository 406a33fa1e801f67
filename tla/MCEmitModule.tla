----------------------------- MODULE MCEmitModule -----------------------------
(***************************************************************************)
(* Families of small HUGRs for EmitModule: three FuncDefns "1", "2", "3"   *)
(* placed flat or nested, a fourth node that is a FuncDecl, a Const or an  *)
(* alias, bodies drawn from a menu, and modules to emit them into.         *)
(***************************************************************************)
EXTENDS EmitModule, TLC

Ref(n) == [op |-> "ref", node |-> n]
Scoped(n) == [op |-> "nested", node |-> n]
Extern(sym, ty) == [op |-> "extern", sym |-> <<sym>>, ty |-> ty]
Global(sym, const) == [op |-> "global", sym |-> <<sym>>, ty |-> "ptr", const |-> const]
Unsupported == [op |-> "unsupported"]

MCNode == {"1", "2", "3", "4"}
MCToken == {"_hl", "f", "g", "printf", "msg", "1", "2", "3", "4"}
MCType == {"fn", "fn2", "ptr"}

\* Where the three FuncDefns sit: the children of the root, and the FuncDefns
\* scoped in each.
Placement == {
    [top |-> <<"1", "4", "2", "3">>, in |-> <<{}, {}, {}>>],
    [top |-> <<"1", "4", "3">>,      in |-> <<{"2"}, {}, {}>>],
    [top |-> <<"4", "1">>,           in |-> <<{"2", "3"}, {}, {}>>],
    [top |-> <<"1">>,                in |-> <<{"2"}, {"3"}, {}>>]}

RECURSIVE ScopedItems(_)
ScopedItems(S) ==
    IF S = {} THEN <<>>
    ELSE LET n == CHOOSE x \in S : TRUE IN <<Scoped(n)>> \o ScopedItems(S \ {n})

MakeHugr(namer, names, fourth, place, generic, b1, b2, b3) ==
    [namer |-> namer,
     kind |-> [n \in Node |-> IF n = "4" THEN fourth ELSE "FuncDefn"],
     name |-> names,
     sig |-> [n \in Node |-> "fn"],
     generic |-> [n \in Node |-> n \in generic],
     top |-> place.top,
     body |-> [n \in Node |->
                 CASE n = "1" -> b1 \o ScopedItems(place.in[1])
                   [] n = "2" -> b2 \o ScopedItems(place.in[2])
                   [] n = "3" -> b3 \o ScopedItems(place.in[3])
                   [] OTHER -> <<>>]]

\* Symbols a module may hold before anything is emitted into it.
Declared(ty) == [kind |-> "func", ty |-> ty, const |-> FALSE, body |-> NoNode]
Defined(ty) == [Declared(ty) EXCEPT !.body = Foreign]
GlobalOf(const) == [kind |-> "global", ty |-> "ptr", const |-> const, body |-> NoNode]

-----------------------------------------------------------------------------
\* The default Namer: mutual and self recursion, a declared function, shared
\* externals and constants, two functions called alike.
DefaultNamer == [prefix |-> <<"_hl">>, postfix_node |-> TRUE]

AllCalledF == [n \in Node |-> <<"f">>]

DefaultHugrs ==
    {MakeHugr(DefaultNamer, AllCalledF, "FuncDecl", p, {}, b1, b2, b3) :
        p \in Placement,
        b1 \in {<<Ref("2")>>, <<Extern("printf", "fn2"), Ref("1")>>,
                <<Ref("4"), Global("msg", TRUE)>>},
        b2 \in {<<>>, <<Ref("1"), Ref("4")>>, <<Extern("printf", "fn2")>>},
        b3 \in {<<Global("msg", TRUE)>>, <<Ref("2"), Ref("3")>>}}
    \cup
    {MakeHugr(DefaultNamer, AllCalledF, fourth, p, generic, b1, <<Ref("1")>>, <<>>) :
        p \in Placement,
        fourth \in {"Const", "AliasDefn"},
        generic \in {{}, {"2"}},
        b1 \in {<<Ref("2"), Unsupported>>, <<Ref("4")>>,
                <<Extern("printf", "fn"), Extern("printf", "fn2")>>,
                <<Global("msg", TRUE), Global("msg", FALSE)>>}}

\* Namer::new("", false): names are taken as they are, so functions collide
\* with each other, with what the handlers declare and with the given module.
PlainNamer == [prefix |-> <<>>, postfix_node |-> FALSE]

PlainHugrs ==
    {MakeHugr(PlainNamer, names, "FuncDecl", p, {}, b1, b2, <<Ref("1")>>) :
        names \in [Node -> {<<"f">>, <<"g">>}],
        p \in Placement,
        b1 \in {<<Ref("2"), Ref("4")>>, <<Extern("f", "fn")>>},
        b2 \in {<<Ref("3")>>, <<Extern("g", "fn2"), Global("msg", TRUE)>>}}

MCHugrs == DefaultHugrs \cup PlainHugrs

\* A fresh module; one that agrees with the default HUGRs: declarations, a
\* library's printf, a constant; and one that disagrees: another body for
\* FuncDefn 2, a global where FuncDefn 3 goes, a printf of another type.  The
\* latter two hold a function that a plain name may stand for.
MCModules == {
    <<>>,
    (<<"_hl", "f", "1">> :> Declared("fn") @@ <<"_hl", "f", "4">> :> Defined("fn")
       @@ <<"printf">> :> Defined("fn2") @@ <<"msg">> :> GlobalOf(TRUE)
       @@ <<"g">> :> Defined("fn")),
    (<<"_hl", "f", "2">> :> Defined("fn") @@ <<"_hl", "f", "3">> :> GlobalOf(FALSE)
       @@ <<"printf">> :> Declared("fn") @@ <<"f">> :> Declared("fn2"))}

FreshModule == {<<>>}

\* A ConstExternalSymbol with the name of a function the handlers call.
ClashHugrs ==
    {MakeHugr(DefaultNamer, AllCalledF, "FuncDecl", p, {}, b1, b2, <<>>) :
        p \in Placement,
        b1 \in {<<Global("printf", TRUE)>>,
                <<Extern("printf", "fn"), Extern("printf", "fn")>>},
        b2 \in {<<Global("printf", TRUE)>>, <<Extern("printf", "fn")>>}}
=============================================================================
