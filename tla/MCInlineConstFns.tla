--------------------------- MODULE MCInlineConstFns ---------------------------
(***************************************************************************)
(* Modules with two constants, the first loaded up to twice, the second   *)
(* up to once, whose functions hold constants of their own, down to a      *)
(* third level: the identity (leaf), functions that load it once, twice or *)
(* not at all, one that nests them, one that also loads a FuncDefn of its  *)
(* own, one that loads a sum with a function in it, and one whose root the *)
(* pass does not support.                                                  *)
(***************************************************************************)
EXTENDS InlineConstFns

N(kind, parent, fn, from) == Node(kind, parent, fn, from)

\* The nodes for a constant of f, at position k of a region at position 1, and
\* for its loads.
Const(f, k, uses) ==
    <<N("FunctionConst", 1, f, 0)>> \o [u \in 1 .. uses |-> N("LoadConstant", 1, f, k)]

Values == {<<v>> : v \in {"leaf", "once", "twice", "unused", "deep", "local", "insum", "defn", "badroot", "hidesbad"}}

\* <<"main", f, i, g, j>> holds a constant of f used i times, and g used j times.
MCMains == {"main"} \X Values \X (0 .. 2) \X {<<v>> : v \in {"leaf", "once", "insum", "badroot"}} \X (0 .. 1)

MCFns == Values \cup MCMains

\* A root, then the constants of the function.
Region(root, consts) == <<N(root, 0, NoFn, 0)>> \o consts

MCBody == [f \in MCFns |->
    CASE f[1] = "leaf"     -> Region("DFG", <<>>)
      [] f[1] = "once"     -> Region("DFG", Const(<<"leaf">>, 2, 1))
      [] f[1] = "twice"    -> Region("DFG", Const(<<"leaf">>, 2, 2))
      [] f[1] = "unused"   -> Region("DFG", Const(<<"once">>, 2, 0))
      [] f[1] = "deep"     -> Region("DFG", Const(<<"once">>, 2, 1) \o Const(<<"unused">>, 4, 1))
      [] f[1] = "local"    -> Region("DFG", Const(<<"leaf">>, 2, 1) \o
                                            <<N("FuncDefn", 1, <<"leaf">>, 0),
                                              N("LoadFunction", 1, <<"leaf">>, 4)>>)
      [] f[1] = "insum"    -> Region("DFG", <<N("SumConst", 1, <<"badroot">>, 0),
                                              N("LoadConstant", 1, <<"badroot">>, 2)>>)
      [] f[1] = "defn"     -> Region("FuncDefn", Const(<<"twice">>, 2, 1))
      [] f[1] = "badroot"  -> Region("CFG", <<>>)
      [] f[1] = "hidesbad" -> Region("DFG", Const(<<"badroot">>, 2, 1))
      [] OTHER          -> Region("FuncDefn",
                                  Const(f[2], 2, f[3]) \o Const(f[4], 3 + f[3], f[5]))]
=============================================================================
