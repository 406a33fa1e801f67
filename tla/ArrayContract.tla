---------------------------- MODULE ArrayContract ----------------------------
(***************************************************************************)
(* What a program sees of the prelude's array operations: an operation is  *)
(* called on the array in hand and later returns a result, which depends   *)
(* on the operation and on that array alone.  The elements of an array of  *)
(* size n are a function on 0..n-1.  Nothing is said of blocks, stack      *)
(* memory or mailboxes; ArrayOps has them and implements this              *)
(* specification.                                                          *)
(***************************************************************************)
EXTENDS Integers

CONSTANTS Elems,    \* the values of the element type
          Sizes,    \* the sizes of the arrays that are made
          Indices   \* the values of usize

VARIABLES array,    \* the array in hand, or NoArray
          pending,  \* the operation being executed, or NoOp
          outcome   \* what the last operation returned, or NoOutcome

avars == <<array, pending, outcome>>

NoArray   == [none |-> "array"]
NoOp      == [op |-> "none"]
NoOutcome == [none |-> "outcome"]

Array(n, f) == [len |-> n, elems |-> f]
Arrays(n)   == {Array(n, f) : f \in [0 .. n - 1 -> Elems]}
Sum(tag, vals) == [tag |-> tag, vals |-> vals]

Size(a) == a.len
At(a)   == 0 .. Size(a) - 1

\* Every operation with its arguments.
Ops == [op : {"get"}, i : Indices]
       \cup [op : {"set"}, i : Indices, v : Elems]
       \cup [op : {"swap"}, i : Indices, j : Indices]
       \cup [op : {"pop_left", "pop_right", "discard_empty"}]
       \cup [op : {"new_array"}, arr : UNION {Arrays(n) : n \in Sizes}]

\* An operation the types of the HUGR allow on the array a.
Legal(p, a) == CASE p.op = "new_array"     -> a = NoArray
                 [] p.op = "discard_empty" -> a # NoArray /\ Size(a) = 0
                 [] OTHER                  -> a # NoArray

\* The result of p on a, by the meaning of the operation.
Result(p, a) ==
  CASE p.op = "get" -> IF p.i \in At(a) THEN Sum(1, <<a.elems[p.i]>>) ELSE Sum(0, <<>>)
    [] p.op = "set" -> IF p.i \in At(a)
                         THEN Sum(1, <<a.elems[p.i], Array(Size(a), [a.elems EXCEPT ![p.i] = p.v])>>)
                         ELSE Sum(0, <<p.v, a>>)
    [] p.op = "swap" -> IF {p.i, p.j} \subseteq At(a)
                          THEN Sum(1, <<Array(Size(a), [a.elems EXCEPT ![p.i] = a.elems[p.j],
                                                                       ![p.j] = a.elems[p.i]])>>)
                          ELSE Sum(0, <<a>>)
    [] p.op = "pop_left" ->
         IF Size(a) = 0 THEN Sum(0, <<>>)
         ELSE Sum(1, <<a.elems[0], Array(Size(a) - 1, [k \in 0 .. Size(a) - 2 |-> a.elems[k + 1]])>>)
    [] p.op = "pop_right" ->
         IF Size(a) = 0 THEN Sum(0, <<>>)
         ELSE Sum(1, <<a.elems[Size(a) - 1], Array(Size(a) - 1, [k \in 0 .. Size(a) - 2 |-> a.elems[k]])>>)
    [] p.op = "new_array" -> p.arr
    [] p.op = "discard_empty" -> NoOutcome

\* The array a program goes on with: the one in the result r, if there is one.
Onward(p, a, r) ==
  CASE p.op = "get"           -> a
    [] p.op = "set"           -> r.vals[2]
    [] p.op = "swap"          -> r.vals[1]
    [] p.op \in {"pop_left", "pop_right"} -> IF r.tag = 0 THEN NoArray ELSE r.vals[2]
    [] p.op = "new_array"     -> r
    [] p.op = "discard_empty" -> NoArray

Init == /\ array \in {NoArray} \cup UNION {Arrays(n) : n \in Sizes}
        /\ pending = NoOp
        /\ outcome = NoOutcome

Call(p) == /\ pending = NoOp
           /\ Legal(p, array)
           /\ pending' = p
           /\ outcome' = NoOutcome
           /\ UNCHANGED array

Return == /\ pending # NoOp
          /\ outcome' = Result(pending, array)
          /\ array' = Onward(pending, array, outcome')
          /\ pending' = NoOp

Next == Return \/ \E p \in Ops : Call(p)

Safe == Init /\ [][Next]_avars

\* An operation that was called returns.
Spec == Safe /\ WF_avars(Return)
=============================================================================
