------------------------------- MODULE ArrayOps -------------------------------
(***************************************************************************)
(* The LLVM code that extension/prelude/array.rs emits for the prelude's   *)
(* array operations, executed.  A program holds one array at a time and    *)
(* applies operations to it in any legal order.  An action is one basic    *)
(* block of the code emitted for an operation: get, set and swap are the   *)
(* block that compares and branches, a success and a failure block that    *)
(* write the result to a mailbox, and an exit block that reads it; the     *)
(* others are straight code.                                               *)
(*                                                                         *)
(* An LLVM array has LlvmLen(size) elements, fewer than the HUGR type has  *)
(* when size does not fit 32 bits.  LenMod stands for 2^32.                *)
(***************************************************************************)
EXTENDS Integers

CONSTANTS Elems, Sizes, Indices, LenMod

ASSUME ArrayAssumption == /\ Sizes \subseteq Nat
                          /\ Indices \subseteq Nat
                          /\ LenMod \in Nat /\ LenMod > 1

VARIABLES size,      \* the size in the HUGR type of the array in hand, a u64
          array,     \* the array in hand as an LLVM value, or NoArray
          pending,   \* the operation being executed, or NoOp
          block,     \* the block that runs next; "start" and "done" between operations
          buffer,    \* the operation's stack memory
          touched,   \* the offsets into buffer the operation has accessed
          mailbox,   \* the mailbox the exit block reads
          outcome    \* what the operation left in its outputs, or NoOutcome

vars == <<size, array, pending, block, buffer, touched, mailbox, outcome>>

Contract == INSTANCE ArrayContract

NoArray   == Contract!NoArray
NoOp      == Contract!NoOp
NoOutcome == Contract!NoOutcome
Array(n, f) == Contract!Array(n, f)
Sum(tag, vals) == Contract!Sum(tag, vals)

Undef == [none |-> "undef"]      \* an element never written
Stale == [none |-> "stale"]      \* what an earlier execution left in the mailbox

-----------------------------------------------------------------------------
(* Types and memory. *)

\* The length of the LLVM type of a HUGR array: size as u32.
LlvmLen(n) == n % LenMod

\* The offset a GEP takes from the i32 constant n, which LLVM reads as signed.
GepI32(n) == LET m == n % LenMod IN IF 2 * m >= LenMod THEN m - LenMod ELSE m

LoadElem(buf, k) == IF k \in DOMAIN buf THEN buf[k] ELSE Undef
StoreElem(buf, k, v) == IF k \in DOMAIN buf THEN [buf EXCEPT ![k] = v] ELSE buf
LoadArray(buf, from, n) == Array(n, [k \in 0 .. n - 1 |-> LoadElem(buf, from + k)])

\* with_array_alloca: stack memory for the array, holding its elements.
WithArrayAlloca(a) == [k \in 0 .. LlvmLen(size) - 1 |-> LoadElem(a.elems, k)]

-----------------------------------------------------------------------------
(* Entering and leaving an operation. *)

Branching == {"get", "set", "swap"}

\* Faulty: a pop keeps the size.
SizeAfterForgetsPops(p) == IF p.op = "new_array" THEN Contract!Size(p.arr) ELSE size

\* The HUGR size of the array the program goes on with.
SizeAfter(p) == CASE p.op \in {"pop_left", "pop_right"} /\ size > 0 -> size - 1
                  [] p.op = "new_array" -> Contract!Size(p.arr)
                  [] OTHER -> size

\* outputs.finish with the value r; the program takes its array out of r.
Finish(r) == /\ outcome' = r
             /\ array' = Contract!Onward(pending, array, r)
             /\ size' = IF array' = NoArray THEN 0 ELSE SizeAfter(pending)
             /\ pending' = NoOp
             /\ block' = "done"

\* A legal operation is reached.  new_array on more inputs than the LLVM type
\* has elements is refused when it is emitted, so it is never reached.
Call(p) == /\ pending = NoOp
           /\ CASE p.op = "new_array"     -> /\ array = NoArray
                                             /\ LlvmLen(Contract!Size(p.arr)) = Contract!Size(p.arr)
                [] p.op = "discard_empty" -> array # NoArray /\ size = 0
                [] OTHER                  -> array # NoArray
           /\ pending' = p
           /\ block' = "entry"
           /\ touched' = {}
           /\ mailbox' = Stale
           /\ outcome' = NoOutcome
           /\ UNCHANGED <<size, array, buffer>>

\* Faulty: lets an index equal to the size through.
InBoundsInclusive(p) == p.i <= size /\ (p.op = "swap" => p.j <= size)

\* The block the operation begins in: unsigned comparisons with the size.
InBounds(p) == p.i < size /\ (p.op = "swap" => p.j < size)

Compare == /\ block = "entry" /\ pending.op \in Branching
           /\ block' = IF InBounds(pending) THEN "success" ELSE "failure"
           /\ UNCHANGED <<size, array, pending, buffer, touched, mailbox, outcome>>

\* What every success and failure block ends in: exit_rmb.write, then a branch.
ToExit(r) == /\ mailbox' = r
             /\ block' = "exit"
             /\ UNCHANGED <<size, array, pending, outcome>>

-----------------------------------------------------------------------------
(* The success blocks of get, set and swap. *)

GetSuccess ==
  /\ block = "success" /\ pending.op = "get"
  /\ buffer' = WithArrayAlloca(array)
  /\ touched' = {pending.i}
  /\ ToExit(Sum(1, <<LoadElem(buffer', pending.i)>>))

SetSuccess ==
  /\ block = "success" /\ pending.op = "set"
  /\ LET stack == WithArrayAlloca(array)
         elem  == LoadElem(stack, pending.i)
     IN /\ buffer' = StoreElem(stack, pending.i, pending.v)
        /\ ToExit(Sum(1, <<elem, LoadArray(buffer', 0, LlvmLen(size))>>))
  /\ touched' = {pending.i} \cup 0 .. LlvmLen(size) - 1

\* Faulty: stores the first element's new value before it has read it.
SwapSuccessStoresEarly ==
  /\ block = "success" /\ pending.op = "swap"
  /\ LET stack == WithArrayAlloca(array)
         first == StoreElem(stack, pending.i, LoadElem(stack, pending.j))
     IN /\ buffer' = StoreElem(first, pending.j, LoadElem(first, pending.i))
        /\ ToExit(Sum(1, <<LoadArray(buffer', 0, LlvmLen(size))>>))
  /\ touched' = {pending.i, pending.j} \cup 0 .. LlvmLen(size) - 1

SwapSuccess ==
  /\ block = "success" /\ pending.op = "swap"
  /\ LET stack == WithArrayAlloca(array)
         elem1 == LoadElem(stack, pending.i)
         elem2 == LoadElem(stack, pending.j)
     IN /\ buffer' = StoreElem(StoreElem(stack, pending.i, elem2), pending.j, elem1)
        /\ ToExit(Sum(1, <<LoadArray(buffer', 0, LlvmLen(size))>>))
  /\ touched' = {pending.i, pending.j} \cup 0 .. LlvmLen(size) - 1

\* The failure blocks: set gives its value back, set and swap the array.
FailureFields(p) == CASE p.op = "get"  -> <<>>
                      [] p.op = "set"  -> <<p.v, array>>
                      [] p.op = "swap" -> <<array>>

Failure == /\ block = "failure"
           /\ ToExit(Sum(0, FailureFields(pending)))
           /\ UNCHANGED <<buffer, touched>>

Exit == /\ block = "exit"
        /\ Finish(mailbox)
        /\ UNCHANGED <<buffer, touched, mailbox>>

-----------------------------------------------------------------------------
(* The operations without branches. *)

\* emit_pop_op.  On size zero the code is only the tag of None; else one end of
\* the buffer is loaded as the element and the rest as an array.
PopEmpty == /\ block = "entry" /\ pending.op \in {"pop_left", "pop_right"} /\ size = 0
            /\ Finish(Sum(0, <<>>))
            /\ UNCHANGED <<buffer, touched, mailbox>>

Pop == /\ block = "entry" /\ pending.op \in {"pop_left", "pop_right"} /\ size > 0
       /\ LET left == pending.op = "pop_left"
              elemAt == IF left THEN 0 ELSE GepI32(size - 1)
              restAt == IF left THEN 1 ELSE 0
              restLen == (LlvmLen(size) - 1) % LenMod
          IN /\ buffer' = WithArrayAlloca(array)
             /\ touched' = {elemAt} \cup restAt .. restAt + restLen - 1
             /\ Finish(Sum(1, <<LoadElem(buffer', elemAt), LoadArray(buffer', restAt, restLen)>>))
       /\ UNCHANGED mailbox

\* new_array: the inputs are inserted one by one into an undefined array.
NewArray == /\ block = "entry" /\ pending.op = "new_array"
            /\ Finish(LoadArray(pending.arr.elems, 0, LlvmLen(Contract!Size(pending.arr))))
            /\ UNCHANGED <<buffer, touched, mailbox>>

\* discard_empty emits nothing; it has no outputs to finish.
DiscardEmpty == /\ block = "entry" /\ pending.op = "discard_empty"
                /\ array' = NoArray
                /\ size' = 0
                /\ pending' = NoOp
                /\ block' = "done"
                /\ UNCHANGED <<buffer, touched, mailbox, outcome>>

-----------------------------------------------------------------------------
(* An array may also reach the program as an argument of the function. *)
Init == /\ size \in Sizes
        /\ array \in Contract!Arrays(LlvmLen(size))
        /\ pending = NoOp
        /\ block = "start"
        /\ buffer = [k \in {} |-> Undef]
        /\ touched = {}
        /\ mailbox = Stale
        /\ outcome = NoOutcome

\* The program runs the code of the operation it is in.
Run == \/ Compare \/ GetSuccess \/ SetSuccess \/ SwapSuccess \/ Failure \/ Exit
       \/ PopEmpty \/ Pop \/ NewArray \/ DiscardEmpty

Next == Run \/ \E p \in Contract!Ops : Call(p)

\* Emitted code has no loops of its own: a block that is entered runs to its end.
Spec == Init /\ [][Next]_vars /\ WF_vars(Run)

-----------------------------------------------------------------------------
(* Properties. *)

\* The type invariant: the array in hand is an LLVM array of the length its
\* HUGR type is lowered to, with every element defined.
TypeOK ==
  /\ size \in 0 .. 2 * LenMod
  /\ array \in {NoArray} \cup Contract!Arrays(LlvmLen(size))
  /\ pending \in {NoOp} \cup Contract!Ops
  /\ block \in {"start", "entry", "success", "failure", "exit", "done"}
  /\ pending = NoOp <=> block \in {"start", "done"}

\* No emitted instruction reaches outside the memory with_array_alloca made:
\* neither the GEPs, which are not checked at run time, nor the load of the rest
\* of an array in a pop, which goes through a pointer cast to another type.
AccessesInBounds == touched \subseteq DOMAIN buffer

\* The emitted code computes what the operations mean, whatever operations the
\* program has applied before: set and swap leave the other elements alone (swap
\* also of an element with itself), a failed operation hands everything back, no
\* result is read from what an earlier execution left in a mailbox.
ComputesTheOperation == Contract!Spec
=============================================================================
