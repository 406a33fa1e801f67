---------------------------- MODULE ArrayOpsProofs ----------------------------
(***************************************************************************)
(* Proofs about ArrayOps, for every element type and every array whose     *)
(* size is at most half of LenMod (2^31).                                  *)
(***************************************************************************)
EXTENDS ArrayOps, TLAPS

\* The sizes for which every length and offset in the emitted code is exact.
Fits == \A n \in Sizes : 2 * n <= LenMod

-----------------------------------------------------------------------------
(* Arrays and lengths.                                                     *)

\* A length below the modulus survives the conversion to 32 bits.
LEMMA SmallMod ==
  ASSUME NEW n \in Nat, NEW m \in Nat, n < m
  PROVE  n % m = n
OBVIOUS

\* What the emitted code uses as length and offsets is what the type says.
LEMMA Lengths ==
  ASSUME NEW n \in Nat, 2 * n <= LenMod
  PROVE  /\ LlvmLen(n) = n
         /\ n > 0 => GepI32(n - 1) = n - 1
         /\ n > 0 => (LlvmLen(n) - 1) % LenMod = n - 1
<1>1. n < LenMod /\ LenMod \in Nat
  BY ArrayAssumption
<1>2. LlvmLen(n) = n
  BY <1>1, SmallMod DEF LlvmLen
<1>3. ASSUME n > 0 PROVE (n - 1) % LenMod = n - 1
  BY <1>1, <1>3, SmallMod
<1> QED BY <1>1, <1>2, <1>3 DEF GepI32

\* An array of size n has the indices 0..n-1, and is not NoArray.
LEMMA ArraysAre ==
  ASSUME NEW n \in Nat, NEW a \in Contract!Arrays(n)
  PROVE  /\ a.elems \in [0 .. n - 1 -> Elems]
         /\ a = Array(n, a.elems)
         /\ Contract!At(a) = 0 .. n - 1
         /\ Contract!Size(a) = n
         /\ a # NoArray
<1>1. PICK f \in [0 .. n - 1 -> Elems] : a = [len |-> n, elems |-> f]
  BY DEF Contract!Arrays, Contract!Array
<1>2. a.elems = f /\ a.len = n
  BY <1>1
<1>3. a # NoArray
  <2>1. DOMAIN a = {"len", "elems"} /\ DOMAIN NoArray = {"none"}
    BY <1>1 DEF NoArray, Contract!NoArray
  <2> QED BY <2>1
<1> QED BY <1>1, <1>2, <1>3 DEF Array, Contract!Array, Contract!At, Contract!Size

\* Making an array of a function on 0..n-1.
LEMMA MakeArray ==
  ASSUME NEW n \in Int, NEW f \in [0 .. n - 1 -> Elems]
  PROVE  Array(n, f) \in Contract!Arrays(n)
BY DEF Array, Contract!Array, Contract!Arrays

\* Loading every element of a buffer that holds an array gives that array.
LEMMA LoadWhole ==
  ASSUME NEW n \in Nat, NEW f \in [0 .. n - 1 -> Elems]
  PROVE  LoadArray(f, 0, n) = Array(n, f)
<1>1. [k \in 0 .. n - 1 |-> LoadElem(f, 0 + k)] = f
  BY DEF LoadElem
<1> QED BY <1>1 DEF LoadArray

\* No operation is NoOp.
LEMMA OpsAre ==
  ASSUME NEW p \in Contract!Ops
  PROVE  /\ p # NoOp
         /\ p.op \in {"get", "set", "swap", "pop_left", "pop_right", "discard_empty", "new_array"}
         /\ p.op \in Branching => p.i \in Nat
         /\ p.op = "set"  => p.v \in Elems
         /\ p.op = "swap" => p.j \in Nat
         /\ p.op = "new_array" => p.arr \in UNION {Contract!Arrays(n) : n \in Sizes}
<1>1. CASE p \in [op : {"get"}, i : Indices]
  <2>1. p.op = "get" /\ p.i \in Nat
    BY <1>1, ArrayAssumption
  <2> QED BY <2>1 DEF NoOp, Contract!NoOp, Branching
<1>2. CASE p \in [op : {"set"}, i : Indices, v : Elems]
  <2>1. p.op = "set" /\ p.i \in Nat /\ p.v \in Elems
    BY <1>2, ArrayAssumption
  <2> QED BY <2>1 DEF NoOp, Contract!NoOp, Branching
<1>3. CASE p \in [op : {"swap"}, i : Indices, j : Indices]
  <2>1. p.op = "swap" /\ p.i \in Nat /\ p.j \in Nat
    BY <1>3, ArrayAssumption
  <2> QED BY <2>1 DEF NoOp, Contract!NoOp, Branching
<1>4. CASE p \in [op : {"pop_left", "pop_right", "discard_empty"}]
  BY <1>4 DEF NoOp, Contract!NoOp, Branching
<1>5. CASE p \in [op : {"new_array"}, arr : UNION {Contract!Arrays(n) : n \in Sizes}]
  BY <1>5 DEF NoOp, Contract!NoOp, Branching
<1> QED BY <1>1, <1>2, <1>3, <1>4, <1>5 DEF Contract!Ops

\* get, set and swap hand an array of the same size on.
LEMMA BranchingOnward ==
  ASSUME NEW n \in Nat, NEW a \in Contract!Arrays(n), NEW p \in Contract!Ops,
         p.op \in Branching
  PROVE  Contract!Onward(p, a, Contract!Result(p, a)) \in Contract!Arrays(n)
<1> USE OpsAre, ArraysAre
<1>1. CASE p.op = "get"
  BY <1>1 DEF Contract!Onward
<1>2. CASE p.op = "set"
  <2>1. CASE p.i \in Contract!At(a)
    <3>1. [a.elems EXCEPT ![p.i] = p.v] \in [0 .. n - 1 -> Elems]
      BY <1>2
    <3>2. Contract!Onward(p, a, Contract!Result(p, a)) = Array(n, [a.elems EXCEPT ![p.i] = p.v])
      BY <1>2, <2>1 DEF Contract!Onward, Contract!Result, Contract!Sum, Array
    <3> QED BY <3>1, <3>2, MakeArray
  <2>2. CASE p.i \notin Contract!At(a)
    BY <1>2, <2>2 DEF Contract!Onward, Contract!Result, Contract!Sum
  <2> QED BY <2>1, <2>2
<1>3. CASE p.op = "swap"
  <2>1. CASE {p.i, p.j} \subseteq Contract!At(a)
    <3> DEFINE f == [a.elems EXCEPT ![p.i] = a.elems[p.j], ![p.j] = a.elems[p.i]]
    <3>1. p.i \in 0 .. n - 1 /\ p.j \in 0 .. n - 1
      BY <2>1
    <3>2. f \in [0 .. n - 1 -> Elems]
      BY <3>1
    <3>3. Contract!Onward(p, a, Contract!Result(p, a)) = Array(n, f)
      BY <1>3, <2>1 DEF Contract!Onward, Contract!Result, Contract!Sum, Array
    <3> QED BY <3>2, <3>3, MakeArray
  <2>2. CASE ~({p.i, p.j} \subseteq Contract!At(a))
    BY <1>3, <2>2 DEF Contract!Onward, Contract!Result, Contract!Sum
  <2> QED BY <2>1, <2>2
<1> QED BY <1>1, <1>2, <1>3 DEF Branching

-----------------------------------------------------------------------------
(* The inductive invariant.  What decides is what is known on entry to each  *)
(* block: a success block is entered with an index in bounds, and the exit   *)
(* block with the right result in the mailbox.                               *)

TypeInv == /\ size \in Nat /\ 2 * size <= LenMod
           /\ array \in {NoArray} \cup Contract!Arrays(size)
           /\ pending \in {NoOp} \cup Contract!Ops
           /\ block \in {"start", "entry", "success", "failure", "exit", "done"}

PendingInv == /\ block \in {"entry", "success", "failure", "exit"} <=> pending # NoOp
              /\ pending # NoOp => outcome = NoOutcome /\ Contract!Legal(pending, array)

BlockInv == /\ block = "success" => pending.op \in Branching /\ InBounds(pending)
            /\ block = "failure" => pending.op \in Branching /\ ~InBounds(pending)
            /\ block = "exit" => /\ pending.op \in Branching
                                 /\ mailbox = Contract!Result(pending, array)

Inv == TypeInv /\ PendingInv /\ BlockInv /\ AccessesInBounds

\* What the invariant says when an operation on an array is being executed.
LEMMA InHand ==
  ASSUME TypeInv, PendingInv, pending # NoOp, pending.op # "new_array"
  PROVE  /\ pending \in Contract!Ops
         /\ array \in Contract!Arrays(size) /\ size \in Nat /\ 2 * size <= LenMod
         /\ array = Array(size, array.elems) /\ array.elems \in [0 .. size - 1 -> Elems]
         /\ Contract!At(array) = 0 .. size - 1 /\ Contract!Size(array) = size
         /\ LlvmLen(size) = size
         /\ WithArrayAlloca(array) = array.elems
<1>1. array \in Contract!Arrays(size) /\ pending \in Contract!Ops
  <2>1. array # NoArray
    BY DEF TypeInv, PendingInv, Contract!Legal, NoArray
  <2> QED BY <2>1 DEF TypeInv
<1>2. size \in Nat /\ 2 * size <= LenMod
  BY DEF TypeInv
<1>3. LlvmLen(size) = size
  BY <1>2, Lengths
<1>4. array.elems \in [0 .. size - 1 -> Elems]
  BY <1>1, <1>2, ArraysAre
<1>5. WithArrayAlloca(array) = array.elems
  BY <1>3, <1>4 DEF WithArrayAlloca, LoadElem
<1> QED BY <1>1, <1>2, <1>3, <1>4, <1>5, ArraysAre

\* The initial states satisfy the invariant and are initial for the contract.
LEMMA InitInv ==
  ASSUME Fits, Init
  PROVE  Inv /\ Contract!Init
<1>1. size \in Nat /\ 2 * size <= LenMod /\ size \in Sizes
  BY ArrayAssumption DEF Fits, Init
<1>2. array \in Contract!Arrays(size)
  BY <1>1, Lengths DEF Init
<1> QED BY <1>1, <1>2 DEF Init, Inv, TypeInv, PendingInv, BlockInv, AccessesInBounds,
                          Contract!Init, NoOp, NoOutcome

\* A step of the code that stays inside an operation is a stutter of the
\* contract; the others are its Call and its Return.
LEMMA CallStep ==
  ASSUME Fits, Inv, NEW p \in Contract!Ops, Call(p)
  PROVE  Inv' /\ Contract!Call(p)
<1>1. Contract!Legal(p, array)
  <2>1. CASE p.op = "discard_empty"
    <3>1. array \in Contract!Arrays(size) /\ size \in Nat /\ size = 0
      BY <2>1 DEF Call, Inv, TypeInv
    <3> QED BY <2>1, <3>1, ArraysAre DEF Contract!Legal, NoArray
  <2>2. CASE p.op = "new_array"
    BY <2>2 DEF Call, Contract!Legal, NoArray
  <2>3. CASE p.op \notin {"discard_empty", "new_array"}
    BY <2>3 DEF Call, Contract!Legal, NoArray
  <2> QED BY <2>1, <2>2, <2>3
<1>2. Contract!Call(p)
  BY <1>1 DEF Call, Contract!Call, NoOp, NoOutcome
<1>3. TypeInv'
  BY DEF Call, Inv, TypeInv
<1>4. PendingInv'
  BY <1>1, OpsAre DEF Call, PendingInv
<1>5. BlockInv' /\ AccessesInBounds'
  BY DEF Call, BlockInv, AccessesInBounds
<1> QED BY <1>2, <1>3, <1>4, <1>5 DEF Inv

LEMMA CompareStep ==
  ASSUME Inv, Compare
  PROVE  Inv' /\ UNCHANGED Contract!avars
<1>1. TypeInv' /\ AccessesInBounds' /\ UNCHANGED Contract!avars
  BY DEF Compare, Inv, TypeInv, AccessesInBounds, Contract!avars
<1>2. PendingInv'
  BY DEF Compare, Inv, PendingInv
<1>3. BlockInv'
  BY DEF Compare, BlockInv, InBounds
<1> QED BY <1>1, <1>2, <1>3 DEF Inv

LEMMA GetStep ==
  ASSUME Inv, GetSuccess
  PROVE  Inv' /\ UNCHANGED Contract!avars
<1>1. pending # NoOp /\ pending.op = "get" /\ pending \in Contract!Ops
  BY DEF GetSuccess, Inv, TypeInv, PendingInv
<1>2. pending.i \in 0 .. size - 1
  <2>1. pending.i \in Nat /\ pending.i < size
    BY <1>1, OpsAre DEF GetSuccess, Inv, BlockInv, InBounds, Branching
  <2> QED BY <2>1 DEF Inv, TypeInv
<1>3. buffer' = array.elems /\ DOMAIN buffer' = 0 .. size - 1
  BY <1>1, InHand DEF GetSuccess, Inv
<1>4. mailbox' = Contract!Result(pending, array)
  <2>1. LoadElem(buffer', pending.i) = array.elems[pending.i]
    BY <1>2, <1>3 DEF LoadElem
  <2> QED BY <1>1, <1>2, <2>1, InHand DEF GetSuccess, ToExit, Inv, Contract!Result, Sum
<1>5. TypeInv' /\ PendingInv' /\ UNCHANGED Contract!avars
  BY <1>1 DEF GetSuccess, ToExit, Inv, TypeInv, PendingInv, Contract!avars
<1>6. BlockInv'
  BY <1>1, <1>4 DEF GetSuccess, ToExit, BlockInv, Branching
<1>7. AccessesInBounds'
  BY <1>2, <1>3 DEF GetSuccess, AccessesInBounds
<1> QED BY <1>5, <1>6, <1>7 DEF Inv

LEMMA SetStep ==
  ASSUME Inv, SetSuccess
  PROVE  Inv' /\ UNCHANGED Contract!avars
<1>1. pending # NoOp /\ pending.op = "set" /\ pending \in Contract!Ops /\ pending.v \in Elems
  BY OpsAre DEF SetSuccess, Inv, TypeInv, PendingInv
<1>2. pending.i \in 0 .. size - 1
  <2>1. pending.i \in Nat /\ pending.i < size
    BY <1>1, OpsAre DEF SetSuccess, Inv, BlockInv, InBounds, Branching
  <2> QED BY <2>1 DEF Inv, TypeInv
<1> DEFINE stack == array.elems
           new   == [stack EXCEPT ![pending.i] = pending.v]
<1>3. /\ stack \in [0 .. size - 1 -> Elems] /\ size \in Nat
      /\ WithArrayAlloca(array) = stack /\ LlvmLen(size) = size
  BY <1>1, InHand DEF Inv
<1>4. buffer' = new /\ new \in [0 .. size - 1 -> Elems]
  BY <1>1, <1>2, <1>3 DEF SetSuccess, StoreElem
<1>5. mailbox' = Contract!Result(pending, array)
  <2>1. LoadElem(stack, pending.i) = stack[pending.i]
    BY <1>2, <1>3 DEF LoadElem
  <2>2. LoadArray(buffer', 0, size) = Array(size, new)
    BY <1>3, <1>4, LoadWhole
  <2>3. mailbox' = Sum(1, <<stack[pending.i], Array(size, new)>>)
    BY <1>3, <2>1, <2>2 DEF SetSuccess, ToExit
  <2>4. Contract!At(array) = 0 .. size - 1 /\ Contract!Size(array) = size
    BY <1>1, InHand DEF Inv
  <2> QED BY <1>1, <1>2, <2>3, <2>4 DEF Contract!Result, Sum, Array
<1>6. TypeInv' /\ PendingInv' /\ UNCHANGED Contract!avars
  BY <1>1 DEF SetSuccess, ToExit, Inv, TypeInv, PendingInv, Contract!avars
<1>7. BlockInv'
  BY <1>1, <1>5 DEF SetSuccess, ToExit, BlockInv, Branching
<1>8. AccessesInBounds'
  BY <1>2, <1>3, <1>4 DEF SetSuccess, AccessesInBounds
<1> QED BY <1>6, <1>7, <1>8 DEF Inv

LEMMA SwapStep ==
  ASSUME Inv, SwapSuccess
  PROVE  Inv' /\ UNCHANGED Contract!avars
<1>1. pending # NoOp /\ pending.op = "swap" /\ pending \in Contract!Ops
  BY DEF SwapSuccess, Inv, TypeInv, PendingInv
<1>2. pending.i \in 0 .. size - 1 /\ pending.j \in 0 .. size - 1
  <2>1. pending.i \in Nat /\ pending.i < size /\ pending.j \in Nat /\ pending.j < size
    BY <1>1, OpsAre DEF SwapSuccess, Inv, BlockInv, InBounds, Branching
  <2> QED BY <2>1 DEF Inv, TypeInv
<1> DEFINE stack == array.elems
           new   == [stack EXCEPT ![pending.i] = stack[pending.j],
                                  ![pending.j] = stack[pending.i]]
<1>3. /\ stack \in [0 .. size - 1 -> Elems] /\ size \in Nat
      /\ WithArrayAlloca(array) = stack /\ LlvmLen(size) = size
  BY <1>1, InHand DEF Inv
<1>4. buffer' = new /\ new \in [0 .. size - 1 -> Elems]
  BY <1>1, <1>2, <1>3 DEF SwapSuccess, StoreElem, LoadElem
<1>5. mailbox' = Contract!Result(pending, array)
  <2>1. LoadArray(buffer', 0, size) = Array(size, new)
    BY <1>3, <1>4, LoadWhole
  <2>2. mailbox' = Sum(1, <<Array(size, new)>>)
    BY <1>3, <2>1 DEF SwapSuccess, ToExit
  <2>3. Contract!At(array) = 0 .. size - 1 /\ Contract!Size(array) = size
    BY <1>1, InHand DEF Inv
  <2> QED BY <1>1, <1>2, <2>2, <2>3 DEF Contract!Result, Sum, Array
<1>6. TypeInv' /\ PendingInv' /\ UNCHANGED Contract!avars
  BY <1>1 DEF SwapSuccess, ToExit, Inv, TypeInv, PendingInv, Contract!avars
<1>7. BlockInv'
  BY <1>1, <1>5 DEF SwapSuccess, ToExit, BlockInv, Branching
<1>8. AccessesInBounds'
  BY <1>2, <1>3, <1>4 DEF SwapSuccess, AccessesInBounds
<1> QED BY <1>6, <1>7, <1>8 DEF Inv

LEMMA FailureStep ==
  ASSUME Inv, Failure
  PROVE  Inv' /\ UNCHANGED Contract!avars
<1>1. /\ pending # NoOp /\ pending.op \in Branching /\ pending \in Contract!Ops
      /\ ~InBounds(pending)
  BY DEF Failure, Inv, TypeInv, PendingInv, BlockInv
<1>2. /\ size \in Nat /\ Contract!At(array) = 0 .. size - 1
  BY <1>1, InHand DEF Inv, Branching
<1>3. mailbox' = Contract!Result(pending, array)
  <2>1. CASE pending.op = "get"
    <3>1. pending.i \notin Contract!At(array)
      BY <1>1, <1>2, <2>1, OpsAre DEF InBounds
    <3> QED BY <2>1, <3>1 DEF Failure, ToExit, FailureFields, Contract!Result, Sum
  <2>2. CASE pending.op = "set"
    <3>1. pending.i \notin Contract!At(array)
      BY <1>1, <1>2, <2>2, OpsAre DEF InBounds
    <3> QED BY <2>2, <3>1 DEF Failure, ToExit, FailureFields, Contract!Result, Sum
  <2>3. CASE pending.op = "swap"
    <3>1. ~({pending.i, pending.j} \subseteq Contract!At(array))
      BY <1>1, <1>2, <2>3, OpsAre DEF InBounds
    <3> QED BY <2>3, <3>1 DEF Failure, ToExit, FailureFields, Contract!Result, Sum
  <2> QED BY <1>1, <2>1, <2>2, <2>3 DEF Branching
<1>4. TypeInv' /\ PendingInv' /\ UNCHANGED Contract!avars
  BY <1>1 DEF Failure, ToExit, Inv, TypeInv, PendingInv, Contract!avars
<1>5. BlockInv' /\ AccessesInBounds'
  BY <1>1, <1>3 DEF Failure, ToExit, BlockInv, Inv, AccessesInBounds
<1> QED BY <1>4, <1>5 DEF Inv

\* An operation that finishes with the result its meaning gives returns.
LEMMA FinishStep ==
  ASSUME Inv, pending # NoOp, NEW r, Finish(r), r = Contract!Result(pending, array),
         Contract!Onward(pending, array, r) \in {NoArray} \cup Contract!Arrays(SizeAfter(pending)),
         SizeAfter(pending) \in Nat, 2 * SizeAfter(pending) <= LenMod,
         AccessesInBounds'
  PROVE  Inv' /\ Contract!Return
<1>1. Contract!Return
  BY DEF Finish, Contract!Return, NoOp
<1>2. size' \in Nat /\ 2 * size' <= LenMod
  <2>1. CASE array' = NoArray
    BY <2>1, ArrayAssumption DEF Finish
  <2>2. CASE array' # NoArray
    BY <2>2 DEF Finish
  <2> QED BY <2>1, <2>2
<1>3. array' \in {NoArray} \cup Contract!Arrays(size')
  BY DEF Finish
<1>4. /\ PendingInv' /\ BlockInv' /\ pending' = NoOp
      /\ block' = "done"
  BY DEF Finish, PendingInv, BlockInv
<1> QED BY <1>1, <1>2, <1>3, <1>4 DEF Inv, TypeInv

LEMMA ExitStep ==
  ASSUME Inv, Exit
  PROVE  Inv' /\ Contract!Return
<1>1. /\ pending # NoOp /\ pending.op \in Branching /\ pending \in Contract!Ops
      /\ mailbox = Contract!Result(pending, array)
  BY DEF Exit, Inv, TypeInv, PendingInv, BlockInv
<1>2. /\ size \in Nat /\ 2 * size <= LenMod /\ array \in Contract!Arrays(size)
  BY <1>1, InHand DEF Inv, Branching
<1>3. SizeAfter(pending) = size
  BY <1>1 DEF SizeAfter, Branching
<1>4. Contract!Onward(pending, array, mailbox) \in Contract!Arrays(size)
  BY <1>1, <1>2, BranchingOnward
<1>5. Finish(mailbox) /\ AccessesInBounds'
  BY DEF Exit, Inv, AccessesInBounds
<1> QED BY <1>1, <1>2, <1>3, <1>4, <1>5, FinishStep

LEMMA PopEmptyStep ==
  ASSUME Inv, PopEmpty
  PROVE  Inv' /\ Contract!Return
<1> DEFINE r == Sum(0, <<>>)
<1>1. pending # NoOp /\ pending.op \in {"pop_left", "pop_right"} /\ size = 0
  BY DEF PopEmpty, Inv, PendingInv
<1>2. Contract!Size(array) = 0 /\ 2 * size <= LenMod
  BY <1>1, InHand DEF Inv
<1>3. r = Contract!Result(pending, array)
  BY <1>1, <1>2 DEF Contract!Result, Sum
<1>4. Contract!Onward(pending, array, r) = NoArray
  BY <1>1 DEF Contract!Onward, Sum, Contract!Sum, NoArray
<1>5. SizeAfter(pending) = 0
  BY <1>1 DEF SizeAfter
<1>6. Finish(r) /\ AccessesInBounds'
  BY DEF PopEmpty, Inv, AccessesInBounds
<1> HIDE DEF r
<1> QED BY <1>1, <1>2, <1>3, <1>4, <1>5, <1>6, FinishStep

LEMMA PopStep ==
  ASSUME Inv, Pop
  PROVE  Inv' /\ Contract!Return
<1>1. /\ pending # NoOp /\ pending \in Contract!Ops
      /\ pending.op \in {"pop_left", "pop_right"} /\ size > 0
  BY DEF Pop, Inv, TypeInv, PendingInv
<1> DEFINE f == array.elems
           left == pending.op = "pop_left"
           elemAt == IF left THEN 0 ELSE size - 1
           restAt == IF left THEN 1 ELSE 0
           rest == [k \in 0 .. size - 2 |-> f[restAt + k]]
           r == Sum(1, <<f[elemAt], Array(size - 1, rest)>>)
<1>2. /\ size \in Nat /\ 2 * size <= LenMod /\ f \in [0 .. size - 1 -> Elems]
      /\ WithArrayAlloca(array) = f /\ LlvmLen(size) = size /\ Contract!Size(array) = size
  BY <1>1, InHand DEF Inv
<1>3. GepI32(size - 1) = size - 1 /\ (LlvmLen(size) - 1) % LenMod = size - 1
  BY <1>1, <1>2, Lengths
<1>4. buffer' = f /\ DOMAIN buffer' = 0 .. size - 1
  BY <1>2 DEF Pop
<1>5. touched' = {elemAt} \cup restAt .. restAt + (size - 1) - 1
  BY <1>2, <1>3 DEF Pop
<1>6. AccessesInBounds'
  BY <1>1, <1>2, <1>4, <1>5 DEF AccessesInBounds
<1>7. Finish(r)
  <2>1. LoadElem(f, elemAt) = f[elemAt]
    BY <1>1, <1>2 DEF LoadElem
  <2>2. LoadArray(f, restAt, size - 1) = Array(size - 1, rest)
    <3>1. \A k \in 0 .. (size - 1) - 1 : LoadElem(f, restAt + k) = f[restAt + k]
      BY <1>1, <1>2 DEF LoadElem
    <3>2. 0 .. (size - 1) - 1 = 0 .. size - 2
      BY <1>2
    <3> QED BY <3>1, <3>2 DEF LoadArray
  <2>3. Finish(Sum(1, <<LoadElem(f, elemAt), LoadArray(f, restAt, size - 1)>>))
    BY <1>2, <1>3, <1>4 DEF Pop
  <2> QED BY <2>1, <2>2, <2>3
<1>8. r = Contract!Result(pending, array)
  <2>1. CASE left
    <3>1. r = Sum(1, <<f[0], Array(size - 1, [k \in 0 .. size - 2 |-> f[k + 1]])>>)
      <4>1. rest = [k \in 0 .. size - 2 |-> f[k + 1]]
        BY <1>2, <2>1
      <4> QED BY <2>1, <4>1
    <3> HIDE DEF r
    <3>2. Contract!Result(pending, array)
            = Sum(1, <<f[0], Array(size - 1, [k \in 0 .. size - 2 |-> f[k + 1]])>>)
      BY <1>1, <1>2, <2>1 DEF Contract!Result, Sum, Array
    <3> QED BY <3>1, <3>2
  <2>2. CASE ~left
    <3>1. r = Sum(1, <<f[size - 1], Array(size - 1, [k \in 0 .. size - 2 |-> f[k]])>>)
      <4>1. rest = [k \in 0 .. size - 2 |-> f[k]]
        BY <1>2, <2>2
      <4> QED BY <2>2, <4>1
    <3> HIDE DEF r
    <3>2. Contract!Result(pending, array)
            = Sum(1, <<f[size - 1], Array(size - 1, [k \in 0 .. size - 2 |-> f[k]])>>)
      BY <1>1, <1>2, <2>2 DEF Contract!Result, Sum, Array
    <3> QED BY <3>1, <3>2
  <2> QED BY <2>1, <2>2
<1>9. Contract!Onward(pending, array, r) \in Contract!Arrays(size - 1)
  <2>1. Contract!Onward(pending, array, r) = Array(size - 1, rest)
    BY <1>1 DEF Contract!Onward, Sum, Contract!Sum
  <2>2. rest \in [0 .. (size - 1) - 1 -> Elems]
    BY <1>1, <1>2
  <2> HIDE DEF rest, r
  <2> QED BY <1>2, <2>1, <2>2, MakeArray
<1>10. /\ SizeAfter(pending) = size - 1 /\ size - 1 \in Nat
       /\ 2 * (size - 1) <= LenMod
  BY <1>1, <1>2, ArrayAssumption DEF SizeAfter
<1> HIDE DEF r
<1> QED BY <1>1, <1>6, <1>7, <1>8, <1>9, <1>10, FinishStep

LEMMA NewArrayStep ==
  ASSUME Fits, Inv, NewArray
  PROVE  Inv' /\ Contract!Return
<1>1. pending # NoOp /\ pending \in Contract!Ops /\ pending.op = "new_array"
  BY DEF NewArray, Inv, TypeInv, PendingInv
<1> DEFINE a == pending.arr
<1>2. PICK n \in Sizes : a \in Contract!Arrays(n)
  BY <1>1, OpsAre
<1>3. n \in Nat /\ 2 * n <= LenMod
  BY ArrayAssumption DEF Fits
<1>4. /\ a.elems \in [0 .. n - 1 -> Elems] /\ a = Array(n, a.elems)
      /\ Contract!Size(a) = n /\ LlvmLen(n) = n
  BY <1>2, <1>3, ArraysAre, Lengths
<1>5. LoadArray(a.elems, 0, LlvmLen(Contract!Size(a))) = a
  BY <1>3, <1>4, LoadWhole
<1>6. Finish(a) /\ AccessesInBounds'
  BY <1>5 DEF NewArray, Inv, AccessesInBounds
<1>7. a = Contract!Result(pending, array) /\ Contract!Onward(pending, array, a) = a
  BY <1>1 DEF Contract!Result, Contract!Onward
<1>8. SizeAfter(pending) = n
  BY <1>1, <1>4 DEF SizeAfter
<1> HIDE DEF a
<1> QED BY <1>1, <1>2, <1>3, <1>6, <1>7, <1>8, FinishStep

LEMMA DiscardEmptyStep ==
  ASSUME Inv, DiscardEmpty
  PROVE  Inv' /\ Contract!Return
<1>1. pending # NoOp /\ pending.op = "discard_empty" /\ outcome = NoOutcome
  BY DEF DiscardEmpty, Inv, PendingInv
<1>2. Contract!Return
  BY <1>1 DEF DiscardEmpty, Contract!Return, Contract!Result, Contract!Onward,
              NoOp, NoOutcome, NoArray
<1>3. TypeInv' /\ PendingInv' /\ BlockInv' /\ AccessesInBounds'
  BY ArrayAssumption DEF DiscardEmpty, Inv, TypeInv, PendingInv, BlockInv, AccessesInBounds
<1> QED BY <1>2, <1>3 DEF Inv

\* Every step keeps the invariant and is a step of the contract or a stutter.
LEMMA NextInv ==
  ASSUME Fits, Inv, [Next]_vars
  PROVE  Inv' /\ [Contract!Next]_Contract!avars
<1>1. CASE UNCHANGED vars
  BY <1>1 DEF vars, Inv, TypeInv, PendingInv, BlockInv, InBounds, AccessesInBounds,
              Contract!avars
<1>2. CASE Run
  BY <1>2, CompareStep, GetStep, SetStep, SwapStep, FailureStep, ExitStep, PopEmptyStep,
     PopStep, NewArrayStep, DiscardEmptyStep DEF Run, Contract!Next
<1>3. CASE \E p \in Contract!Ops : Call(p)
  BY <1>3, CallStep DEF Contract!Next
<1> QED BY <1>1, <1>2, <1>3 DEF Next

-----------------------------------------------------------------------------
(* The theorems.                                                            *)

\* An array in hand is an LLVM array of the length its HUGR type is lowered to,
\* whatever operations have been applied (array.rs:51-385).
THEOREM ArrayTypesCorrect == Fits => (Spec => []TypeOK)
<1> SUFFICES ASSUME Fits PROVE Spec => []TypeOK
  OBVIOUS
<1>1. Init => Inv
  BY InitInv
<1>2. Inv /\ [Next]_vars => Inv'
  BY NextInv
<1>3. Inv => TypeOK
  <2> SUFFICES ASSUME Inv PROVE TypeOK
    OBVIOUS
  <2>1. size \in 0 .. 2 * LenMod /\ LlvmLen(size) = size
    BY ArrayAssumption, Lengths DEF Inv, TypeInv
  <2> QED BY <2>1 DEF Inv, TypeInv, PendingInv, TypeOK
<1> QED BY <1>1, <1>2, <1>3, PTL DEF Spec

\* Emitted code never reaches outside the stack memory with_array_alloca made
\* (array.rs:33-49), for arrays of at most 2^31 elements.
THEOREM MemorySafe == Fits => (Spec => []AccessesInBounds)
<1> SUFFICES ASSUME Fits PROVE Spec => []AccessesInBounds
  OBVIOUS
<1>1. Init => Inv
  BY InitInv
<1>2. Inv /\ [Next]_vars => Inv'
  BY NextInv
<1>3. Inv => AccessesInBounds
  BY DEF Inv
<1> QED BY <1>1, <1>2, <1>3, PTL DEF Spec

\* The emitted code implements the meaning of the array operations, for arrays
\* of at most 2^31 elements (array.rs:51-385): the safety half of
\* ComputesTheOperation.
THEOREM ComputesSafely == Fits => (Spec => Contract!Safe)
<1> SUFFICES ASSUME Fits PROVE Spec => Contract!Safe
  OBVIOUS
<1>1. Init => Inv /\ Contract!Init
  BY InitInv
<1>2. Inv /\ [Next]_vars => Inv' /\ [Contract!Next]_Contract!avars
  BY NextInv
<1> QED BY <1>1, <1>2, PTL DEF Spec, Contract!Safe
=============================================================================
