# hugr-llvm in TLA+

hugr-llvm lowers a HUGR, a hierarchical dataflow and control-flow graph, to an
LLVM module. This directory models the lowering in TLA+, checks the models on
small instances with TLC, and proves with TLAPS, for every value of the
constants, the main results about the emission of modules and of function
bodies, the registry of codegen extensions, the code emitted for numbers, arrays
and sums, and the inlining of constant functions.

Paths such as `emit.rs` are relative to `src/src/`.

## Inventory of the system

| part | code | state | operations |
|------|------|-------|------------|
| module context | `emit.rs`, `emit/namer.rs` | the LLVM module's symbols | `get_func_defn`, `get_func_decl`, `get_extern_func`, `get_global` |
| `EmitHugr` | `emit.rs` | `emitted`, a worklist per call | `emit_func`, `emit_module`, `finish` |
| function context | `emit/func.rs`, `emit/func/mailbox.rs` | basic blocks, one shared builder and its position, the mailbox of each wire, `todo` | `new_basic_block`, `build_positioned*`, `node_ins_rmb`, `node_outs_rmb`, `new_row_mail_box`, `push_todo_func`, `finish` |
| emitters | `emit/ops.rs`, `emit/ops/cfg.rs` | inputs and output promise of each activation, blocks of a CFG | one emitter per kind of node |
| sums | `sum.rs` | none; an LLVM struct per value | `build_tag`, `build_get_tag`, `build_untag`, `build_destructure` |
| extension registry | `custom.rs`, `custom/`, `types.rs`, `utils/type_map.rs` | handlers by key, in three tables | `custom_type`, `custom_const`, `extension_op`, `simple_extension_op`, `finish`; then `llvm_type`, `emit_custom_const`, `emit_extension_op` |
| handlers | `extension/` | none | the LLVM code of ints, floats, conversions, logic, rotations, arrays, prelude |
| constant functions | `utils/inline_constant_functions.rs` | the HUGR, rewritten in place | `inline_constant_functions` |
| plumbing | `utils/fat.rs`, `utils/*_builder.rs`, `test.rs` | none | typed views of nodes, builders for tests |

**How they interact.** `EmitHugr` hands the module context to an
`EmitFuncContext` for the duration of one body and gets it back, with the scoped
FuncDefns that were met, from `finish`. The emitters recurse over the regions of
the body through that one context: each reads the mailboxes of its inputs and is
given a promise (`RowPromise`) to write its outputs. The handlers of the
extensions are called for extension operations and constants, and reach back
into the module context for symbols.

**What is hard.** Nothing is concurrent and nothing is persisted; what is hard
is order, and code that runs long after it was written.

| part | hard | correct when |
|------|------|--------------|
| module context | functions and globals share LLVM's name space, names may be taken, before or after the definition is met | a reference and the body it means end up in one symbol, which stays what it is |
| `EmitHugr` | the worklist is a hash set and grows while it is worked off; calls overlap; an error consumes everything | every FuncDefn asked for, and all nested in it, is defined once; the result does not depend on the order; calls return |
| function context, emitters | one builder for all, whose position is an unchecked precondition; mailboxes shared by everything that names a wire, and by the iterations of a loop; any topological order | the function verifies, and computes what the HUGR means |
| arrays | unchecked offsets behind emitted comparisons, aliasing pointers, casts between array types | no access outside the stack memory; the meaning of the operation |
| integers, conversions | several widths in one LLVM type, floats that cannot hold every integer, values that are poison unless selected | the operation's value; never poison |
| sums | the field of a variant depends on whether there is a tag field; rows start undefined | what was tagged is given back; nothing undefined gets into a value |
| constant functions | passes over a graph that grow it; nodes remembered by index while others are removed | ends, leaves none behind, touches nothing else, and the result can be lowered |
| registry | a later registration silently replaces an earlier one; a handler combines what it captured when it was registered with what is looked up when it runs | the handler that runs is the latest; what is lowered has the type it was promised; extensions work in any order |

## Modules

| module | models | correspondence |
|--------|--------|----------------|
| `LlvmModule` | the symbol table | a function from names to symbols; `GetFunc`, `GetGlobal` are the lookups, and `Add` is LLVM's, renaming a taken name |
| `EmitContract` | what `EmitHugr` promises | requested and defined FuncDefns, and where the caller stands; from the docs of `emit_func` and `emit_module` |
| `EmitModule` | `EmitHugr` and the module context | `emitted`, `worklist`, `todo` are the fields and locals of those names, `given` the module that `EmitHugr::new` is handed, whatever it holds already; an action is an entry to a call, one pop, the start of a body, one operation of it, or its end. A body is the sequence of its operations that touch the module, emitted in any order. Implements `EmitContract` |
| `EmitModuleProofs` | theorems about `EmitModule` | |
| `FuncEmitter` | the emission of one body | the recursion of the emitters is an explicit stack of frames; `blocks`, `pos`, `mailboxes`, `todo` are the fields of `EmitFuncContext`; an action is one visit of a node or one phase of an emitter between two of its recursive calls. A `Leaf` stays in its block; a `GuardedOp` opens blocks of its own, as `get`, `set` and `swap` of arrays do, and must leave the builder in its exit block (`EmitGuarded`) |
| `FuncEmitterProofs` | theorems about `FuncEmitter` | |
| `HugrEval` | the meaning of a HUGR function | recursive evaluation of regions, conditionals and loops |
| `LlvmRun` | `FuncEmitter`, then a run of what it emitted | one action per kind of LLVM instruction. It also says where the wires of a function come from and what they carry, which emission does not look at |
| `LlvmRunProofs` | theorems about `LlvmRun` | |
| `Lowering` | what `LlvmRun` returns, against what `HugrEval` does | |
| `SmallHugrs` | HUGR functions for the two | |
| `ArrayContract` | the meaning of the array operations | an operation is called on the array in hand, and returns |
| `ArrayOps` | the code emitted for them | an action is one basic block; `buffer` is the memory of `with_array_alloca`, `touched` the offsets used, `mailbox` the exit mailbox. Implements `ArrayContract` |
| `ArrayOpsProofs` | theorems about `ArrayOps` | |
| `CodegenExts` | the `CodegenExtsBuilder` | the three tables are functions from keys to handlers; an extension is the chain of calls it makes, an action one call |
| `CodegenTyping` | what the callbacks of `extension/` do with one another | `CodegenExts`, filled with the calls of the repository's extensions, and then `Lower`: the lookups and checks of one constant or operation, as far as LLVM types go. It ends in values stored in mailboxes, an `Err`, a panic, or a type error that nothing stops |
| `CodegenTypingProofs` | theorems about `CodegenExts` and `CodegenTyping` | |
| `SumContract` | a sum as a tag and fields | an operation is called, and returns |
| `SumLayout` | the struct of `sum.rs` | an action is one instruction; structs are sequences, `row_v` and `sum_v` the structs being built. Implements `SumContract` |
| `SumLayoutProofs` | theorems about `SumLayout` | |
| `InlineConstFns` | the inlining of constant functions | the HUGR as nodes with kind, parent, static source; new nodes take unused indices or those of removed nodes, in any order; a constant is a function, or a sum with one in it, which the code passes over. An action is the collection of a pass, one constant of it, or its end |
| `InlineConstFnsProofs` | theorems about `InlineConstFns` | |
| `Floats`, `Arithmetic` | the code emitted for numbers and booleans | one wire; an action is one operation on it, `radd` and float arithmetic included. Beside the LLVM value stands the number that the operations mean; `astray` says that an instruction has read a number off bits that are another one |
| `ArithmeticProofs` | theorems about `Arithmetic` and lemmas about `Floats` | |
| `MC*` | instances | |

`FuncEmitter` and `EmitModule` look at one thing from two sides. `EmitModule`
takes a body as the operations that touch the module, in any order;
`FuncEmitter` produces those orders and hands on the scoped FuncDefns
(`ScopedFuncsHandedOn`) that `EmitModule` assumes it gets. An error inside a
body is `EmitModule`'s `EmitUnsupported`: it consumes the context, so
`FuncEmitter` has no error path of its own. In the same way `FuncEmitter` and
`ArrayOps` share the guarded array operations: `FuncEmitter` has the blocks, the
branch and the builder's position, with the test and the two outcomes as unknown
functions, and `ArrayOps` has what those compute and which memory they touch.

## Runs

| run | asks | bounds |
|-----|------|--------|
| `emit_module` | references reach the body they mean, supported HUGRs are never refused, the outcome does not depend on the order, names that collide end in an error and never in a wrong body, symbols are stable, the contract is kept, calls return | three FuncDefns placed flat or nested four ways and a fourth node; bodies with mutual and self recursion, shared externals and constants, and unsupported operations; under the default Namer, and under `Namer::new("", false)` every way of naming four nodes with two names, against handlers that ask for the same two. Into an empty module, one that agrees with the HUGR (declarations, a library's functions and constants) and one that does not (another body, a global where a function goes, another type). Any calls, any order |
| `emit_extern_clash` | a clash between a function and a global (violation) | the default Namer, an empty module |
| `lowering` | the builder is never in a closed block, and no block is left open; the function verifies; scoped FuncDefns are handed on; the code computes the HUGR, reads nothing undefined, and returns | functions with nested DFGs, conditionals on one- and two-variant and on empty sums, loops, dominator edges, a loop in a case in a loop, array `get`s in sequence, in a case and in the body of a loop; every topological order; then every combination of arguments of their types (there is none for an empty sum, whose switch has no case: such a function is emitted and not called) |
| `codegen_exts` | tables hold the latest callback; what is lowered has the promised type; extensions that are there work together | any three of ten extensions, in any order: three preludes (the default, one like that of the tests, one with its own error type), a chain of int, float, logic and conversion, rotation, and five that register one type again; then any of 40 constants and operations, registered ones that are refused or panic included |
| `sum_layout` | sums behave as sums, with nothing undefined in them | the empty and the unit sum, a tuple, booleans, options, variants of different lengths, up to three; rows of up to two fields; tags one past the last; any operations in any order |
| `array_ops` | accesses in bounds; implements `ArrayContract`, with its liveness | arrays of 0 to 4 elements of two values, indices 0 to 5, every operation in every legal order |
| `inline_const_fns` | passes end, leave no constant that is a function, rewrite nothing else, uses stay current though indices are used again | up to two constants, used up to twice or not at all, of functions nested up to three deep, supported or not, with FuncDefns and with sums of their own; every choice of indices for new nodes |
| `inline_links` | the result can be lowered (violation) | the same |
| `inline_sums` | nothing is left that `emit_value` refuses with the advice to run this pass (violation) | the same |
| `arithmetic` | operations compute their meaning, on narrow integers up to their width; no poison is selected; truncation and round trips; half turns are checked | integers of 1 and 2 bits stored in 4, of 4 and of 8, booleans, floats of 5 significant bits and a largest one, so that sums overflow to infinity; constants at and next to every bound |
| `trunc_bound` | round trips up to `2^Precision` are exact, as a test says (violation) | 2 and 4 bits |
| `narrow_consts` | constants keep their sign, as a comment says (violation) | widths below that of the LLVM type, and it |

Why these are enough. In `EmitModule` interference needs at most two functions
that collide and a third that refers to or contains them; the fourth node is the
one that is not a FuncDefn. A given module can agree or disagree about a function,
a global or a handler's symbol, and the two that are not empty hold one of each. Mailboxes go wrong between two regions or two
iterations, and the functions have each kind of region inside each other and
counters of up to two iterations, one more than the first. An operation that opens
blocks is left badly only for what comes after it: another such operation, the
end of a case, the end of a block of a CFG. Arrays of size 4 have
two ends, an inside and room for two indices in either order; `LenMod` is twice
the largest size, the bound of the theorems, so the signed offset of the last
element is the largest there can be. Callbacks interfere when one replaces
another, which needs two extensions, and a third whose handlers meet both
(`MaxAdded` is 3); a fourth would only replace again. Three variants are the
least with a first, a last and one between. Widths of integers and floats keep the
order that the real ones have: the narrow types share an LLVM type, and the
widest integers (64 bits; 8 in the model) exceed the precision of a float (53; 5)
while the next widest (32; 4) do not.

Deadlock is checked where a program goes on for ever (`array_ops`, `sum_layout`,
`codegen_exts`, `lowering` with its final stutter, `emit_module`); it is
switched off where a call ends (`inline_*`) and where an emitted program may
panic (`arithmetic` and its relatives).

## Fairness

All the code is sequential: a call runs until it returns or fails, so one weak
fairness condition on the steps of the program, and none on its caller, is all
that is assumed. `EmitModule`: `WF(Progress)`, the steps inside a call.
`LlvmRun`: `WF(RunNext)`. `ArrayOps`: `WF(Run)`, the code of the operation
that was called, not the next call. `SumLayout`: the same; that code has no loops.
`CodegenExts`: none, nothing is said to happen eventually. `InlineConstFns`: `WF(Next)`, one call.

## What is proved

`EmitModuleProofs`, for all sets of HUGRs, namers, name tables and modules to
emit into, from `NodeAssumption` (`NoNode` and `Foreign` are not nodes),
`TokenAssumption` (names are made of tokens, node indices and LLVM's counters
among them), `HugrAssumption` (HUGRs are well typed; a FuncDefn is a child of the
root or nested in another) and `ModuleAssumption` (what a given module holds has
no body from the HUGR, but may have one of its own, `Foreign`):

- `TypeCorrect`: `TypeOK` is itself inductive.
- `LinkedAlways`, `CallsLinked`: that calls reach their target is not inductive,
  for a body can be filed under another name than a reference made earlier. The
  invariant `Linked` adds why not: no lookup is renamed, references carry the
  mangled name, and bodies are under it. It holds while no symbol is a function
  for one and a global for another, the given module included (`KindsApart`); `emit_extern_clash` shows
  what happens otherwise.
- `WholeModuleIsLinked`: `CallsReachTheirTarget` says nothing of references to
  FuncDefns that have not been emitted. `emit_func` alone guarantees nothing about
  those: with plain names, a reference to a function that nobody asked for is one
  to whatever has its name, a body of another FuncDefn or of the given module.
  Once all FuncDefns of the root have been asked for and the calls have returned
  `Ok`, `Covered` makes everything emitted, and `Linked` then says that every
  FuncDefn holds its own body. Names that collide have ended in an error by then,
  when the second body met the first (`EmitFuncContext::new`).
- `SymbolsStable`: an action property, from the outcome of one lookup.
- `CoveredAlways`, `ContractKept`: `EmitModule` implements `EmitContract`. The
  step that needs an invariant is the return of a call: `Covered` says that what
  is owed is defined, queued, or still to come up in the body or in the children
  of the root, so that with empty queues nothing is owed.
- `CleanNeverFails`: nothing is refused that could be emitted, provided the given
  module agrees (`Agrees`: types as asked for, no bodies for the HUGR's FuncDefns). "No failure" is
  not inductive: a lookup fails when its name is filed as something else. The
  invariant `NothingInTheWay` says that every symbol is a function of the HUGR
  under its mangled name or one that a handler asks for, as it asks for it; the
  lemma `MangledApart` says that the index at the end of a name tells FuncDefns
  apart, so no two of them meet, and a FuncDefn that is not yet emitted has no
  body.
- `OutputIsDetermined`: the worklist is a hash set, so bodies come in any order,
  and what is looked up first may come from anywhere. The invariant `Exact` says
  that the symbols are exactly those of the emitted FuncDefns and of what has
  been mentioned so far, whoever mentioned it first; when all is emitted that
  does not depend on the order any more.

`FuncEmitterProofs`, for all functions, of any size and nesting, visited in any
topological order, from `HugrAssumption` (functions are valid HUGRs: parents
come before their children, a region has one Input and one Output, a Conditional
one Case per variant, a CFG starts with its entry block and the exit block, and
a block's successors are blocks of its CFG; and, `RowsFit`, the rows on the two
sides of a region are as long as each other, those of a variant with what comes
after its fields included):

- `Invariant`: that the builder stands in an open block is not inductive, for
  it goes back to a block that was left long before, when a case, a block of a
  CFG or a whole nest of them returns. The invariant `IInv` keeps a ledger of the open
  blocks: each is the prologue, the one the builder stands in, or owed by exactly
  one activation on the stack. A conditional owes its exit block and the
  block it switches in (a guarded operation opens and settles its three blocks in
  one step), a CFG its exit block and the blocks of the children it
  has yet to enter. `Placed` says where the builder stands and that a CFG is
  never gone back to in order to go on: the block it was called in was closed by
  the branch to the entry block. A step changes the innermost activation only,
  so the lemmas `ReplaceSound`, `PushSound` and `PopSound` reduce an action to
  the blocks that this activation leaves open.
- `TypeCorrect`, `BuilderAtTheEnd`, `NoBlockIsLeftOpen`: from the ledger. The
  doc of `EmitFuncContext::builder` says that callers must leave it "positioned
  at the end of a basic block", and that this is not checked; they do.
- `DefinitionsHandedOn`: from the second half of `IInv`, that every node has been
  visited, is to come, or has an ancestor that is; when the stack is empty
  nothing is to come, and since parents precede their children all have been
  visited (`AllVisited`).

Dominance:

- `CertificateKept`: that a value is computed on every path to its use is not
  something a step can keep, for it adds edges, and so paths, between blocks that
  other activations have filled or will fill. `DInv` says that there is a
  certificate: a set `dom[b]` of blocks for each block `b`, chosen when `b` is
  made and never changed, with `dom[t]` within `dom[b]` and `t` for each edge from
  `b` to `t`. An instruction of `b` only uses mailboxes in the prologue and what is
  computed earlier in `b` or in the other blocks of `dom[b]` (`CodeSound`). Each
  activation has such a set too, its base (`FrameSound`): the values it holds are
  computed in the base, the blocks it has made for its cases, its children or its exit have
  the base and themselves, bases grow along the stack, and the innermost one's is
  within that of the builder's block. So every branch that will ever be added
  keeps the certificate: a case to the exit block, a block of a CFG back to any
  other, a switch to the variants of a sum. `RowsFit` is needed because a switch
  hands the fields of a variant and the values after them to the mailboxes of
  its target one by one.
- `PassesTheVerifier`: by induction on the rounds of `Avoiding`, no block that can
  be reached around `d` has `d` in its set (`AvoidingMisses`).

`LlvmRunProofs`, for all functions and arguments, from two more assumptions.
`ScopeAssumption`: an operation uses wires of its siblings, or wires in scope,
which are those of the siblings that an enclosing operation comes after and
those of blocks that dominate the one it is in. `TypesAssumption`: HUGRs are
well typed, a type being the set of values that a wire may carry, and the
arguments are of the types of the parameters.

- `EmissionRuns`: what is loaded was stored by another operation, often in
  another block, and no edge of the code so far shows that control always comes
  by there. `RInv` says that there is a certificate, the record `entry[b]` for
  each block `b`, chosen when `b` is made: the mailboxes that have been written
  (`has`) and the variants that sums are in (`when`) whichever way `b` is
  entered, now or later. Every branch meets the record of its target, every load
  is of a mailbox in the record of its block or written further up, and a store
  is of a value of the mailbox's type (`CodeRuns`). Each
  activation has a base, what was written when it was called, and knows that in
  addition the outputs of the children it has visited are written (`Known`);
  whoever it calls hands on at least that when it returns (`LinkRuns`). A block of
  a CFG may be entered from blocks that are emitted later, so what it may
  count on is fixed when it is made: its own inputs and what its dominators
  compute (`Within`). A block that dominates a successor of another dominates that
  one too, or is it (`DominatesFurther`), so every block keeps what its successors
  count on. What a branch may depend on is a sum that a mailbox holds, or, in a
  guarded operation, the outcome of the test just computed (`Selects`).
- `RunSound`: while the function is executed, with the certificate of
  `CertificateKept` and that of `EmissionRuns` (`Executing`): what is computed on
  every path to the next instruction is there, each value is of every type that
  the code says it has, the mailboxes on record are written, and the sums are in
  the variants known. A block that is entered again computes its values again;
  that does not disturb what is known of a sum, for no block takes apart a sum
  that it loads itself (`fact[1][1] # b`).
- `UndefinedIsUnused`: from `RunSound`.

`ArrayOpsProofs`, for every element type and arrays of at most half of `LenMod`
(2^31) elements (`Fits`), from `ArrayAssumption`:

- `ArrayTypesCorrect`, `MemorySafe`: from the invariant `Inv`, which says what
  is known on entry to a block: a success block has an index in bounds, the exit
  block has the right result in the mailbox. That is what the comments in
  `array.rs` about `success_block` claim.
- `ComputesSafely`: `ArrayOps` implements the safety part of `ArrayContract`.
  Blocks inside an operation are stutters; the last one is the return, with the
  result the mailbox is known to hold.

`Fits` is needed: the bounds checks compare with the 64-bit size while the LLVM
array has `size as u32` elements (`extension/prelude.rs:78`), and the pops use a
signed 32-bit offset.

`CodegenTypingProofs`, from `ExtensionsAssumption` (an extension is a sequence of
calls):

- `ExtsTypeCorrect`: the lemmas `ExtsInitType` and `ExtsTypeStep`, which
  the steps of `CodegenTyping` use as well.
- `LookupsResolve`: for every set of extensions and any number of them, a table
  answers for the keys that some call named, with the handler of the latest. The
  invariant is the property itself, over the history `calls`.

And, also from `ConstFnsAssumption` and `OpFnsAssumption` (the callbacks of
constants are those of the repository, and each callback of operations is given
operations that it knows; which extension registers them, under which key and
how often is open), `TypesAssumption` (types are finite trees),
`RequestsAssumption` (operations have inputs and outputs of the types that their
signatures say) and, for the last of them, `NamesAssumption` (types, constants
and operations have the names the repository's extensions know, and a constant
has the type its `CustomConst` says):

- `Mapped`: `LlvmType` recurses over types, and nothing is known of a recursive
  function before it is shown to be defined. `Depth` bounds the recursion, so
  the functions that satisfy the equation up to some depth are shown to exist
  and to agree, one depth after the other.
- `TypeCorrect`, `ConstantsTyped`: a constant that is loaded has the type its
  users were promised. `TypingInv` says that the tables only hold such
  callbacks, and that nothing is registered any more once something has been
  lowered. The proviso `ErrorIsCodeAndMessage` is needed: `emit_const_error`
  writes a pointer to the second field of whatever struct a PreludeCodegen says
  errors are.
- `OperationsTyped`: handler by handler, what is stored is compared with the
  promise (`Checked`), or is the LLVM type of the HUGR type in the signature by
  the equation of `LlvmType`. `Coherent` is what the handlers that do neither
  take for granted.
- `EquippedRequestsLower`: an extension is there for a key (`Available`) if its
  whole chain of calls is in the history and no later call names the key.
  - By `LastRegistrationWins` the table then answers with the handler the
    extension files (`AvailableAnswers`). For a prelude this says more: if
    errors and what handles them, `ConstError` or `panic`, are both available,
    they are from the same prelude (`SamePrelude`), since of two chains of calls
    the later one names both. So a handler finds the error type that it captured
    (`ErrorsAgree`), which is why `Equipped` need not ask for it.
  - A type whose parts are available is mapped unless a part is one `int.rs` has
    no LLVM type for (`AllMapped`, by the least `Depth` of a type that is not).
  - Then handler by handler (`TupleLowers` to `PanicLowers`, `ConstLowers`): none
    of its checks fails and none of its unwraps is reached, except where
    `Refused` or `TooFewInputs` say so.

`SumLayoutProofs`, for all sum types and values, from `SumAssumption`:

- `SumTypesCorrect`, `ValuesAreSums`: from an invariant that says, at each
  instruction, which fields of the row have been set, and that the struct is
  poison but for its tag until the row is inserted.
- `BehavesSafely`: `SumLayout` implements the safety part of `SumContract`.

`InlineConstFnsProofs`, for all functions, from `BodyAssumption` (functions are
HUGRs: parents and static sources are in the same function, constants have no
children, and the two ends of a static edge are of one type):

- `InlineInv`: the HUGR is a module (`Placed`, node by node), what was collected
  is `Current`, and `NoneMissed`: while a pass has inserted nothing, every
  constant that is a function has been collected. Removing a node keeps the
  parents of the others in place only because constants have no children. Since a
  new node may take the index of a removed one, `FreeIndices` says that it takes
  none that a node has, each a different one.
- `UsesStayCurrent`: a pass remembers nodes by index while it removes and adds
  others. Two constants have no use in common, none is a use of another, and new
  nodes use only new nodes (`RewrittenCurrent`, `MergedCurrent`). An index that is
  remembered is not free for a new node to take until its own turn has come.
- `InlineTypesCorrect`, `NoneLeft`: from the same invariant. `NoneLeft` is about
  constants whose own value is a function; functions inside sums are passed over,
  which `inline_sums` shows.
- `LoadsHaveFunctions`, for loads of anything but a sum: the FuncDefn of a load is never removed, and the load is
  never left with the constant it came from. `AllServed` adds to the invariant
  that every load is served by a node of the module, and that no root of what
  was inserted is a constant.
- `NothingElseChanges`: an action property; a load keeps its function because
  the edge it was linked by joins like to like.

`ArithmeticProofs`, for all widths of integers and precisions of floats, from
`WidthAssumption` and `PrecisionAssumption`: as in the code, two integer types at
least share the narrowest LLVM type, and floats hold every integer of the second
widest type and not all of the widest, by more than a bit (53 < 64 - 1). With
one bit less the halfway cases of a round trip would reach the bound. The
library knows nothing about powers of two, so the lemmas `Powers` to
`PowersCompare` come first: `2^n` is the number of subsets of a set of `n`, and
the rest follows from least elements. `RoundToNearest` to `RoundNear` say what
rounding does to small numbers, to powers of two and to those between.

- `WireAlwaysOK`, `ArithmeticTypesCorrect`: the inductive invariant `WireOK`, kind
  by kind of wire: the bits fit the LLVM type, and are the number meant if the
  integer fills its LLVM type; what `trunc` has selected, and from which floats.
- `TruncRight`: success means the integer part, in range; failure means that the
  float was not in `[min, max)`. Nothing is said of floats from `max` up, and some
  of those are refused: `max` itself, where it is a float, is (`trunc_bound`).
- `OperationsCompute`: an integer narrower than its LLVM type is never masked, so
  an overflow of an `int<2>` stays in the upper bits of the `i8`, and constants
  are not sign-extended. What remains true is a congruence: sums, differences,
  products and negations do not need the bits beyond the width to get the lower
  ones right (`Congruent`, `RingWraps`), divisions, comparisons and conversions
  do (`ReadsRight`). `astray` is a history variable, set when an operation
  of the second kind is given bits that are not the number. Until then the lower bits, and
  every boolean and float computed from them, are right; integers that fill their
  type are right throughout.
- `NoPoison`: `build_trunc_op` converts first and checks later. That the check
  excludes every float whose conversion was poison is the lemma `Within`: the
  upper bound is not a float, and rounds to at most the next integer, which is
  excluded because the comparison is strict.
- `RoundTripsClose`: exact up to `2^Precision`; beyond, off by at most half the
  spacing of the floats there, or refused because rounding reached the bound.
- `HalfturnsChecked`: `radd` adds half turns with no check, so finite rotations
  may add up to an infinite one. `from_halfturns` and `from_halfturns_unchecked`
  let a float through exactly if it is finite, so a rotation that is not finite
  is a sum, and does not survive `to_halfturns` and back.

**Only model-checked**: liveness (`CallsReturn`, `CallReturns`, `Terminates`, and
the fairness of `ComputesTheOperation` and of `BehavesAsASum`), which this prover
cannot do; and everything in modules with recursive operators (`HugrEval`, and so
`Lowering`: `ComputesTheHugr`).

## Where code and text disagree

- `emit_extern_clash`: the doc of `get_extern_func` promises the same function
  for the same arguments. When a global has the name, every call adds another,
  renamed function.
- `inline_links`: the error in `emit/ops.rs:124-126` sends its reader to
  `inline_constant_functions`. The LoadFunctions the pass leaves have no static
  source, which `emit_load_function` unwraps.
- `inline_sums`: the same error is raised for a function inside a sum or tuple
  constant, into which `emit_value` recurses, and the pass does not.
- `trunc_bound`: a test says that round trips are exact up to 2^53. The comparison
  with the largest integer of the type is strict, so that one does not come back,
  for all widths but 64, where it is not a float.
- `narrow_consts`: the constants of 1, 2 and 4 bits are not sign-extended to the
  8 bits they are stored in, so signed instructions read negative ones as
  positive.

## Not modelled

- A PreludeCodegen that overrides the `emit_` methods: only the types it chooses
  are varied. Keys are names; that an extension's name is part of a key is left
  out, for no two of the operations and types modelled share a name.
- The constructors and conversions of `FatNode` (`utils/fat.rs`), which change a
  pointer's static type, and the builders of `utils/*_builder.rs`, which make
  HUGRs for tests.
- `from_halfturns_unchecked` opens blocks of its own too, one of which ends in
  `unreachable` after a panic (`rotation.rs:161-181`). `Arithmetic` has what it
  computes; `FuncEmitter` does not have its blocks, for it has no instruction that
  ends the program.
- What signed division means for negative numbers, which the repository does not
  say: the instruction is modelled, and a signed division that involves one sets
  `astray`.
- `print`, `panic` and their library calls beyond the symbols they look up, and
  `emit_panic`'s continuation beyond the halt of `from_halfturns_unchecked`: I/O.
- Stack depth: every array access allocates where it stands, so a loop grows the
  stack; memory is unbounded in the models.
- Mailbox and block names, debug formatting, the test harness.

## Plan

Done, in this order: module emission and its proofs; the emission of bodies and
its execution; arrays and their proofs; constant functions; arithmetic; the
registry and the types of what its callbacks emit, with proofs; sums, with
proofs; proofs for constant functions, that emission does not fail and does not
depend on the order, for the emission of bodies, for arithmetic,
for the types of what the callbacks emit, and for the run of emitted bodies.

Next:

1. The prelude's handlers with more than one symbol (`panic`, `print`), composed
   with `EmitModule`.
