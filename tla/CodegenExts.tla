------------------------------ MODULE CodegenExts ------------------------------
(***************************************************************************)
(* The registry of codegen callbacks (src/custom.rs, src/custom/): a       *)
(* CodegenExtsBuilder is handed one codegen extension after another, each  *)
(* of which makes a chain of calls that file handlers under keys, and is   *)
(* finished into three tables the emission looks handlers up in.           *)
(***************************************************************************)
EXTENDS Naturals, Sequences

CONSTANTS
    Key,          \* the names of types and operations, the types of constants
    Handler,      \* the callbacks
    Extensions,   \* the codegen extensions: each the chain of its calls
    MaxAdded      \* how many are added at most

Tables == {"types", "consts", "ops"}

(* A call is a custom_type, custom_const or extension_op, with a single    *)
(* key, or a simple_extension_op, with all of Op::iter().                  *)
Call == [table : Tables, keys : SUBSET Key, handler : Handler]

ASSUME ExtensionsAssumption == Extensions \subseteq Seq(Call)

VARIABLES
    load_constant_handlers,   \* LoadConstantsMap: by the type of the constant
    extension_op_handlers,    \* ExtensionOpMap: by extension and name
    custom_hooks,             \* TypeMap of the TypeConverter: by extension and name
    chain,                    \* the calls the extension being added has left
    finished,                 \* whether the builder has become a CodegenExtsMap
    added,                    \* how many extensions have been added
    calls                     \* history: the calls made so far

registry == <<load_constant_handlers, extension_op_handlers, custom_hooks>>
extsVars == <<registry, chain, finished, added, calls>>

NoHandlers == [k \in {} |-> k]

-----------------------------------------------------------------------------
\* Faulty: keeps the handler a key already has.
InsertOnce(map, keys, handler) ==
    [k \in DOMAIN map \cup keys |-> IF k \in DOMAIN map THEN map[k] ELSE handler]

\* HashMap::insert, for each of the keys.
Insert(map, keys, handler) ==
    [k \in DOMAIN map \cup keys |-> IF k \in keys THEN handler ELSE map[k]]

AddExtension(ext) ==
    /\ ~finished /\ chain = <<>> /\ added < MaxAdded
    /\ chain' = ext
    /\ added' = added + 1
    /\ UNCHANGED <<registry, finished, calls>>

\* The next call of the chain files a handler in the given table.
Registers(table) == chain # <<>> /\ Head(chain).table = table

NextCall == /\ chain' = Tail(chain)
            /\ calls' = Append(calls, Head(chain))
            /\ UNCHANGED <<finished, added>>

CustomType ==
    /\ Registers("types")
    /\ custom_hooks' = Insert(custom_hooks, Head(chain).keys, Head(chain).handler)
    /\ NextCall
    /\ UNCHANGED <<load_constant_handlers, extension_op_handlers>>

CustomConst ==
    /\ Registers("consts")
    /\ load_constant_handlers' =
         Insert(load_constant_handlers, Head(chain).keys, Head(chain).handler)
    /\ NextCall
    /\ UNCHANGED <<extension_op_handlers, custom_hooks>>

\* extension_op and, with one handler shared by all its keys,
\* simple_extension_op.
ExtensionOp ==
    /\ Registers("ops")
    /\ extension_op_handlers' =
         Insert(extension_op_handlers, Head(chain).keys, Head(chain).handler)
    /\ NextCall
    /\ UNCHANGED <<load_constant_handlers, custom_hooks>>

\* Faulty: does not wait for the calls of the last extension.
FinishEarly ==
    /\ ~finished
    /\ finished' = TRUE
    /\ UNCHANGED <<registry, chain, added, calls>>

Finish ==
    /\ ~finished /\ chain = <<>>
    /\ finished' = TRUE
    /\ UNCHANGED <<registry, chain, added, calls>>

ExtsInit ==
    /\ load_constant_handlers = NoHandlers
    /\ extension_op_handlers = NoHandlers
    /\ custom_hooks = NoHandlers
    /\ chain = <<>>
    /\ finished = FALSE
    /\ added = 0
    /\ calls = <<>>

Build == \/ \E ext \in Extensions : AddExtension(ext)
         \/ CustomType \/ CustomConst \/ ExtensionOp \/ Finish

ExtsSpec == ExtsInit /\ [][Build]_extsVars

-----------------------------------------------------------------------------
\* Those of the calls cs that filed a handler for key k in a table.
Filed(cs, table, k) == {i \in DOMAIN cs : cs[i].table = table /\ k \in cs[i].keys}

\* A table answers exactly for the keys some call named, with the handler of
\* the latest such call.
Resolves(cs, map, table) ==
    /\ DOMAIN map = {k \in Key : Filed(cs, table, k) # {}}
    /\ \A k \in DOMAIN map : \E i \in Filed(cs, table, k) :
         (\A j \in Filed(cs, table, k) : j <= i) /\ map[k] = cs[i].handler

\* The type invariant.
ExtsTypeOK ==
    /\ \A map \in {load_constant_handlers, extension_op_handlers, custom_hooks} :
         DOMAIN map \subseteq Key /\ map \in [DOMAIN map -> Handler]
    /\ chain \in Seq(Call) /\ calls \in Seq(Call)
    /\ finished \in BOOLEAN /\ added \in Nat
    /\ finished => chain = <<>>

\* "Registering any callback silently replaces any other callback registered
\* for that same key", and no other: whatever extensions have been added, in
\* whatever order, however their keys overlap.
LastRegistrationWins ==
    /\ Resolves(calls, custom_hooks, "types")
    /\ Resolves(calls, load_constant_handlers, "consts")
    /\ Resolves(calls, extension_op_handlers, "ops")
=============================================================================
