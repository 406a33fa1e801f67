------------------------------- MODULE SumLayout -------------------------------
(***************************************************************************)
(* The instructions LLVMSumType and LLVMSumValue (src/sum.rs) emit, one by *)
(* one, on LLVM structs: a sum type of two variants or more is a struct of *)
(* an i32 tag and a struct for each variant, any other is one without the  *)
(* tag.  Structs are sequences; LLVM and the code count their fields from  *)
(* 0.                                                                      *)
(***************************************************************************)
EXTENDS Naturals, Sequences

CONSTANTS SumTypes,   \* sum types: how many fields each of the variants has
          Value,      \* what a field may hold
          Poison,     \* one of them: LLVM's poison value
          Undef,      \* LLVM's undef, which is not
          Rows,       \* the rows of fields that values are made of
          MaxTag      \* build_tag and build_untag are asked for tags up to this

ASSUME SumAssumption ==
    /\ SumTypes \subseteq Seq(Nat)
    /\ Rows \subseteq Seq(Value)
    /\ Poison \in Value
    /\ Undef \notin Value
    /\ MaxTag \in Nat

VARIABLES variants,   \* the HugrSumType
          wire,       \* the struct value in hand, or NoValue
          pending,    \* the operation being executed, or NoOp
          step,       \* the instruction it is at
          var_i,      \* the variant a value is being read as
          row_v,      \* the struct of one variant
          sum_v,      \* the struct being built
          done,       \* the fields inserted or read so far
          outcome     \* what the last operation gave, or NoOutcome

vars == <<variants, wire, pending, step, var_i, row_v, sum_v, done, outcome>>

NoValue == <<>>

-----------------------------------------------------------------------------
(* The layout. *)

Tags == 0 .. Len(variants) - 1
NumFields(tag) == variants[tag + 1]

\* sum_type_has_tag_field
HasTagField == Len(variants) >= 2

\* get_variant_field_index
FieldIndex(tag) == tag + (IF HasTagField THEN 1 ELSE 0)

\* A struct of the type try_new2 makes: the tag, if there is a field for it,
\* and the row of each variant.
StructOf(tag, rows) ==
    IF HasTagField
      THEN [k \in 1 .. Len(variants) + 1 |-> IF k = 1 THEN tag ELSE rows[k - 2]]
      ELSE [k \in 1 .. Len(variants) |-> rows[k - 1]]

RowOf(value, n) == [i \in 1 .. n |-> value]
PoisonRows == [tag \in Tags |-> RowOf(Poison, NumFields(tag))]

\* get_poison: every part of the struct is poison.
PoisonSum == StructOf(Poison, PoisonRows)

InsertValue(agg, val, index) == [agg EXCEPT ![index + 1] = val]
ExtractValue(agg, index) == agg[index + 1]

\* build_get_tag: a constant where there is no field.
GetTag == IF HasTagField THEN ExtractValue(wire, 0) ELSE 0

Contract == INSTANCE SumContract WITH
    sum <- IF wire = NoValue THEN [none |-> "sum"]
           ELSE [tag |-> GetTag, fields |-> ExtractValue(wire, FieldIndex(GetTag))]

NoOp      == Contract!NoOp
NoOutcome == Contract!NoOutcome

-----------------------------------------------------------------------------
Call(p) == /\ pending = NoOp
           /\ Contract!Legal(p)
           /\ pending' = p
           /\ step' = p.op
           /\ outcome' = NoOutcome
           /\ UNCHANGED <<variants, wire, var_i, row_v, sum_v, done>>

Finish(result) == /\ outcome' = result
                  /\ pending' = NoOp
                  /\ step' = "done"
                  /\ UNCHANGED <<variants, var_i, row_v, sum_v, done>>

-----------------------------------------------------------------------------
(* LLVMSumType::build_tag *)

\* Faulty: leaves the number of fields to a debug_assert.
AcceptsAnyLength(tag, vs) == tag \in Tags

\* The variant exists and is given as many fields as it has.
Accepts(tag, vs) == tag \in Tags /\ Len(vs) = NumFields(tag)

TagRefused ==
    /\ step = "tag" /\ ~Accepts(pending.tag, pending.vs)
    /\ Finish(Contract!Err)
    /\ UNCHANGED wire

\* row_t.get_undef()
UndefRow ==
    /\ step = "tag" /\ Accepts(pending.tag, pending.vs)
    /\ row_v' = RowOf(Undef, NumFields(pending.tag))
    /\ done' = <<>>
    /\ step' = "fields"
    /\ UNCHANGED <<variants, wire, pending, var_i, sum_v, outcome>>

InsertField ==
    /\ step = "fields" /\ Len(done) < Len(pending.vs)
    /\ LET val == pending.vs[Len(done) + 1]
       IN /\ row_v' = InsertValue(row_v, val, Len(done))
          /\ done' = Append(done, val)
    /\ UNCHANGED <<variants, wire, pending, step, var_i, sum_v, outcome>>

\* Faulty: takes the row as soon as there is one.
InsertTagEarly ==
    /\ step = "fields"
    /\ sum_v' = IF HasTagField THEN InsertValue(PoisonSum, pending.tag, 0) ELSE PoisonSum
    /\ step' = "row"
    /\ UNCHANGED <<variants, wire, pending, var_i, row_v, done, outcome>>

\* get_poison(), and the tag if there is a field for it.
InsertTag ==
    /\ step = "fields" /\ Len(done) = Len(pending.vs)
    /\ sum_v' = IF HasTagField THEN InsertValue(PoisonSum, pending.tag, 0) ELSE PoisonSum
    /\ step' = "row"
    /\ UNCHANGED <<variants, wire, pending, var_i, row_v, done, outcome>>

InsertRow ==
    /\ step = "row"
    /\ wire' = InsertValue(sum_v, row_v, FieldIndex(pending.tag))
    /\ Finish(Contract!Sum(pending.tag, row_v))

-----------------------------------------------------------------------------
(* LLVMSumValue: build_get_tag, build_untag, build_destructure *)

BuildGetTag ==
    /\ step = "get_tag"
    /\ Finish(Contract!Tag(GetTag))
    /\ UNCHANGED wire

\* Faulty: has no case for the last variant.
SwitchTargetShort(tag) == IF tag \in 1 .. Len(variants) - 2 THEN tag ELSE 0

\* The switch: cases[1..], or else the block of cases[0].
SwitchTarget(tag) == IF tag \in 1 .. Len(variants) - 1 THEN tag ELSE 0

\* The block the value is read in: that of the switch, or where build_untag is.
ExtractRow ==
    /\ step \in {"untag", "destructure"}
    /\ var_i' = IF step = "untag" THEN pending.tag ELSE SwitchTarget(GetTag)
    /\ row_v' = ExtractValue(wire, FieldIndex(var_i'))
    /\ done' = <<>>
    /\ step' = "read"
    /\ UNCHANGED <<variants, wire, pending, sum_v, outcome>>

ExtractField ==
    /\ step = "read" /\ Len(done) < Len(row_v)
    /\ done' = Append(done, ExtractValue(row_v, Len(done)))
    /\ UNCHANGED <<variants, wire, pending, step, var_i, row_v, sum_v, outcome>>

\* The handler, or the caller of build_untag, is given the fields.
HandOver ==
    /\ step = "read" /\ Len(done) = Len(row_v)
    /\ Finish(Contract!Fields(var_i, done))
    /\ UNCHANGED wire

-----------------------------------------------------------------------------
Init == /\ variants \in SumTypes
        /\ wire = NoValue /\ pending = NoOp /\ step = "start" /\ var_i = 0
        /\ row_v = <<>> /\ sum_v = <<>> /\ done = <<>>
        /\ outcome = NoOutcome

Run == \/ TagRefused \/ UndefRow \/ InsertField \/ InsertTag \/ InsertRow
       \/ BuildGetTag \/ ExtractRow \/ ExtractField \/ HandOver

Next == Run \/ \E p \in Contract!Ops : Call(p)

\* The code of an operation has no loops: what is begun is run to its end.
Spec == Init /\ [][Next]_vars /\ WF_vars(Run)

-----------------------------------------------------------------------------
(* Properties. *)

\* The struct of a value of variant tag with fields f.
ValueOf(tag, f) == StructOf(tag, [PoisonRows EXCEPT ![tag] = f])

\* The type invariant.
TypeOK ==
    /\ variants \in SumTypes
    /\ pending \in {NoOp} \cup Contract!Ops
    /\ step \in {"start", "done", "tag", "fields", "row", "untag", "get_tag", "destructure",
                 "read"}
    /\ pending = NoOp <=> step \in {"start", "done"}
    /\ done \in Seq(Value)
    /\ step \in {"fields", "read"} => Len(done) <= Len(row_v)

\* "Using the public methods of this type one can emit tags, untags and
\* get_tags while not exposing the underlying LLVM representation": every value
\* is a tag and the fields of that variant, all of them, with nothing undefined
\* and nothing but poison in the other variants.
WireIsASum ==
    wire # NoValue =>
      \E tag \in Tags : \E f \in [1 .. NumFields(tag) -> Value] : wire = ValueOf(tag, f)

\* Sums behave as sums, for types with and without a tag field: what was tagged
\* is given back by get_tag, untag and the switch, an untag of another variant is
\* poison, and a refused build_tag leaves no value behind.
BehavesAsASum == Contract!Spec
=============================================================================
