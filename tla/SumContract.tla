------------------------------ MODULE SumContract ------------------------------
(***************************************************************************)
(* What the emitter sees of LLVMSumType and LLVMSumValue: a value of a sum *)
(* type is made of a tag and fields, and gives them back.  Nothing is said *)
(* of how the value is laid out as an LLVM struct; SumLayout is about that *)
(* and implements this specification.                                      *)
(***************************************************************************)
EXTENDS Naturals, Sequences

CONSTANTS SumTypes,   \* sum types: how many fields each of the variants has
          Value,      \* what a field may hold
          Poison,     \* one of them: LLVM's poison value
          Rows,       \* the rows of fields that values are made of
          MaxTag      \* build_tag and build_untag are asked for tags up to this

VARIABLES variants,   \* the sum type in hand
          sum,        \* the value in hand, or NoSum
          pending,    \* the operation being executed, or NoOp
          outcome     \* what the last operation gave, or NoOutcome

svars == <<variants, sum, pending, outcome>>

NoSum     == [none |-> "sum"]
NoOp      == [op |-> "none"]
NoOutcome == [none |-> "outcome"]

Sum(tag, fields) == [tag |-> tag, fields |-> fields]

\* Variants are counted from 0.
Tags == 0 .. Len(variants) - 1
NumFields(tag) == variants[tag + 1]

\* build_tag, build_untag, build_get_tag and build_destructure.
Ops == [op : {"tag"}, tag : 0 .. MaxTag, vs : Rows]
         \cup [op : {"untag"}, tag : 0 .. MaxTag]
         \cup [op : {"get_tag", "destructure"}]

\* A value may be read if there is one; build_untag asserts that the variant
\* it is to be read as exists.
Legal(p) == /\ p.op # "tag" => sum # NoSum
            /\ p.op = "untag" => p.tag \in Tags

Err == [is |-> "err"]
Tag(tag) == [is |-> "tag", tag |-> tag]
Fields(tag, vs) == [is |-> "fields", tag |-> tag, vs |-> vs]

\* What an operation gives, by the documentation: reading a value as a variant
\* that it is not gives poison; a destructured value goes on in the block of
\* its own variant, with its fields.
Result(p) ==
    CASE p.op = "tag" -> IF p.tag \in Tags /\ Len(p.vs) = NumFields(p.tag)
                           THEN Sum(p.tag, p.vs) ELSE Err
      [] p.op = "untag" -> Fields(p.tag, IF p.tag = sum.tag THEN sum.fields
                                         ELSE [i \in 1 .. NumFields(p.tag) |-> Poison])
      [] p.op = "get_tag" -> Tag(sum.tag)
      [] p.op = "destructure" -> Fields(sum.tag, sum.fields)

Init == /\ variants \in SumTypes
        /\ sum = NoSum /\ pending = NoOp /\ outcome = NoOutcome

Call(p) == /\ pending = NoOp
           /\ Legal(p)
           /\ pending' = p
           /\ outcome' = NoOutcome
           /\ UNCHANGED <<variants, sum>>

Return == /\ pending # NoOp
          /\ outcome' = Result(pending)
          /\ sum' = (IF pending.op = "tag" /\ outcome' # Err THEN outcome' ELSE sum)
          /\ pending' = NoOp
          /\ UNCHANGED variants

Next == Return \/ \E p \in Ops : Call(p)

Safe == Init /\ [][Next]_svars

\* An operation that is begun ends.
Spec == Safe /\ WF_svars(Return)
=============================================================================
