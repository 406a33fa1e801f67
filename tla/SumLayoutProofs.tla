---------------------------- MODULE SumLayoutProofs ----------------------------
(***************************************************************************)
(* Proofs about SumLayout, for every sum type and all values.              *)
(***************************************************************************)
EXTENDS SumLayout, TLAPS

-----------------------------------------------------------------------------
(* The layout. *)

\* The rows of a sum type.
AllRows == [Tags -> Seq(Value)]

\* The poison struct has a row of poison for each variant.
LEMMA PoisonRowsType ==
  ASSUME variants \in Seq(Nat)
  PROVE  /\ PoisonRows \in AllRows
         /\ \A t \in Tags : /\ NumFields(t) \in Nat
                            /\ PoisonRows[t] = RowOf(Poison, NumFields(t))
<1>1. ASSUME NEW t \in Tags PROVE NumFields(t) \in Nat
  BY DEF Tags, NumFields
<1>2. ASSUME NEW n \in Nat PROVE RowOf(Poison, n) \in Seq(Value)
  BY SumAssumption DEF RowOf
<1> QED BY <1>1, <1>2 DEF PoisonRows, AllRows

\* A function with one value replaced.
LEMMA ExceptIs ==
  ASSUME NEW f, NEW i, NEW v
  PROVE  [f EXCEPT ![i] = v] = [k \in DOMAIN f |-> IF k = i THEN v ELSE f[k]]
OBVIOUS

\* Inserting the row of a variant into a struct replaces that row alone.
LEMMA InsertRowInto ==
  ASSUME variants \in Seq(Nat), NEW tag, NEW t \in Tags, NEW r,
         NEW rows \in AllRows
  PROVE  InsertValue(StructOf(tag, rows), r, FieldIndex(t))
           = StructOf(tag, [rows EXCEPT ![t] = r])
<1>1. t \in 0 .. Len(variants) - 1 /\ Len(variants) \in Nat
  BY DEF Tags
<1>0. ASSUME NEW u \in Tags
      PROVE  [rows EXCEPT ![t] = r][u] = IF u = t THEN r ELSE rows[u]
  BY DEF AllRows
<1>2. CASE HasTagField
  <2>1. FieldIndex(t) + 1 = t + 2
    BY <1>1, <1>2 DEF FieldIndex
  <2>2. ASSUME NEW k \in 1 .. Len(variants) + 1, k # 1
        PROVE  [rows EXCEPT ![t] = r][k - 2] = IF k = t + 2 THEN r ELSE rows[k - 2]
    <3>1. k - 2 \in Tags /\ (k - 2 = t <=> k = t + 2)
      BY <1>1, <2>2 DEF Tags
    <3> QED BY <1>0, <3>1
  <2>3. StructOf(tag, rows)
          = [k \in 1 .. Len(variants) + 1 |-> IF k = 1 THEN tag ELSE rows[k - 2]]
    BY <1>2 DEF StructOf
  <2>4. StructOf(tag, [rows EXCEPT ![t] = r])
          = [k \in 1 .. Len(variants) + 1 |->
               IF k = 1 THEN tag ELSE [rows EXCEPT ![t] = r][k - 2]]
    BY <1>2 DEF StructOf
  <2>5. ASSUME NEW k \in 1 .. Len(variants) + 1
        PROVE  (IF k = t + 2 THEN r ELSE IF k = 1 THEN tag ELSE rows[k - 2])
                 = (IF k = 1 THEN tag ELSE [rows EXCEPT ![t] = r][k - 2])
    <3>1. t + 2 # 1
      BY <1>1
    <3> QED BY <3>1, <2>2
  <2>6. InsertValue(StructOf(tag, rows), r, FieldIndex(t))
          = [k \in 1 .. Len(variants) + 1 |->
               IF k = t + 2 THEN r ELSE IF k = 1 THEN tag ELSE rows[k - 2]]
    BY <2>1, <2>3, ExceptIs DEF InsertValue
  <2> QED BY <2>4, <2>5, <2>6
<1>3. CASE ~HasTagField
  <2>1. FieldIndex(t) + 1 = t + 1
    BY <1>1, <1>3 DEF FieldIndex
  <2>2. ASSUME NEW k \in 1 .. Len(variants)
        PROVE  [rows EXCEPT ![t] = r][k - 1] = IF k = t + 1 THEN r ELSE rows[k - 1]
    <3>1. k - 1 \in Tags /\ (k - 1 = t <=> k = t + 1)
      BY <1>1 DEF Tags
    <3> QED BY <1>0, <3>1
  <2>3. StructOf(tag, rows) = [k \in 1 .. Len(variants) |-> rows[k - 1]]
    BY <1>3 DEF StructOf
  <2>4. StructOf(tag, [rows EXCEPT ![t] = r])
          = [k \in 1 .. Len(variants) |-> [rows EXCEPT ![t] = r][k - 1]]
    BY <1>3 DEF StructOf
  <2>5. ASSUME NEW k \in 1 .. Len(variants)
        PROVE  (IF k = t + 1 THEN r ELSE rows[k - 1]) = [rows EXCEPT ![t] = r][k - 1]
    BY <2>2
  <2>6. InsertValue(StructOf(tag, rows), r, FieldIndex(t))
          = [k \in 1 .. Len(variants) |-> IF k = t + 1 THEN r ELSE rows[k - 1]]
    BY <2>1, <2>3, ExceptIs DEF InsertValue
  <2> QED BY <2>4, <2>5, <2>6
<1> QED BY <1>2, <1>3

\* Inserting the tag into the struct of a sum that has a field for it.
LEMMA InsertTagInto ==
  ASSUME variants \in Seq(Nat), HasTagField, NEW old, NEW tag, NEW rows
  PROVE  InsertValue(StructOf(old, rows), tag, 0) = StructOf(tag, rows)
<1>1. StructOf(old, rows)
        = [k \in 1 .. Len(variants) + 1 |-> IF k = 1 THEN old ELSE rows[k - 2]]
  BY DEF StructOf
<1>2. InsertValue(StructOf(old, rows), tag, 0)
        = [k \in 1 .. Len(variants) + 1 |->
             IF k = 1 THEN tag ELSE IF k = 1 THEN old ELSE rows[k - 2]]
  <2>1. /\ 0 + 1 = 1
        /\ DOMAIN StructOf(old, rows) = 1 .. Len(variants) + 1
        /\ \A k \in 1 .. Len(variants) + 1 :
             StructOf(old, rows)[k] = IF k = 1 THEN old ELSE rows[k - 2]
    BY <1>1
  <2>2. InsertValue(StructOf(old, rows), tag, 0)
          = [k \in 1 .. Len(variants) + 1 |-> IF k = 1 THEN tag ELSE StructOf(old, rows)[k]]
    BY <2>1, ExceptIs DEF InsertValue
  <2> QED BY <2>1, <2>2
<1>3. StructOf(tag, rows)
        = [k \in 1 .. Len(variants) + 1 |-> IF k = 1 THEN tag ELSE rows[k - 2]]
  BY DEF StructOf
<1>4. \A k \in 1 .. Len(variants) + 1 :
        (IF k = 1 THEN tag ELSE IF k = 1 THEN old ELSE rows[k - 2])
          = (IF k = 1 THEN tag ELSE rows[k - 2])
  OBVIOUS
<1> QED BY <1>2, <1>3, <1>4

\* A struct with a first field is not NoValue.
LEMMA NotNoValue ==
  ASSUME NEW n \in Nat, n > 0, NEW s, DOMAIN s = 1 .. n
  PROVE  s # NoValue
<1>1. DOMAIN NoValue = {}
  BY DEF NoValue
<1>2. 1 \in 1 .. n
  OBVIOUS
<1> QED BY <1>1, <1>2

\* The rows of a struct are where the field index says.
LEMMA RowOfStruct ==
  ASSUME variants \in Seq(Nat), NEW tag, NEW rows, NEW t \in Tags
  PROVE  /\ ExtractValue(StructOf(tag, rows), FieldIndex(t)) = rows[t]
         /\ HasTagField => ExtractValue(StructOf(tag, rows), 0) = tag
         /\ StructOf(tag, rows) # NoValue
<1>1. t \in 0 .. Len(variants) - 1 /\ Len(variants) \in Nat
  BY DEF Tags
<1>2. CASE HasTagField
  <2>1. FieldIndex(t) + 1 = t + 2
    BY <1>1, <1>2 DEF FieldIndex
  <2>2. StructOf(tag, rows)
          = [k \in 1 .. Len(variants) + 1 |-> IF k = 1 THEN tag ELSE rows[k - 2]]
    BY <1>2 DEF StructOf
  <2>3. t + 2 \in 1 .. Len(variants) + 1 /\ t + 2 # 1 /\ (t + 2) - 2 = t
    BY <1>1
  <2>4. ExtractValue(StructOf(tag, rows), FieldIndex(t)) = rows[t]
    BY <2>1, <2>2, <2>3 DEF ExtractValue
  <2>5. ExtractValue(StructOf(tag, rows), 0) = tag
    BY <1>1, <2>2 DEF ExtractValue
  <2>6. DOMAIN StructOf(tag, rows) = 1 .. Len(variants) + 1
    BY <2>2
  <2> QED BY <1>1, <2>4, <2>5, <2>6, NotNoValue
<1>3. CASE ~HasTagField
  <2>1. FieldIndex(t) + 1 = t + 1
    BY <1>1, <1>3 DEF FieldIndex
  <2>2. StructOf(tag, rows) = [k \in 1 .. Len(variants) |-> rows[k - 1]]
    BY <1>3 DEF StructOf
  <2>3. t + 1 \in 1 .. Len(variants) /\ (t + 1) - 1 = t
    BY <1>1
  <2>4. ExtractValue(StructOf(tag, rows), FieldIndex(t)) = rows[t]
    BY <2>1, <2>2, <2>3 DEF ExtractValue
  <2>5. DOMAIN StructOf(tag, rows) = 1 .. Len(variants)
    BY <2>2
  <2> QED BY <1>1, <1>3, <2>4, <2>5, NotNoValue
<1> QED BY <1>2, <1>3

\* What a value w of variant tag with fields f gives back.
LEMMA ReadValue ==
  ASSUME variants \in Seq(Nat), NEW tag \in Tags, NEW f, NEW w, w = ValueOf(tag, f)
  PROVE  /\ w # NoValue
         /\ (IF HasTagField THEN ExtractValue(w, 0) ELSE 0) = tag
         /\ \A t \in Tags : ExtractValue(w, FieldIndex(t))
                              = IF t = tag THEN f ELSE RowOf(Poison, NumFields(t))
<1> DEFINE rows == [PoisonRows EXCEPT ![tag] = f]
<1>1. w = StructOf(tag, rows)
  BY DEF ValueOf
<1>2. ASSUME NEW t \in Tags
      PROVE rows[t] = IF t = tag THEN f ELSE RowOf(Poison, NumFields(t))
  BY DEF PoisonRows
<1> HIDE DEF rows
<1>3. ~HasTagField => tag = 0
  BY DEF HasTagField, Tags
<1> QED BY <1>1, <1>2, <1>3, RowOfStruct

\* The type in hand does not change, and so neither does its layout.
LEMMA SameLayout ==
  ASSUME UNCHANGED variants
  PROVE  /\ Tags' = Tags /\ HasTagField' = HasTagField
         /\ \A t : /\ NumFields(t)' = NumFields(t)
                   /\ FieldIndex(t)' = FieldIndex(t)
                   /\ \A f : ValueOf(t, f)' = ValueOf(t, f)
BY DEF Tags, HasTagField, NumFields, FieldIndex, ValueOf, StructOf, PoisonRows

-----------------------------------------------------------------------------
(* The invariant: besides types, how far an operation has come. *)

\* build_tag has been given the fields it asked for, and inserted some of them.
Building ==
    /\ pending.op = "tag" /\ Accepts(pending.tag, pending.vs)
    /\ row_v \in [1 .. NumFields(pending.tag) -> Value \cup {Undef}]
    /\ Len(done) <= Len(pending.vs)
    /\ \A i \in 1 .. Len(done) : row_v[i] = pending.vs[i]

\* The row is complete, and the sum has its tag.
Built ==
    /\ pending.op = "tag" /\ Accepts(pending.tag, pending.vs)
    /\ row_v = pending.vs
    /\ sum_v = StructOf(pending.tag, PoisonRows)

\* The fields of a variant are being read from the value in hand.
Reading ==
    /\ wire # NoValue
    /\ \/ pending.op = "untag" /\ var_i = pending.tag
       \/ pending.op = "destructure" /\ var_i = GetTag
    /\ var_i \in Tags
    /\ row_v = ExtractValue(wire, FieldIndex(var_i))
    /\ Len(done) <= Len(row_v)
    /\ \A i \in 1 .. Len(done) : done[i] = row_v[i]

Inv ==
    /\ TypeOK /\ WireIsASum
    /\ step \in {"tag", "untag", "get_tag", "destructure"} =>
         pending.op = step /\ (step # "tag" => wire # NoValue)
    /\ step = "untag" => pending.tag \in Tags
    /\ step = "fields" => Building
    /\ step = "row" => Built
    /\ step = "read" => Reading

\* The value in hand, as the contract sees it.
TheSum == IF wire = NoValue THEN [none |-> "sum"]
          ELSE [tag |-> GetTag, fields |-> ExtractValue(wire, FieldIndex(GetTag))]

\* A value in hand has a tag, and a row of values for each variant.
LEMMA ValueInHand ==
  ASSUME Inv, wire # NoValue
  PROVE  /\ variants \in Seq(Nat)
         /\ GetTag \in Tags
         /\ \A t \in Tags : /\ NumFields(t) \in Nat
                            /\ ExtractValue(wire, FieldIndex(t)) \in [1 .. NumFields(t) -> Value]
                            /\ t # GetTag => ExtractValue(wire, FieldIndex(t))
                                               = [i \in 1 .. NumFields(t) |-> Poison]
<1>1. variants \in Seq(Nat)
  BY SumAssumption DEF Inv, TypeOK
<1>2. PICK tag \in Tags : \E f \in [1 .. NumFields(tag) -> Value] : wire = ValueOf(tag, f)
  BY DEF Inv, WireIsASum
<1>6. PICK f \in [1 .. NumFields(tag) -> Value] : wire = ValueOf(tag, f)
  BY <1>2
<1>3. /\ GetTag = tag
      /\ \A t \in Tags : ExtractValue(wire, FieldIndex(t))
                           = IF t = tag THEN f ELSE RowOf(Poison, NumFields(t))
  BY <1>1, <1>6, ReadValue DEF GetTag
<1>4. \A t \in Tags : NumFields(t) \in Nat
  BY <1>1, PoisonRowsType
<1>5. \A n \in Nat : RowOf(Poison, n) \in [1 .. n -> Value]
                     /\ RowOf(Poison, n) = [i \in 1 .. n |-> Poison]
  BY SumAssumption DEF RowOf
<1> QED BY <1>1, <1>3, <1>4, <1>5, <1>6

LEMMA InitInv == Init => Inv /\ Contract!Init
<1> SUFFICES ASSUME Init PROVE Inv /\ Contract!Init
  OBVIOUS
<1>2. <<>> \in Seq(Value)
  OBVIOUS
<1>3. Inv
  BY <1>2 DEF Init, Inv, TypeOK, WireIsASum
<1>4. Contract!Init
  BY DEF Init, Contract!Init, Contract!NoSum, NoOp, NoOutcome
<1> QED BY <1>3, <1>4

-----------------------------------------------------------------------------
(* The steps. *)

\* While the value in hand is only read, it stays what it is.
LEMMA SameValue ==
  ASSUME UNCHANGED <<variants, wire>>
  PROVE  /\ TheSum' = TheSum /\ GetTag' = GetTag /\ Tags' = Tags
         /\ WireIsASum' = WireIsASum
         /\ \A t : NumFields(t)' = NumFields(t) /\ FieldIndex(t)' = FieldIndex(t)
         /\ PoisonRows' = PoisonRows
BY DEF TheSum, WireIsASum, GetTag, Tags, HasTagField, NumFields, FieldIndex, ValueOf,
       StructOf, PoisonRows, RowOf, ExtractValue

\* The operation that is pending while it runs.
LEMMA PendingIs ==
  ASSUME Inv, step \notin {"start", "done"}
  PROVE  /\ pending # NoOp /\ pending \in Contract!Ops
         /\ variants \in Seq(Nat)
BY SumAssumption DEF Inv, TypeOK

LEMMA CallStep ==
  ASSUME Inv, NEW p \in Contract!Ops, Call(p)
  PROVE  Inv' /\ Contract!Call(p)
<1>1. UNCHANGED <<variants, wire>> /\ pending = NoOp /\ pending' = p /\ step' = p.op
      /\ UNCHANGED <<var_i, row_v, sum_v, done>> /\ outcome' = NoOutcome
  BY DEF Call
<1>2. p.op \in {"tag", "untag", "get_tag", "destructure"} /\ p # NoOp
  BY DEF Contract!Ops, NoOp, Contract!NoOp
<1>3. Contract!Legal(p)
  BY DEF Call
<1>4. /\ p.op # "tag" => wire # NoValue
      /\ p.op = "untag" => p.tag \in Tags
  BY <1>3 DEF Contract!Legal, Contract!NoSum, Contract!Tags, Tags
<1>5. Inv'
  BY <1>1, <1>2, <1>4, SameValue DEF Inv, TypeOK
<1>6. Contract!Call(p)
  BY <1>1, <1>3, SameValue DEF Contract!Call, TheSum, NoOp, NoOutcome
<1> QED BY <1>5, <1>6

\* A step inside an operation is not seen by the contract.
LEMMA InnerStep ==
  ASSUME Inv, UndefRow \/ InsertField \/ InsertTag \/ ExtractRow \/ ExtractField
  PROVE  Inv' /\ UNCHANGED <<variants, TheSum, pending, outcome>>
<1>1. UNCHANGED <<variants, wire, pending, outcome>>
  BY DEF UndefRow, InsertField, InsertTag, ExtractRow, ExtractField
<1>2. step \notin {"start", "done"}
  BY DEF UndefRow, InsertField, InsertTag, ExtractRow, ExtractField
<1>3. UNCHANGED <<variants, TheSum, pending, outcome>>
  BY <1>1, SameValue
<1>4. variants \in Seq(Nat) /\ pending \in Contract!Ops /\ pending # NoOp
  BY <1>2, PendingIs
<1>5. variants' \in SumTypes /\ pending' \in Contract!Ops /\ pending' # NoOp
  BY <1>1, <1>4 DEF Inv, TypeOK
<1>6. WireIsASum'
  BY <1>1, SameValue DEF Inv
<1>7. ASSUME pending.op = "tag", Accepts(pending.tag, pending.vs)
      PROVE  /\ pending.vs \in [1 .. NumFields(pending.tag) -> Value]
             /\ pending.vs \in Seq(Value)
             /\ Len(pending.vs) = NumFields(pending.tag)
             /\ NumFields(pending.tag) \in Nat
             /\ pending.tag \in Tags
  <2>1. pending.vs \in Rows
    BY <1>4, <1>7 DEF Contract!Ops
  <2>2. pending.vs \in Seq(Value)
    BY <2>1, SumAssumption
  <2> QED BY <1>4, <1>7, <2>2, PoisonRowsType DEF Accepts
<1>8. CASE UndefRow
  <2>1. pending.op = "tag" /\ Accepts(pending.tag, pending.vs)
    BY <1>8 DEF UndefRow, Inv
  <2>2. /\ row_v' \in [1 .. NumFields(pending.tag) -> Value \cup {Undef}]
        /\ done' = <<>> /\ step' = "fields" /\ Len(row_v') = NumFields(pending.tag)
    BY <1>7, <1>8, <2>1 DEF UndefRow, RowOf
  <2>3. Building'
    BY <1>1, <1>7, <2>1, <2>2, SameValue DEF Building, Accepts
  <2>4. TypeOK'
    BY <1>5, <1>7, <2>1, <2>2 DEF TypeOK
  <2> QED BY <1>3, <1>6, <2>2, <2>3, <2>4 DEF Inv
<1>9. CASE InsertField
  <2>1. step = "fields" /\ Building /\ step' = "fields" /\ done \in Seq(Value)
    BY <1>9 DEF InsertField, Inv, TypeOK
  <2>2. pending.op = "tag" /\ Accepts(pending.tag, pending.vs)
    BY <2>1 DEF Building
  <2> DEFINE i == Len(done) + 1
  <2>3. i \in 1 .. Len(pending.vs) /\ pending.vs[i] \in Value
    BY <1>7, <1>9, <2>1, <2>2 DEF InsertField
  <2>4. done' = Append(done, pending.vs[i]) /\ row_v' = [row_v EXCEPT ![i] = pending.vs[i]]
    BY <1>9 DEF InsertField, InsertValue
  <2>5. /\ done' \in Seq(Value) /\ Len(done') = i
        /\ row_v' \in [1 .. NumFields(pending.tag) -> Value \cup {Undef}]
        /\ \A j \in 1 .. i : row_v'[j] = pending.vs[j]
    <3>1. row_v \in [1 .. NumFields(pending.tag) -> Value \cup {Undef}]
          /\ \A j \in 1 .. Len(done) : row_v[j] = pending.vs[j]
      BY <2>1 DEF Building
    <3>2. i \in 1 .. NumFields(pending.tag)
      BY <1>7, <2>2, <2>3
    <3> HIDE DEF i
    <3>3. row_v' \in [1 .. NumFields(pending.tag) -> Value \cup {Undef}]
      BY <2>3, <2>4, <3>1, <3>2
    <3>4. \A j \in 1 .. i : row_v'[j] = pending.vs[j]
      <4> TAKE j \in 1 .. i
      <4>1. CASE j = i
        BY <2>4, <3>1, <3>2, <4>1
      <4>2. CASE j # i
        <5>1. j \in 1 .. Len(done)
          BY <2>1, <4>2 DEF i
        <5> QED BY <2>4, <3>1, <4>2, <5>1
      <4> QED BY <4>1, <4>2
    <3> QED BY <2>1, <2>3, <2>4, <3>3, <3>4 DEF i
  <2>6. Building'
    BY <1>1, <1>7, <2>2, <2>3, <2>5, SameValue DEF Building, Accepts
  <2>7. Len(row_v') = NumFields(pending.tag)
    BY <1>7, <2>2, <2>5
  <2>8. TypeOK'
    BY <1>5, <1>7, <2>1, <2>2, <2>3, <2>5, <2>7 DEF TypeOK
  <2> QED BY <1>3, <1>6, <2>1, <2>6, <2>8 DEF Inv
<1>10. CASE InsertTag
  <2>1. step = "fields" /\ Building /\ step' = "row" /\ Len(done) = Len(pending.vs)
        /\ done' = done /\ row_v' = row_v
    BY <1>10 DEF InsertTag, Inv
  <2>2. pending.op = "tag" /\ Accepts(pending.tag, pending.vs)
    BY <2>1 DEF Building
  <2>3. row_v = pending.vs
    <3>1. /\ row_v \in [1 .. NumFields(pending.tag) -> Value \cup {Undef}]
          /\ \A j \in 1 .. NumFields(pending.tag) : row_v[j] = pending.vs[j]
      BY <1>7, <2>1, <2>2 DEF Building
    <3> QED BY <1>7, <2>2, <3>1
  <2>4. sum_v' = StructOf(pending.tag, PoisonRows)
    <3>1. CASE HasTagField
      BY <1>4, <1>10, <3>1, InsertTagInto DEF InsertTag, PoisonSum
    <3>2. CASE ~HasTagField
      BY <1>10, <3>2 DEF InsertTag, PoisonSum, StructOf
    <3> QED BY <3>1, <3>2
  <2>7. StructOf(pending.tag, PoisonRows)' = StructOf(pending.tag, PoisonRows)
    BY <1>1 DEF StructOf, PoisonRows, HasTagField, Tags, NumFields, RowOf
  <2>5. Built'
    BY <1>1, <2>1, <2>2, <2>3, <2>4, <2>7, SameValue DEF Built, Accepts
  <2>6. TypeOK'
    BY <1>5, <2>1 DEF TypeOK, Inv
  <2> QED BY <1>3, <1>6, <2>1, <2>5, <2>6 DEF Inv
<1>11. CASE ExtractRow
  <2>1. /\ step \in {"untag", "destructure"} /\ step' = "read" /\ done' = <<>>
        /\ var_i' = (IF step = "untag" THEN pending.tag ELSE SwitchTarget(GetTag))
        /\ row_v' = ExtractValue(wire, FieldIndex(var_i'))
        /\ pending.op = step /\ wire # NoValue
        /\ step = "untag" => pending.tag \in Tags
    BY <1>11 DEF ExtractRow, Inv
  <2>2. GetTag \in Tags
    BY <2>1, ValueInHand
  <2>3. SwitchTarget(GetTag) = GetTag
    BY <1>4, <2>2 DEF SwitchTarget, Tags
  <2>4. var_i' \in Tags
    BY <2>1, <2>2, <2>3
  <2>5. row_v' \in [1 .. NumFields(var_i') -> Value] /\ NumFields(var_i') \in Nat
    BY <2>1, <2>4, ValueInHand
  <2>6. Reading'
    BY <1>1, <2>1, <2>3, <2>4, <2>5, SameValue DEF Reading, ExtractValue
  <2>7. TypeOK'
    BY <1>5, <2>1, <2>5 DEF TypeOK
  <2> QED BY <1>3, <1>6, <2>1, <2>6, <2>7 DEF Inv
<1>12. CASE ExtractField
  <2>1. /\ step = "read" /\ Reading /\ step' = "read" /\ done \in Seq(Value)
        /\ row_v' = row_v /\ var_i' = var_i /\ Len(done) < Len(row_v)
        /\ done' = Append(done, row_v[Len(done) + 1])
    BY <1>12 DEF ExtractField, Inv, TypeOK, ExtractValue
  <2>2. row_v \in [1 .. NumFields(var_i) -> Value] /\ NumFields(var_i) \in Nat
    BY <2>1, ValueInHand DEF Reading
  <2>3. Len(row_v) = NumFields(var_i) /\ Len(done) + 1 \in 1 .. NumFields(var_i)
    BY <2>1, <2>2
  <2>4. row_v[Len(done) + 1] \in Value
    BY <2>2, <2>3
  <2>5. /\ done' \in Seq(Value) /\ Len(done') = Len(done) + 1
        /\ \A j \in 1 .. Len(done') : done'[j] = row_v[j]
    BY <2>1, <2>4 DEF Reading
  <2>6. Reading'
    BY <1>1, <2>1, <2>3, <2>5, SameValue DEF Reading, ExtractValue
  <2>7. TypeOK'
    BY <1>5, <2>1, <2>3, <2>5 DEF TypeOK
  <2> QED BY <1>3, <1>6, <2>1, <2>6, <2>7 DEF Inv
<1> QED BY <1>8, <1>9, <1>10, <1>11, <1>12

\* A step that ends an operation gives what the contract says.
LEMMA FinalStep ==
  ASSUME Inv, TagRefused \/ InsertRow \/ BuildGetTag \/ HandOver
  PROVE  Inv' /\ Contract!Return
<1>1. step \notin {"start", "done"} /\ step' = "done" /\ pending' = NoOp /\ UNCHANGED variants
      /\ done' = done
  BY DEF TagRefused, InsertRow, BuildGetTag, HandOver, Finish
<1>2. variants \in Seq(Nat) /\ pending \in Contract!Ops /\ pending # NoOp
  BY <1>1, PendingIs
<1>3. TypeOK'
  BY <1>1 DEF Inv, TypeOK
<1>4. WireIsASum' => Inv'
  BY <1>1, <1>3 DEF Inv
<1>5. ASSUME UNCHANGED wire, outcome' = Contract!Result(pending),
             pending.op = "tag" => outcome' = Contract!Err
      PROVE  Inv' /\ Contract!Return
  <2>1. WireIsASum' /\ TheSum' = TheSum
    BY <1>1, <1>5, SameValue DEF Inv
  <2>2. Contract!Return
    BY <1>1, <1>2, <1>5, <2>1 DEF Contract!Return, TheSum, NoOp
  <2> QED BY <1>4, <2>1, <2>2
<1>6. \A t : Contract!NumFields(t) = NumFields(t)
  BY DEF Contract!NumFields, NumFields
<1>7. Contract!Tags = Tags
  BY DEF Contract!Tags, Tags
<1>8. ASSUME wire # NoValue
      PROVE  TheSum = [tag |-> GetTag, fields |-> ExtractValue(wire, FieldIndex(GetTag))]
  BY <1>8 DEF TheSum
<1>9. CASE TagRefused
  <2>1. pending.op = "tag" /\ ~Accepts(pending.tag, pending.vs) /\ UNCHANGED wire
        /\ outcome' = Contract!Err
    BY <1>9 DEF TagRefused, Finish, Inv
  <2>2. Contract!Result(pending) = Contract!Err
    BY <1>6, <1>7, <2>1 DEF Contract!Result, Accepts
  <2> QED BY <1>5, <2>1, <2>2
<1>10. CASE BuildGetTag
  <2>1. pending.op = "get_tag" /\ UNCHANGED wire /\ outcome' = Contract!Tag(GetTag)
        /\ wire # NoValue
    BY <1>10 DEF BuildGetTag, Finish, Inv
  <2>2. Contract!Result(pending) = Contract!Tag(GetTag)
    BY <2>1 DEF Contract!Result
  <2> QED BY <1>5, <2>1, <2>2
<1>11. CASE HandOver
  <2>1. /\ Reading /\ UNCHANGED wire /\ outcome' = Contract!Fields(var_i, done)
        /\ Len(done) = Len(row_v) /\ done \in Seq(Value)
    BY <1>11 DEF HandOver, Finish, Inv, TypeOK
  <2>2. /\ wire # NoValue /\ var_i \in Tags
        /\ row_v = ExtractValue(wire, FieldIndex(var_i))
        /\ \A i \in 1 .. Len(done) : done[i] = row_v[i]
    BY <2>1 DEF Reading
  <2>3. row_v \in [1 .. NumFields(var_i) -> Value] /\ NumFields(var_i) \in Nat
    BY <2>2, ValueInHand
  <2>4. done = row_v
    BY <2>1, <2>2, <2>3
  <2>5. CASE pending.op = "untag" /\ var_i = pending.tag
    <3>1. Contract!Result(pending)
            = Contract!Fields(var_i, IF var_i = GetTag
                                       THEN ExtractValue(wire, FieldIndex(GetTag))
                                       ELSE [i \in 1 .. NumFields(var_i) |-> Poison])
      BY <1>6, <2>2, <2>5 DEF Contract!Result
    <3>2. var_i # GetTag => row_v = [i \in 1 .. NumFields(var_i) |-> Poison]
      BY <2>2, ValueInHand
    <3> QED BY <1>5, <2>1, <2>2, <2>4, <2>5, <3>1, <3>2
  <2>6. CASE pending.op = "destructure" /\ var_i = GetTag
    <3>1. Contract!Result(pending)
            = Contract!Fields(GetTag, ExtractValue(wire, FieldIndex(GetTag)))
      BY <2>2, <2>6 DEF Contract!Result
    <3> QED BY <1>5, <2>1, <2>2, <2>4, <2>6, <3>1
  <2> QED BY <2>1, <2>5, <2>6 DEF Reading
<1>12. CASE InsertRow
  <2>1. /\ Built /\ outcome' = Contract!Sum(pending.tag, row_v)
        /\ wire' = InsertValue(sum_v, row_v, FieldIndex(pending.tag))
    BY <1>12 DEF InsertRow, Finish, Inv
  <2>2. /\ pending.op = "tag" /\ Accepts(pending.tag, pending.vs) /\ row_v = pending.vs
        /\ sum_v = StructOf(pending.tag, PoisonRows)
    BY <2>1 DEF Built
  <2>3. pending.tag \in Tags /\ Len(pending.vs) = NumFields(pending.tag)
        /\ pending.vs \in Seq(Value)
    BY <1>2, <2>2, SumAssumption DEF Accepts, Contract!Ops
  <2>4. row_v \in [1 .. NumFields(pending.tag) -> Value]
    BY <2>2, <2>3
  <2>5. PoisonRows \in AllRows
    BY <1>2, PoisonRowsType
  <2>6. wire' = ValueOf(pending.tag, row_v)
    <3>1. ASSUME NEW tag \in Tags, NEW r
          PROVE  InsertValue(StructOf(tag, PoisonRows), r, FieldIndex(tag)) = ValueOf(tag, r)
      <4>2. InsertValue(StructOf(tag, PoisonRows), r, FieldIndex(tag))
              = StructOf(tag, [PoisonRows EXCEPT ![tag] = r])
        BY <1>2, <2>5, InsertRowInto
      <4> QED BY <4>2 DEF ValueOf
    <3> QED BY <2>1, <2>2, <2>3, <3>1
  <2>7. WireIsASum'
    <3>2. /\ Tags' = Tags /\ \A t : NumFields(t)' = NumFields(t)
          /\ \A t : \A f : ValueOf(t, f)' = ValueOf(t, f)
      BY <1>1, SameLayout
    <3>3. WireIsASum' = (wire' # NoValue =>
            \E tag \in Tags' : \E f \in [1 .. NumFields(tag)' -> Value] :
              wire' = ValueOf(tag, f)')
      BY DEF WireIsASum, NoValue
    <3> HIDE DEF WireIsASum
    <3> QED BY <2>3, <2>4, <2>6, <3>2, <3>3
  <2>8. TheSum' = Contract!Sum(pending.tag, row_v)
    <3>1. /\ wire' # NoValue
          /\ (IF HasTagField THEN ExtractValue(wire', 0) ELSE 0) = pending.tag
          /\ ExtractValue(wire', FieldIndex(pending.tag)) = row_v
      BY <1>2, <2>3, <2>6, ReadValue
    <3>2. GetTag' = pending.tag
      BY <1>1, <3>1, SameLayout DEF GetTag, ExtractValue
    <3>3. ExtractValue(wire, FieldIndex(GetTag))' = row_v
      BY <1>1, <3>1, <3>2, SameLayout DEF ExtractValue
    <3> QED BY <3>1, <3>2, <3>3 DEF TheSum, Contract!Sum
  <2>9. Contract!Result(pending) = Contract!Sum(pending.tag, row_v)
    BY <1>6, <1>7, <2>2, <2>3 DEF Contract!Result
  <2>10. Contract!Sum(pending.tag, row_v) # Contract!Err
    BY DEF Contract!Sum, Contract!Err
  <2>11. Contract!Return
    BY <1>1, <1>2, <2>1, <2>2, <2>8, <2>9, <2>10 DEF Contract!Return, TheSum, NoOp
  <2> QED BY <1>4, <2>7, <2>11
<1> QED BY <1>9, <1>10, <1>11, <1>12

\* Every step preserves the invariant, and is one of the contract or a stutter.
LEMMA NextInv == Inv /\ [Next]_vars => Inv' /\ [Contract!Next]_Contract!svars
<1> SUFFICES ASSUME Inv, [Next]_vars PROVE Inv' /\ [Contract!Next]_Contract!svars
  OBVIOUS
<1>1. CASE UNCHANGED vars
  <2>1. UNCHANGED <<variants, wire, pending, outcome, step, var_i, row_v, sum_v, done>>
    BY <1>1 DEF vars
  <2>2. Inv'
    BY <2>1, SameValue DEF Inv, TypeOK, Building, Built, Reading, Accepts, StructOf,
       PoisonRows, HasTagField, ExtractValue
  <2>3. UNCHANGED <<variants, TheSum, pending, outcome>>
    BY <2>1, SameValue
  <2> QED BY <2>2, <2>3 DEF Contract!svars, TheSum
<1>2. CASE \E p \in Contract!Ops : Call(p)
  BY <1>2, CallStep DEF Contract!Next
<1>3. CASE UndefRow \/ InsertField \/ InsertTag \/ ExtractRow \/ ExtractField
  BY <1>3, InnerStep DEF Contract!svars, TheSum
<1>4. CASE TagRefused \/ InsertRow \/ BuildGetTag \/ HandOver
  BY <1>4, FinalStep DEF Contract!Next
<1> QED BY <1>1, <1>2, <1>3, <1>4 DEF Next, Run

-----------------------------------------------------------------------------
\* Whatever sum types and values there are, the layout's variables have their
\* types: no field is inserted or read outside a row.
THEOREM SumTypesCorrect == Spec => []TypeOK
<1>1. Inv => TypeOK
  BY DEF Inv
<1> QED BY <1>1, InitInv, NextInv, PTL DEF Spec

\* Every value of every sum type that build_tag makes is a tag and its fields.
THEOREM ValuesAreSums == Spec => []WireIsASum
<1>1. Inv => WireIsASum
  BY DEF Inv
<1> QED BY <1>1, InitInv, NextInv, PTL DEF Spec

\* The layout implements sums, for every type and all values, as far as safety
\* goes.
THEOREM BehavesSafely == Spec => Contract!Safe
<1>1. Init => Inv /\ Contract!Init
  BY InitInv
<1>2. Inv /\ [Next]_vars => Inv' /\ [Contract!Next]_Contract!svars
  BY NextInv
<1> QED BY <1>1, <1>2, PTL DEF Spec, Contract!Safe
=============================================================================
