--------------------------- MODULE FuncEmitterProofs ---------------------------
(***************************************************************************)
(* Proofs about FuncEmitter, for all functions, however deep regions,      *)
(* conditionals and control-flow graphs nest in them.                      *)
(***************************************************************************)
EXTENDS FuncEmitter, FiniteSetTheorems, WellFoundedInduction, TLAPS

-----------------------------------------------------------------------------
(* Sequences, whatever their elements are.                                 *)

IsSeq(s) == s \in Seq(ToSet(s))

LEMMA KnownSeq ==
  ASSUME NEW S, NEW s \in Seq(S)
  PROVE  IsSeq(s)
<1>1. s \in [1 .. Len(s) -> ToSet(s)]
  BY DEF ToSet
<1> QED BY <1>1 DEF IsSeq

LEMMA SeqFacts ==
  ASSUME NEW s, IsSeq(s)
  PROVE  /\ Len(s) \in Nat /\ DOMAIN s = 1 .. Len(s)
         /\ s # <<>> => Len(s) \in DOMAIN s
         /\ s = <<>> <=> Len(s) = 0
BY DEF IsSeq

LEMMA ConcatSeq ==
  ASSUME NEW s, NEW t, IsSeq(s), IsSeq(t)
  PROVE  /\ IsSeq(s \o t) /\ Len(s \o t) = Len(s) + Len(t)
         /\ DOMAIN (s \o t) = 1 .. Len(s) + Len(t)
         /\ \A i \in 1 .. Len(s) : (s \o t)[i] = s[i]
         /\ \A i \in 1 .. Len(t) : (s \o t)[Len(s) + i] = t[i]
<1> DEFINE S == ToSet(s) \cup ToSet(t)
<1>1. s \in Seq(S) /\ t \in Seq(S)
  BY DEF IsSeq
<1>2. s \o t \in Seq(S)
  BY <1>1
<1>3. IsSeq(s \o t)
  BY <1>2, KnownSeq
<1> QED BY <1>1, <1>3

LEMMA FunSeq ==
  ASSUME NEW k \in Nat, NEW f, f = [i \in 1 .. k |-> f[i]]
  PROVE  IsSeq(f) /\ Len(f) = k
BY DEF IsSeq, ToSet

LEMMA OneSeq ==
  ASSUME NEW x
  PROVE  IsSeq(<<x>>) /\ Len(<<x>>) = 1 /\ <<x>>[1] = x
BY DEF IsSeq, ToSet

LEMMA SnocSeq ==
  ASSUME NEW s, IsSeq(s), NEW x
  PROVE  /\ IsSeq(s \o <<x>>) /\ Len(s \o <<x>>) = Len(s) + 1
         /\ DOMAIN (s \o <<x>>) = 1 .. Len(s) + 1
         /\ \A i \in 1 .. Len(s) : (s \o <<x>>)[i] = s[i]
         /\ (s \o <<x>>)[Len(s) + 1] = x
<1> DEFINE S == ToSet(s) \cup {x}
<1>1. s \in Seq(S) /\ <<x>> \in Seq(S)
  BY DEF IsSeq
<1>2. s \o <<x>> \in Seq(S)
  BY <1>1
<1>3. IsSeq(s \o <<x>>)
  BY <1>2, KnownSeq
<1> HIDE DEF S
<1> QED BY <1>1, <1>3

-----------------------------------------------------------------------------
(* Code, and what building does to it.                                     *)

Closed(c, b) == c.blocks[b] # <<>> /\ IsTerminator(Last(c.blocks[b]))

Open(c) == {b \in DOMAIN c.blocks : ~Closed(c, b)}

EndsWell(instrs) ==
    /\ IsSeq(instrs)
    /\ \A i \in DOMAIN instrs : IsTerminator(instrs[i]) => i = Len(instrs)

Straight(instrs) == IsSeq(instrs) /\ \A i \in DOMAIN instrs : ~IsTerminator(instrs[i])

\* A terminator is the last instruction of its block.
CodeOK(c) ==
    /\ c = [blocks |-> c.blocks, pos |-> c.pos]
    /\ IsSeq(c.blocks) /\ c.pos \in DOMAIN c.blocks
    /\ \A b \in DOMAIN c.blocks : EndsWell(c.blocks[b])

\* Instructions, the last of which may be a terminator, in an open block.
LEMMA BuildCode ==
  ASSUME NEW c, CodeOK(c), c.pos \in Open(c), NEW instrs, EndsWell(instrs)
  PROVE  /\ CodeOK(Build(c, instrs))
         /\ Build(c, instrs).pos = c.pos
         /\ Len(Build(c, instrs).blocks) = Len(c.blocks)
         /\ Open(Build(c, instrs)) =
              IF instrs # <<>> /\ IsTerminator(Last(instrs)) THEN Open(c) \ {c.pos} ELSE Open(c)
<1> DEFINE d == Build(c, instrs)
           new == c.blocks[c.pos] \o instrs
<1>1. d.pos = c.pos /\ d = [blocks |-> d.blocks, pos |-> d.pos]
  BY DEF Build, CodeOK
<1>2. d.blocks = [c.blocks EXCEPT ![c.pos] = new]
  BY DEF Build, CodeOK
<1>3. c.blocks \in Seq(ToSet(c.blocks)) /\ c.pos \in DOMAIN c.blocks
  BY DEF CodeOK, IsSeq
<1>4. /\ DOMAIN d.blocks = DOMAIN c.blocks /\ d.blocks[c.pos] = new
      /\ \A b \in DOMAIN c.blocks : b # c.pos => d.blocks[b] = c.blocks[b]
  BY <1>2, <1>3
<1>5. IsSeq(d.blocks) /\ Len(d.blocks) = Len(c.blocks)
  <2>1. Len(c.blocks) \in Nat /\ DOMAIN d.blocks = 1 .. Len(c.blocks)
    BY <1>3, <1>4
  <2>2. d.blocks = [b \in 1 .. Len(c.blocks) |-> d.blocks[b]]
    BY <1>2, <2>1
  <2> HIDE DEF d
  <2> QED BY <2>1, <2>2, FunSeq
<1> DEFINE old == c.blocks[c.pos]
<1>6. /\ IsSeq(old) /\ IsSeq(instrs)
      /\ \A i \in DOMAIN old : ~IsTerminator(old[i])
      /\ \A i \in DOMAIN instrs : IsTerminator(instrs[i]) => i = Len(instrs)
  <2>1. IsSeq(old) /\ \A i \in DOMAIN old : IsTerminator(old[i]) => i = Len(old)
    BY <1>3 DEF CodeOK, EndsWell
  <2>2. old # <<>> => ~IsTerminator(old[Len(old)])
    BY DEF Open, Closed, Last
  <2>3. \A i \in DOMAIN old : ~IsTerminator(old[i])
    BY <2>1, <2>2, SeqFacts
  <2> QED BY <2>1, <2>3 DEF EndsWell
<1> HIDE DEF d, old
<1>7. /\ IsSeq(new) /\ Len(new) = Len(old) + Len(instrs) /\ DOMAIN new = 1 .. Len(old) + Len(instrs)
      /\ \A i \in 1 .. Len(old) : new[i] = old[i]
      /\ \A i \in 1 .. Len(instrs) : new[Len(old) + i] = instrs[i]
      /\ Len(old) \in Nat /\ DOMAIN old = 1 .. Len(old)
      /\ Len(instrs) \in Nat /\ DOMAIN instrs = 1 .. Len(instrs)
  BY <1>6, ConcatSeq, SeqFacts DEF old
<1> HIDE DEF new
<1>8. EndsWell(new)
  <2>1. ASSUME NEW i \in DOMAIN new, IsTerminator(new[i]) PROVE i = Len(new)
    <3>1. i > Len(old)
      BY <1>6, <1>7, <2>1
    <3>2. i - Len(old) \in 1 .. Len(instrs) /\ i = Len(old) + (i - Len(old))
      BY <1>7, <3>1
    <3>3. new[i] = instrs[i - Len(old)]
      BY <1>7, <3>2
    <3> QED BY <1>6, <1>7, <2>1, <3>2, <3>3
  <2> QED BY <1>7, <2>1 DEF EndsWell
<1>9. CodeOK(d)
  BY <1>1, <1>3, <1>4, <1>5, <1>8 DEF CodeOK
<1>10. Closed(d, c.pos) <=> instrs # <<>> /\ IsTerminator(Last(instrs))
  <2>1. CASE instrs = <<>>
    <3>1. Len(instrs) = 0
      BY <2>1
    <3>2. new # <<>> => Len(old) \in 1 .. Len(old) /\ new[Len(new)] = old[Len(old)]
      BY <1>7, <3>1, SeqFacts
    <3> QED BY <1>4, <1>6, <1>7, <2>1, <3>2 DEF Closed, Last
  <2>2. CASE instrs # <<>>
    <3>1. Len(instrs) \in 1 .. Len(instrs)
      BY <1>6, <1>7, <2>2, SeqFacts
    <3>2. new[Len(new)] = instrs[Len(instrs)] /\ new # <<>>
      BY <1>7, <3>1, SeqFacts
    <3> QED BY <1>4, <2>2, <3>2 DEF Closed, Last
  <2> QED BY <2>1, <2>2
<1>11. \A b \in DOMAIN c.blocks : b # c.pos => (Closed(d, b) <=> Closed(c, b))
  BY <1>4 DEF Closed
<1>12. Open(d) = IF instrs # <<>> /\ IsTerminator(Last(instrs)) THEN Open(c) \ {c.pos} ELSE Open(c)
  BY <1>4, <1>10, <1>11 DEF Open
<1> QED BY <1>1, <1>5, <1>9, <1>12 DEF d

\* A block that is a sequence of instructions on its own.
ClosedBlock(block) == block # <<>> /\ IsTerminator(Last(block))

AllEndWell(new) == IsSeq(new) /\ \A i \in DOMAIN new : EndsWell(new[i])

\* d is the code c with the blocks new added to it.
Extended(d, c, new) ==
    /\ CodeOK(d) /\ d.pos = c.pos
    /\ Len(d.blocks) = Len(c.blocks) + Len(new)
    /\ Open(c) \subseteq 1 .. Len(c.blocks)
    /\ Open(d) \subseteq 1 .. Len(c.blocks) + Len(new)
    /\ \A b \in 1 .. Len(c.blocks) : b \in Open(d) <=> b \in Open(c)
    /\ \A i \in 1 .. Len(new) : Len(c.blocks) + i \in Open(d) <=> ~ClosedBlock(new[i])

LEMMA MoreBlocks ==
  ASSUME NEW c, CodeOK(c), NEW new, AllEndWell(new)
  PROVE  Extended(Extend(c, new), c, new)
<1> DEFINE n == Len(c.blocks)
           d == Extend(c, new)
<1>1. /\ d.pos = c.pos /\ d.blocks = c.blocks \o new
      /\ d = [blocks |-> d.blocks, pos |-> d.pos]
  BY DEF Extend
<1> HIDE DEF d
<1>2. IsSeq(c.blocks) /\ n \in Nat /\ DOMAIN c.blocks = 1 .. n
      /\ Len(new) \in Nat /\ DOMAIN new = 1 .. Len(new)
  BY SeqFacts DEF CodeOK, AllEndWell
<1>3. /\ IsSeq(d.blocks) /\ Len(d.blocks) = n + Len(new) /\ DOMAIN d.blocks = 1 .. n + Len(new)
      /\ \A b \in 1 .. n : d.blocks[b] = c.blocks[b]
      /\ \A i \in 1 .. Len(new) : d.blocks[n + i] = new[i]
  <2>1. IsSeq(new)
    BY DEF AllEndWell
  <2> QED BY <1>1, <1>2, <2>1, ConcatSeq
<1>4. \A b \in DOMAIN d.blocks : b \in 1 .. n \/ (b - n \in DOMAIN new /\ b = n + (b - n))
  BY <1>2, <1>3
<1>5. \A b \in DOMAIN d.blocks : EndsWell(d.blocks[b])
  BY <1>2, <1>3, <1>4 DEF CodeOK, AllEndWell
<1>6. c.pos \in DOMAIN d.blocks
  BY <1>2, <1>3 DEF CodeOK
<1>7. CodeOK(d)
  BY <1>1, <1>3, <1>5, <1>6 DEF CodeOK
<1>8. /\ \A b \in 1 .. n : Closed(d, b) <=> Closed(c, b)
      /\ \A i \in DOMAIN new : Closed(d, n + i) <=> ClosedBlock(new[i])
  BY <1>2, <1>3 DEF Closed, ClosedBlock
<1>9. Open(c) \subseteq 1 .. n /\ Open(d) \subseteq 1 .. n + Len(new)
  BY <1>2, <1>3 DEF Open
<1>10. 1 .. n \subseteq DOMAIN d.blocks /\ \A i \in 1 .. Len(new) : n + i \in DOMAIN d.blocks
  BY <1>2, <1>3
<1> HIDE DEF n
<1>11. \A b \in 1 .. n : b \in Open(d) <=> b \in Open(c)
  BY <1>2, <1>8, <1>10 DEF Open
<1>12. \A i \in 1 .. Len(new) : n + i \in Open(d) <=> ~ClosedBlock(new[i])
  BY <1>2, <1>8, <1>10 DEF Open
<1> QED BY <1>1, <1>3, <1>7, <1>9, <1>11, <1>12 DEF n, d, Extended

\* new_basic_block
LEMMA AddCode ==
  ASSUME NEW c, CodeOK(c), NEW k \in Nat
  PROVE  /\ CodeOK(AddBlocks(c, k)) /\ AddBlocks(c, k).pos = c.pos
         /\ Len(AddBlocks(c, k).blocks) = Len(c.blocks) + k
         /\ Open(AddBlocks(c, k)) = Open(c) \cup (Len(c.blocks) + 1 .. Len(c.blocks) + k)
<1> DEFINE new == [i \in 1 .. k |-> <<>>]
           d == AddBlocks(c, k)
           n == Len(c.blocks)
<1>1. IsSeq(new) /\ Len(new) = k /\ DOMAIN new = 1 .. k
  BY FunSeq
<1>2. \A i \in DOMAIN new : EndsWell(new[i])
  BY DEF EndsWell, IsSeq, ToSet
<1>3. \A i \in 1 .. k : ~ClosedBlock(new[i])
  BY DEF ClosedBlock
<1>4. d = Extend(c, new)
  BY DEF AddBlocks
<1>5. n \in Nat
  BY SeqFacts DEF CodeOK
<1> HIDE DEF new, d
<1>6. Extended(d, c, new)
  BY <1>1, <1>2, <1>4, MoreBlocks DEF AllEndWell
<1>7. /\ CodeOK(d) /\ d.pos = c.pos /\ Len(d.blocks) = n + Len(new)
      /\ Open(c) \subseteq 1 .. n /\ Open(d) \subseteq 1 .. n + Len(new)
      /\ \A b \in 1 .. n : b \in Open(d) <=> b \in Open(c)
      /\ \A i \in 1 .. Len(new) : n + i \in Open(d) <=> ~ClosedBlock(new[i])
  BY <1>6 DEF Extended
<1> HIDE DEF n
<1>8. ASSUME NEW b \in n + 1 .. n + k PROVE b \in Open(d)
  <2>1. b - n \in 1 .. k /\ n + (b - n) = b
    BY <1>5
  <2>2. n + (b - n) \in Open(d)
    BY <1>1, <1>3, <1>7, <2>1
  <2> QED BY <2>1, <2>2
<1>9. \A b \in 1 .. n + k : b \in 1 .. n \/ b \in n + 1 .. n + k
  BY <1>5
<1>10. Open(d) = Open(c) \cup (n + 1 .. n + k)
  BY <1>1, <1>7, <1>8, <1>9
<1> QED BY <1>1, <1>7, <1>10 DEF d, n

\* build_positioned
LEMMA AtCode ==
  ASSUME NEW c, CodeOK(c), NEW b \in DOMAIN c.blocks
  PROVE  /\ CodeOK(At(c, b)) /\ At(c, b).pos = b /\ At(c, b).blocks = c.blocks
         /\ Open(At(c, b)) = Open(c)
<1>1. /\ At(c, b).pos = b /\ At(c, b).blocks = c.blocks
      /\ At(c, b) = [blocks |-> At(c, b).blocks, pos |-> At(c, b).pos]
  BY DEF At, CodeOK
<1>2. \A a : Closed(At(c, b), a) <=> Closed(c, a)
  BY <1>1 DEF Closed
<1> QED BY <1>1, <1>2 DEF CodeOK, Open

\* Instructions that go on.
LEMMA StraightCode ==
  ASSUME NEW c, CodeOK(c), c.pos \in Open(c), NEW instrs, Straight(instrs)
  PROVE  /\ CodeOK(Build(c, instrs)) /\ Build(c, instrs).pos = c.pos
         /\ Len(Build(c, instrs).blocks) = Len(c.blocks)
         /\ Open(Build(c, instrs)) = Open(c)
<1>1. EndsWell(instrs)
  BY DEF EndsWell, Straight
<1>2. ~(instrs # <<>> /\ IsTerminator(Last(instrs)))
  BY SeqFacts DEF Straight, Last
<1> QED BY <1>1, <1>2, BuildCode

\* A terminator on its own.
LEMMA TerminateCode ==
  ASSUME NEW c, CodeOK(c), c.pos \in Open(c), NEW t, IsTerminator(t)
  PROVE  /\ CodeOK(Build(c, <<t>>)) /\ Build(c, <<t>>).pos = c.pos
         /\ Len(Build(c, <<t>>).blocks) = Len(c.blocks)
         /\ Open(Build(c, <<t>>)) = Open(c) \ {c.pos}
<1>1. IsSeq(<<t>>) /\ Len(<<t>>) = 1 /\ <<t>>[1] = t /\ DOMAIN <<t>> = 1 .. 1
  BY OneSeq, SeqFacts
<1>2. EndsWell(<<t>>) /\ <<t>> # <<>> /\ Last(<<t>>) = t
  BY <1>1 DEF EndsWell, Last
<1> QED BY <1>2, BuildCode

LEMMA ReadCode ==
  ASSUME NEW c, CodeOK(c), c.pos \in Open(c), NEW row, IsSeq(row)
  PROVE  /\ CodeOK(Read(c, row)) /\ Read(c, row).pos = c.pos
         /\ Len(Read(c, row).blocks) = Len(c.blocks)
         /\ Open(Read(c, row)) = Open(c)
<1> DEFINE instrs == [i \in DOMAIN row |-> Load(row[i])]
<1>1. Straight(instrs)
  <2>1. Len(row) \in Nat /\ DOMAIN row = 1 .. Len(row)
    BY SeqFacts
  <2>2. IsSeq(instrs) /\ DOMAIN instrs = DOMAIN row
    BY <2>1, FunSeq
  <2> QED BY <2>2 DEF Straight, Load, IsTerminator
<1> HIDE DEF instrs
<1>2. Read(c, row) = Build(c, instrs)
  BY DEF Read, instrs
<1> QED BY <1>1, <1>2, StraightCode

LEMMA WriteCode ==
  ASSUME NEW c, CodeOK(c), c.pos \in Open(c), NEW row, IsSeq(row), NEW vs
  PROVE  /\ CodeOK(Write(c, row, vs)) /\ Write(c, row, vs).pos = c.pos
         /\ Len(Write(c, row, vs).blocks) = Len(c.blocks)
         /\ Open(Write(c, row, vs)) = Open(c)
<1> DEFINE instrs == [i \in DOMAIN row |-> Store(row[i], vs[i])]
<1>1. Straight(instrs)
  <2>1. Len(row) \in Nat /\ DOMAIN row = 1 .. Len(row)
    BY SeqFacts
  <2>2. IsSeq(instrs) /\ DOMAIN instrs = DOMAIN row
    BY <2>1, FunSeq
  <2> QED BY <2>2 DEF Straight, Store, IsTerminator
<1> HIDE DEF instrs
<1>2. Write(c, row, vs) = Build(c, instrs)
  BY DEF Write, instrs
<1> QED BY <1>1, <1>2, StraightCode

\* A block that goes on twice and then ends.
LEMMA ClosedCode ==
  ASSUME NEW first, Straight(first), NEW second, Straight(second), NEW end, IsTerminator(end)
  PROVE  LET block == (first \o second) \o <<end>>
         IN  EndsWell(block) /\ ClosedBlock(block)
<1> DEFINE s == first \o second
           block == s \o <<end>>
<1>1. /\ IsSeq(first) /\ DOMAIN first = 1 .. Len(first) /\ Len(first) \in Nat
      /\ IsSeq(second) /\ DOMAIN second = 1 .. Len(second) /\ Len(second) \in Nat
  BY SeqFacts DEF Straight
<1>2. /\ IsSeq(s) /\ Len(s) = Len(first) + Len(second)
      /\ \A j \in 1 .. Len(first) : s[j] = first[j]
      /\ \A j \in 1 .. Len(second) : s[Len(first) + j] = second[j]
  BY <1>1, ConcatSeq
<1> HIDE DEF s
<1>3. ASSUME NEW j \in 1 .. Len(s) PROVE ~IsTerminator(s[j])
  <2>1. j \in 1 .. Len(first) \/ (j - Len(first) \in 1 .. Len(second) /\ j = Len(first) + (j - Len(first)))
    BY <1>1, <1>2
  <2> QED BY <1>1, <1>2, <2>1 DEF Straight
<1>4. /\ IsSeq(block) /\ Len(block) = Len(s) + 1 /\ DOMAIN block = 1 .. Len(s) + 1
      /\ \A j \in 1 .. Len(s) : block[j] = s[j]
      /\ block[Len(s) + 1] = end
  BY <1>2, SnocSeq
<1>5. Len(s) \in Nat
  BY <1>1, <1>2
<1> HIDE DEF block
<1>6. block # <<>> /\ Last(block) = end
  BY <1>4, <1>5, SeqFacts DEF Last
<1>7. ASSUME NEW j \in DOMAIN block, IsTerminator(block[j]) PROVE j = Len(block)
  <2>1. j \in 1 .. Len(s) \/ j = Len(s) + 1
    BY <1>4, <1>5
  <2>2. j \notin 1 .. Len(s)
    BY <1>3, <1>4, <1>7
  <2> QED BY <1>4, <2>1, <2>2
<1> QED BY <1>4, <1>6, <1>7 DEF EndsWell, ClosedBlock, block, s

\* build_destructure closes the block it is called in and all blocks it adds.
LEMMA VariantCode ==
  ASSUME NEW b, NEW sum, NEW i, NEW fields \in Nat, NEW row, IsSeq(row), NEW rest, NEW target
  PROVE  LET block == VariantBlock(b, sum, i, fields, row, rest, target)
         IN  EndsWell(block) /\ ClosedBlock(block)
<1> DEFINE first == [j \in 1 .. fields |-> Field(sum, i, j)]
           second == [j \in DOMAIN row |->
                        Store(row[j], IF j <= fields THEN <<b, j>> ELSE rest[j - fields])]
           block == VariantBlock(b, sum, i, fields, row, rest, target)
<1>1. Straight(first)
  BY FunSeq DEF Straight, Field, IsTerminator
<1>2. Straight(second)
  <2>1. Len(row) \in Nat /\ DOMAIN row = 1 .. Len(row)
    BY SeqFacts
  <2>2. IsSeq(second) /\ DOMAIN second = DOMAIN row
    BY <2>1, FunSeq
  <2> QED BY <2>2 DEF Straight, Store, IsTerminator
<1>3. IsTerminator(Branch(target))
  BY DEF IsTerminator, Branch
<1>4. block = (first \o second) \o <<Branch(target)>>
  BY DEF VariantBlock
<1> HIDE DEF first, second, block
<1> QED BY <1>1, <1>2, <1>3, <1>4, ClosedCode DEF block

LEMMA DestructureCode ==
  ASSUME NEW c, CodeOK(c), c.pos \in Open(c), NEW sum, NEW widths, NEW rows, NEW rest,
         NEW targets, widths \in Seq(Nat), \A i \in DOMAIN widths : IsSeq(rows[i])
  PROVE  LET d == Destructure(c, sum, widths, rows, rest, targets)
         IN  /\ CodeOK(d) /\ d.pos = c.pos
             /\ Len(d.blocks) = Len(c.blocks) + Len(widths)
             /\ Open(d) = Open(c) \ {c.pos}
<1> DEFINE n == Len(c.blocks)
           variants == [i \in DOMAIN widths |->
              VariantBlock(n + i, sum, i, widths[i], rows[i], rest, targets[i])]
           t == Switch(sum, [i \in DOMAIN widths |-> n + i])
           a == Build(c, <<t>>)
           d == Destructure(c, sum, widths, rows, rest, targets)
<1>1. d = Extend(a, variants)
  BY DEF Destructure
<1>2. IsTerminator(t)
  BY DEF IsTerminator, Switch
<1>3. Len(widths) \in Nat /\ DOMAIN widths = 1 .. Len(widths)
  OBVIOUS
<1>4. IsSeq(variants) /\ Len(variants) = Len(widths) /\ DOMAIN variants = DOMAIN widths
  BY <1>3, FunSeq
<1>5. \A i \in DOMAIN variants : EndsWell(variants[i]) /\ ClosedBlock(variants[i])
  <2>1. ASSUME NEW i \in DOMAIN widths PROVE EndsWell(variants[i]) /\ ClosedBlock(variants[i])
    <3>1. widths[i] \in Nat /\ IsSeq(rows[i])
      OBVIOUS
    <3>2. variants[i] = VariantBlock(n + i, sum, i, widths[i], rows[i], rest, targets[i])
      OBVIOUS
    <3> HIDE DEF variants
    <3> QED BY <3>1, <3>2, VariantCode
  <2> QED BY <1>4, <2>1
<1> HIDE DEF variants, t, d
<1>6. /\ CodeOK(a) /\ a.pos = c.pos /\ Len(a.blocks) = Len(c.blocks)
      /\ Open(a) = Open(c) \ {c.pos}
  BY <1>2, TerminateCode
<1> HIDE DEF a
<1>7. \A i \in DOMAIN variants : ClosedBlock(variants[i])
  BY <1>5
<1>8. AllEndWell(variants)
  BY <1>4, <1>5 DEF AllEndWell
<1>9. Extended(d, a, variants)
  BY <1>1, <1>6, <1>8, MoreBlocks
<1> DEFINE k == Len(a.blocks)
<1>10. /\ CodeOK(d) /\ d.pos = a.pos /\ Len(d.blocks) = k + Len(variants)
       /\ Open(a) \subseteq 1 .. k /\ Open(d) \subseteq 1 .. k + Len(variants)
       /\ \A b \in 1 .. k : b \in Open(d) <=> b \in Open(a)
       /\ \A i \in 1 .. Len(variants) : k + i \in Open(d) <=> ~ClosedBlock(variants[i])
  BY <1>9 DEF Extended
<1>11. k \in Nat /\ Len(variants) \in Nat /\ DOMAIN variants = 1 .. Len(variants)
  BY <1>4, <1>6, SeqFacts DEF CodeOK
<1> HIDE DEF k
<1>12. ASSUME NEW b \in 1 .. k + Len(variants), b \notin 1 .. k PROVE b \notin Open(d)
  <2>1. b - k \in 1 .. Len(variants) /\ k + (b - k) = b
    BY <1>11, <1>12
  <2>2. k + (b - k) \notin Open(d)
    BY <1>7, <1>10, <1>11, <2>1
  <2> QED BY <2>1, <2>2
<1>13. Open(d) = Open(a)
  BY <1>10, <1>12
<1> QED BY <1>4, <1>6, <1>10, <1>13 DEF d, k

-----------------------------------------------------------------------------
(* The stack of activations, judged against the number of blocks and the   *)
(* mailboxes there are, both of which only grow.                           *)

IsDataflow(h, f, size, boxes) ==
    /\ f.is = "dataflow"
    /\ f = [is |-> "dataflow", node |-> f.node, inputs |-> f.inputs,
            outputs |-> f.outputs, left |-> f.left]
    /\ f.node \in NodesOf(h) /\ IsRegion(h, f.node)
    /\ IsSeq(f.inputs) /\ ToSet(f.inputs) \subseteq (0 .. size) \X Nat
    /\ IsSeq(f.outputs) /\ ToSet(f.outputs) \subseteq boxes
    /\ f.left \subseteq ChildrenOf(h, f.node)

IsConditional(h, f, size, boxes) ==
    /\ f.is = "conditional"
    /\ f = [is |-> "conditional", node |-> f.node, inputs |-> f.inputs,
            exit |-> f.exit, cases |-> f.cases, home |-> f.home]
    /\ f.node \in NodesOf(h) /\ h.kind[f.node] = "Conditional"
    /\ IsSeq(f.inputs) /\ ToSet(f.inputs) \subseteq (0 .. size) \X Nat
    /\ ToSet(AnonymousRow("exit", f.node, h.nout[f.node])) \subseteq boxes
    /\ IsSeq(f.cases) /\ Len(f.cases) <= Len(h.kids[f.node])
    /\ f.exit \in 1 .. size /\ f.home \in 1 .. size /\ f.exit # f.home

IsCfg(h, f, size, boxes) ==
    /\ f.is = "cfg"
    /\ f = [is |-> "cfg", node |-> f.node, bb |-> f.bb,
            outputs |-> f.outputs, next |-> f.next, home |-> f.home]
    /\ f.node \in NodesOf(h) /\ h.kind[f.node] = "CFG"
    /\ IsSeq(f.outputs) /\ ToSet(f.outputs) \subseteq boxes
    /\ f.next \in 1 .. Len(h.kids[f.node]) + 1 /\ f.home \in 1 .. size
    /\ \A m \in CfgBlocks(h, f.node) : f.bb[m] \in 1 .. size
    /\ \A m, k \in CfgBlocks(h, f.node) : f.bb[m] = f.bb[k] => m = k

FrameOK(h, f, size, boxes) ==
    \/ IsDataflow(h, f, size, boxes)
    \/ IsConditional(h, f, size, boxes)
    \/ IsCfg(h, f, size, boxes)

\* Only a dataflow parent calls anything but dataflow parents, and a CFG
\* calls its blocks.
Calls(h, f, g) ==
    /\ f.is # "dataflow" => g.is = "dataflow"
    /\ f.is = "cfg" => /\ g.node \in ChildrenOf(h, f.node)
                       /\ h.kind[g.node] = "DataflowBlock"

FramesOK(h, s, size, boxes) ==
    /\ IsSeq(s)
    /\ \A k \in 1 .. Len(s) : FrameOK(h, s[k], size, boxes)
    /\ \A k \in 1 .. Len(s) - 1 : Calls(h, s[k], s[k + 1])

\* The children an activation has yet to visit.
Ahead(h, f) == {h.kids[f.node][i] : i \in f.next .. Len(h.kids[f.node])}

ToCome(h, f) ==
    CASE f.is = "dataflow" -> f.left
      [] f.is = "conditional" ->
           {h.kids[f.node][i] : i \in Len(f.cases) + 1 .. Len(h.kids[f.node])}
      [] f.is = "cfg" -> Ahead(h, f)

\* The blocks an activation has yet to close or to hand to its caller.
Owed(h, f) ==
    CASE f.is = "dataflow" -> {}
      [] f.is = "conditional" -> {f.exit, f.home}
      [] f.is = "cfg" -> {f.bb[m] : m \in {k \in CfgBlocks(h, f.node) :
                                            h.kind[k] = "ExitBlock" \/ k \in Ahead(h, f)}}

\* Every open block is the prologue's, the one the builder stands in, or owed
\* by exactly one activation.
Ledger(h, c, s) ==
    /\ 1 \in Open(c)
    /\ \A k \in 1 .. Len(s) : Owed(h, s[k]) \subseteq Open(c) \ {1}
    /\ \A k, l \in 1 .. Len(s) : k # l => Owed(h, s[k]) \cap Owed(h, s[l]) = {}
    /\ \A b \in Open(c) \ {1, c.pos} : \E k \in 1 .. Len(s) : b \in Owed(h, s[k])

\* Where the builder stands, and where it will be put back.
Placed(h, c, s) ==
    /\ s[Len(s)].is = "dataflow" => /\ c.pos \in Open(c) \ {1}
                                    /\ \A k \in 1 .. Len(s) : c.pos \notin Owed(h, s[k])
    /\ s[Len(s)].is # "dataflow" => c.pos = s[Len(s)].home
    /\ \A k \in 1 .. Len(s) : s[k].is = "cfg" => s[k].home \notin Open(c)

FuncDefns(h, S) == {n \in S : h.kind[n] = "FuncDefn"} \ {h.root}

\* S have been visited, and all their children have been or are to come.
VisitedAre(h, s, defs, S) ==
    /\ S \subseteq NodesOf(h) /\ h.root \in S /\ defs = FuncDefns(h, S)
    /\ \A n \in S : \A m \in ChildrenOf(h, n) :
         m \in S \/ \E k \in 1 .. Len(s) : s[k].node = n /\ m \in ToCome(h, s[k])

-----------------------------------------------------------------------------
(* A step changes the innermost activation and what it has called, nothing *)
(* below; Same says so of the stacks before and after it.                  *)

Same(s, t) ==
    /\ IsSeq(t) /\ Len(s) - 1 <= Len(t)
    /\ \A k \in 1 .. Len(s) - 1 : t[k] = s[k]

LEMMA FrontFacts ==
  ASSUME NEW s, IsSeq(s), s # <<>>
  PROVE  /\ Len(s) \in Nat \ {0} /\ Last(s) = s[Len(s)]
         /\ Same(s, Front(s)) /\ Len(Front(s)) = Len(s) - 1
<1>1. Len(s) \in Nat \ {0}
  BY SeqFacts
<1>2. s \in Seq(ToSet(s))
  BY DEF IsSeq
<1>3. Front(s) \in Seq(ToSet(s)) /\ Len(Front(s)) = Len(s) - 1
      /\ \A k \in 1 .. Len(s) - 1 : Front(s)[k] = s[k]
  <2>1. Front(s) = [k \in 1 .. Len(s) - 1 |-> s[k]]
    BY <1>1, <1>2 DEF Front
  <2>2. \A k \in 1 .. Len(s) - 1 : s[k] \in ToSet(s)
    BY <1>1, <1>2
  <2> QED BY <1>1, <2>1, <2>2
<1>4. IsSeq(Front(s))
  BY <1>3, KnownSeq
<1> QED BY <1>1, <1>3, <1>4 DEF Last, Same

LEMMA AppendSeq ==
  ASSUME NEW s, IsSeq(s), NEW x
  PROVE  /\ IsSeq(Append(s, x)) /\ Len(Append(s, x)) = Len(s) + 1
         /\ \A k \in 1 .. Len(s) : Append(s, x)[k] = s[k]
         /\ Append(s, x)[Len(s) + 1] = x
<1> DEFINE S == ToSet(s) \cup {x}
<1>1. s \in Seq(S)
  BY DEF IsSeq
<1>2. Append(s, x) \in Seq(S)
  BY <1>1
<1>3. IsSeq(Append(s, x))
  BY <1>2, KnownSeq
<1> QED BY <1>1, <1>3

LEMMA ReplaceFacts ==
  ASSUME NEW s, IsSeq(s), s # <<>>, NEW f
  PROVE  LET t == Append(Front(s), f)
         IN  Same(s, t) /\ Len(t) = Len(s) /\ t[Len(s)] = f
<1> DEFINE p == Front(s)
           t == Append(p, f)
<1>1. Len(s) \in Nat \ {0} /\ IsSeq(p) /\ Len(p) = Len(s) - 1
      /\ \A k \in 1 .. Len(s) - 1 : p[k] = s[k]
  BY FrontFacts DEF Same
<1> HIDE DEF p
<1>2. /\ IsSeq(t) /\ Len(t) = Len(p) + 1
      /\ \A k \in 1 .. Len(p) : t[k] = p[k]
      /\ t[Len(p) + 1] = f
  BY <1>1, AppendSeq
<1> HIDE DEF t
<1>3. Len(t) = Len(s) /\ t[Len(s)] = f /\ Len(s) - 1 <= Len(t)
  BY <1>1, <1>2
<1>4. \A k \in 1 .. Len(s) - 1 : t[k] = s[k]
  BY <1>1, <1>2
<1>5. Same(s, t)
  BY <1>2, <1>3, <1>4 DEF Same
<1> QED BY <1>3, <1>5 DEF t, p

LEMMA PushFacts ==
  ASSUME NEW s, IsSeq(s), s # <<>>, NEW f, NEW g
  PROVE  LET t == Append(Append(Front(s), f), g)
         IN  Same(s, t) /\ Len(t) = Len(s) + 1 /\ t[Len(s)] = f /\ t[Len(s) + 1] = g
<1> DEFINE p == Append(Front(s), f)
           t == Append(p, g)
<1>1. Same(s, p) /\ Len(p) = Len(s) /\ p[Len(s)] = f
  BY ReplaceFacts
<1>2. Len(s) \in Nat \ {0}
  BY FrontFacts
<1> HIDE DEF p
<1>3. IsSeq(p) /\ \A k \in 1 .. Len(s) - 1 : p[k] = s[k]
  BY <1>1 DEF Same
<1>4. /\ IsSeq(t) /\ Len(t) = Len(p) + 1
      /\ \A k \in 1 .. Len(p) : t[k] = p[k]
      /\ t[Len(p) + 1] = g
  BY <1>3, AppendSeq
<1> HIDE DEF t
<1>5. Len(t) = Len(s) + 1 /\ t[Len(s)] = f /\ t[Len(s) + 1] = g /\ Len(s) - 1 <= Len(t)
  BY <1>1, <1>2, <1>4
<1>6. \A k \in 1 .. Len(s) - 1 : t[k] = s[k]
  BY <1>1, <1>2, <1>3, <1>4
<1>7. Same(s, t)
  BY <1>4, <1>5, <1>6 DEF Same
<1> QED BY <1>5, <1>7 DEF t, p

-----------------------------------------------------------------------------
(* The invariant from one stack to the next.                               *)

LEMMA FrameGrows ==
  ASSUME NEW h, NEW f, NEW size \in Nat, NEW larger \in Nat, size <= larger,
         NEW boxes, NEW more, boxes \subseteq more, FrameOK(h, f, size, boxes)
  PROVE  FrameOK(h, f, larger, more)
<1>1. 1 .. size \subseteq 1 .. larger /\ (0 .. size) \X Nat \subseteq (0 .. larger) \X Nat
  OBVIOUS
<1>2. CASE IsDataflow(h, f, size, boxes)
  BY <1>1, <1>2 DEF FrameOK, IsDataflow
<1>3. CASE IsConditional(h, f, size, boxes)
  BY <1>1, <1>3 DEF FrameOK, IsConditional
<1>4. CASE IsCfg(h, f, size, boxes)
  BY <1>1, <1>4 DEF FrameOK, IsCfg
<1> QED BY <1>2, <1>3, <1>4 DEF FrameOK

LEMMA NextFrames ==
  ASSUME NEW h, NEW s, NEW t, NEW size \in Nat, NEW larger \in Nat, size <= larger,
         NEW boxes, NEW more, boxes \subseteq more,
         FramesOK(h, s, size, boxes), s # <<>>, Same(s, t),
         \A k \in Len(s) .. Len(t) : FrameOK(h, t[k], larger, more),
         \A k \in Len(s) .. Len(t) - 1 : Calls(h, t[k], t[k + 1]),
         Len(s) > 1 /\ Len(t) >= Len(s) => Calls(h, s[Len(s) - 1], t[Len(s)])
  PROVE  FramesOK(h, t, larger, more)
<1>1. Len(s) \in Nat \ {0} /\ Len(t) \in Nat /\ IsSeq(t)
      /\ \A k \in 1 .. Len(s) - 1 : t[k] = s[k]
  BY FrontFacts, SeqFacts DEF FramesOK, Same
<1>2. ASSUME NEW k \in 1 .. Len(t) PROVE FrameOK(h, t[k], larger, more)
  <2>1. CASE k \in Len(s) .. Len(t)
    BY <2>1
  <2>2. CASE k \in 1 .. Len(s) - 1
    <3>1. FrameOK(h, s[k], size, boxes) /\ t[k] = s[k]
      BY <1>1, <2>2 DEF FramesOK
    <3> QED BY <3>1, FrameGrows
  <2> QED BY <1>1, <2>1, <2>2
<1>3. ASSUME NEW k \in 1 .. Len(t) - 1 PROVE Calls(h, t[k], t[k + 1])
  <2>1. CASE k \in Len(s) .. Len(t) - 1
    BY <2>1
  <2>2. CASE k = Len(s) - 1
    <3>1. Len(s) > 1 /\ Len(t) >= Len(s) /\ t[k] = s[Len(s) - 1] /\ k + 1 = Len(s)
      BY <1>1, <2>2
    <3> QED BY <3>1
  <2>3. CASE k \in 1 .. Len(s) - 2
    <3>1. t[k] = s[k] /\ t[k + 1] = s[k + 1] /\ k \in 1 .. Len(s) - 1
      BY <1>1, <2>3
    <3> QED BY <3>1 DEF FramesOK
  <2> QED BY <1>1, <2>1, <2>2, <2>3
<1> QED BY <1>1, <1>2, <1>3 DEF FramesOK

\* The open blocks that are the innermost activation's business.
Mine(h, c, s) ==
    Owed(h, s[Len(s)]) \cup (IF s[Len(s)].is = "dataflow" THEN {c.pos} ELSE {})

\* The blocks the innermost activation leaves open as it turns c into d.
Free(h, c, d, s) == Open(d) \ (DOMAIN c.blocks \ Mine(h, c, s))

LEMMA MineIsMine ==
  ASSUME NEW h, NEW c, NEW s, Len(s) \in Nat \ {0}, Ledger(h, c, s), Placed(h, c, s),
         s[Len(s)].is \in {"dataflow", "conditional", "cfg"}
  PROVE  /\ Mine(h, c, s) \subseteq Open(c) \ {1}
         /\ \A k \in 1 .. Len(s) - 1 : Owed(h, s[k]) \cap Mine(h, c, s) = {}
         /\ \A b \in Open(c) \ {1} :
              b \in Mine(h, c, s) \/ \E k \in 1 .. Len(s) - 1 : b \in Owed(h, s[k])
<1> DEFINE n == Len(s)
<1>1. /\ n \in 1 .. n
      /\ \A k \in 1 .. n - 1 : k \in 1 .. n /\ k # n
      /\ \A k \in 1 .. n : k = n \/ k \in 1 .. n - 1
  OBVIOUS
<1> HIDE DEF n
<1>2. Mine(h, c, s) = Owed(h, s[n]) \cup (IF s[n].is = "dataflow" THEN {c.pos} ELSE {})
  BY DEF Mine, n
<1>3. /\ \A k \in 1 .. n : Owed(h, s[k]) \subseteq Open(c) \ {1}
      /\ \A k, l \in 1 .. n : k # l => Owed(h, s[k]) \cap Owed(h, s[l]) = {}
      /\ \A b \in Open(c) \ {1, c.pos} : \E k \in 1 .. n : b \in Owed(h, s[k])
  BY DEF Ledger, n
<1>4. /\ s[n].is = "dataflow" => c.pos \in Open(c) \ {1} /\ \A k \in 1 .. n : c.pos \notin Owed(h, s[k])
      /\ s[n].is # "dataflow" => c.pos = s[n].home
      /\ \A k \in 1 .. n : s[k].is = "cfg" => s[k].home \notin Open(c)
  BY DEF Placed, n
<1>5. Mine(h, c, s) \subseteq Open(c) \ {1}
  BY <1>1, <1>2, <1>3, <1>4
<1>6. ASSUME NEW k \in 1 .. n - 1 PROVE Owed(h, s[k]) \cap Mine(h, c, s) = {}
  <2>1. Owed(h, s[k]) \cap Owed(h, s[n]) = {}
    BY <1>1, <1>3
  <2> QED BY <1>1, <1>2, <1>4, <2>1
<1>7. ASSUME NEW b \in Open(c) \ {1}
      PROVE  b \in Mine(h, c, s) \/ \E k \in 1 .. n - 1 : b \in Owed(h, s[k])
  <2>1. CASE b # c.pos
    BY <1>1, <1>2, <1>3, <2>1
  <2>2. CASE b = c.pos /\ s[n].is = "dataflow"
    BY <1>2, <2>2
  <2>3. CASE b = c.pos /\ s[n].is = "conditional"
    <3>1. b = s[n].home
      BY <1>4, <2>3
    <3>2. s[n].home \in Owed(h, s[n])
      BY <2>3 DEF Owed
    <3> QED BY <1>2, <3>1, <3>2
  <2>4. CASE b = c.pos /\ s[n].is = "cfg"
    BY <1>1, <1>4, <2>4
  <2> QED BY <2>1, <2>2, <2>3, <2>4 DEF n
<1> QED BY <1>5, <1>6, <1>7 DEF n

LEMMA NextLedger ==
  ASSUME NEW h, NEW c, NEW d, NEW s, NEW t, Len(s) \in Nat \ {0}, Len(t) \in Nat,
         Ledger(h, c, s), Placed(h, c, s), Same(s, t),
         s[Len(s)].is \in {"dataflow", "conditional", "cfg"},
         \A b \in DOMAIN c.blocks \ Mine(h, c, s) : b \in Open(d) <=> b \in Open(c),
         \A k \in Len(s) .. Len(t) : Owed(h, t[k]) \subseteq Free(h, c, d, s),
         \A k, l \in Len(s) .. Len(t) : k # l => Owed(h, t[k]) \cap Owed(h, t[l]) = {},
         \A b \in Free(h, c, d, s) \ {d.pos} : \E k \in Len(s) .. Len(t) : b \in Owed(h, t[k])
  PROVE  Ledger(h, d, t)
<1> DEFINE n == Len(s)
           m == Len(t)
           mine == Mine(h, c, s)
           free == Free(h, c, d, s)
<1>1. /\ n \in Nat \ {0} /\ m \in Nat
      /\ \A k \in 1 .. m : k \in 1 .. n - 1 \/ k \in n .. m
      /\ n - 1 <= m /\ \A k \in 1 .. n - 1 : t[k] = s[k]
  BY DEF Same
<1>2. /\ mine \subseteq Open(c) \ {1}
      /\ \A k \in 1 .. n - 1 : Owed(h, s[k]) \cap mine = {}
      /\ \A b \in Open(c) \ {1} : b \in mine \/ \E k \in 1 .. n - 1 : b \in Owed(h, s[k])
  BY MineIsMine
<1>3. /\ 1 \in Open(c)
      /\ \A k \in 1 .. n : Owed(h, s[k]) \subseteq Open(c) \ {1}
      /\ \A k, l \in 1 .. n : k # l => Owed(h, s[k]) \cap Owed(h, s[l]) = {}
  BY DEF Ledger
<1>4. /\ free = Open(d) \ (DOMAIN c.blocks \ mine)
      /\ Open(c) \subseteq DOMAIN c.blocks
      /\ \A b \in DOMAIN c.blocks \ mine : b \in Open(d) <=> b \in Open(c)
      /\ \A k \in n .. m : Owed(h, t[k]) \subseteq free
      /\ \A k, l \in n .. m : k # l => Owed(h, t[k]) \cap Owed(h, t[l]) = {}
      /\ \A b \in free \ {d.pos} : \E k \in n .. m : b \in Owed(h, t[k])
  BY DEF Free, Open
<1> HIDE DEF n, m, mine, free
<1>5. 1 \in Open(d) /\ 1 \notin free
  BY <1>2, <1>3, <1>4
<1>6. ASSUME NEW k \in 1 .. n - 1
      PROVE  Owed(h, t[k]) \subseteq Open(d) \ {1} /\ Owed(h, t[k]) \cap free = {}
  <2>1. k \in 1 .. n
    BY <1>1
  <2> QED BY <1>1, <1>2, <1>3, <1>4, <2>1
<1>7. ASSUME NEW k \in 1 .. m PROVE Owed(h, t[k]) \subseteq Open(d) \ {1}
  <2>1. CASE k \in 1 .. n - 1
    BY <1>6, <2>1
  <2>2. CASE k \in n .. m
    BY <1>4, <1>5, <2>2
  <2> QED BY <1>1, <2>1, <2>2
<1>8. ASSUME NEW k \in 1 .. m, NEW l \in 1 .. m, k # l PROVE Owed(h, t[k]) \cap Owed(h, t[l]) = {}
  <2>1. CASE k \in 1 .. n - 1 /\ l \in 1 .. n - 1
    <3>1. k \in 1 .. n /\ l \in 1 .. n
      BY <1>1, <2>1
    <3> QED BY <1>1, <1>3, <1>8, <2>1, <3>1
  <2>2. CASE k \in n .. m /\ l \in n .. m
    BY <1>4, <1>8, <2>2
  <2>3. CASE k \in 1 .. n - 1 /\ l \in n .. m
    BY <1>4, <1>6, <2>3
  <2>4. CASE k \in n .. m /\ l \in 1 .. n - 1
    BY <1>4, <1>6, <2>4
  <2> QED BY <1>1, <2>1, <2>2, <2>3, <2>4
<1>9. ASSUME NEW b \in Open(d) \ {1, d.pos} PROVE \E k \in 1 .. m : b \in Owed(h, t[k])
  <2>1. CASE b \in free
    <3>1. PICK k \in n .. m : b \in Owed(h, t[k])
      BY <1>4, <2>1
    <3>2. k \in 1 .. m
      BY <1>1
    <3> QED BY <3>1, <3>2
  <2>2. CASE b \notin free
    <3>1. b \in DOMAIN c.blocks \ mine /\ b \in Open(c) \ {1}
      BY <1>4, <2>2
    <3>2. PICK k \in 1 .. n - 1 : b \in Owed(h, s[k])
      BY <1>2, <3>1
    <3>3. k \in 1 .. m /\ t[k] = s[k]
      BY <1>1
    <3> QED BY <3>2, <3>3
  <2> QED BY <2>1, <2>2
<1> QED BY <1>5, <1>7, <1>8, <1>9 DEF Ledger, m

LEMMA NextPlaced ==
  ASSUME NEW h, NEW c, NEW d, NEW s, NEW t, Len(s) \in Nat \ {0}, Len(t) \in Nat \ {0},
         Ledger(h, c, s), Placed(h, c, s), Same(s, t),
         s[Len(s)].is \in {"dataflow", "conditional", "cfg"},
         \A k \in 1 .. Len(s) : s[k].is = "cfg" => s[k].home \in DOMAIN c.blocks,
         \A b \in DOMAIN c.blocks \ Mine(h, c, s) : b \in Open(d) <=> b \in Open(c),
         t[Len(t)].is = "dataflow" =>
             /\ d.pos \in Free(h, c, d, s)
             /\ \A k \in Len(s) .. Len(t) : d.pos \notin Owed(h, t[k]),
         t[Len(t)].is # "dataflow" => d.pos = t[Len(t)].home,
         \A k \in Len(s) .. Len(t) : t[k].is = "cfg" => t[k].home \notin Open(d)
  PROVE  Placed(h, d, t)
<1> DEFINE n == Len(s)
           m == Len(t)
           mine == Mine(h, c, s)
           free == Free(h, c, d, s)
<1>1. /\ n \in Nat \ {0} /\ m \in Nat
      /\ \A k \in 1 .. m : k \in 1 .. n - 1 \/ k \in n .. m
      /\ \A k \in 1 .. n - 1 : t[k] = s[k] /\ k \in 1 .. n
  BY DEF Same
<1>2. mine \subseteq Open(c) \ {1} /\ \A k \in 1 .. n - 1 : Owed(h, s[k]) \cap mine = {}
  BY MineIsMine
<1>3. 1 \in Open(c) /\ \A k \in 1 .. n : Owed(h, s[k]) \subseteq Open(c)
  BY DEF Ledger
<1>4. free = Open(d) \ (DOMAIN c.blocks \ mine) /\ Open(c) \subseteq DOMAIN c.blocks
  BY DEF Free, Open
<1>5. \A k \in 1 .. n : s[k].is = "cfg" => s[k].home \in DOMAIN c.blocks /\ s[k].home \notin Open(c)
  BY DEF Placed
<1>6. ASSUME t[m].is = "dataflow"
      PROVE  d.pos \in Open(d) \ {1} /\ \A k \in 1 .. m : d.pos \notin Owed(h, t[k])
  <2>1. d.pos \in free /\ \A k \in n .. m : d.pos \notin Owed(h, t[k])
    BY <1>6
  <2> HIDE DEF n, m, mine, free
  <2>2. d.pos \in Open(d) \ {1}
    BY <1>2, <1>3, <1>4, <2>1
  <2>3. ASSUME NEW k \in 1 .. n - 1 PROVE d.pos \notin Owed(h, t[k])
    <3>1. t[k] = s[k] /\ Owed(h, s[k]) \subseteq Open(c) /\ Owed(h, s[k]) \cap mine = {}
      BY <1>1, <1>2, <1>3
    <3> QED BY <1>4, <2>1, <3>1
  <2> QED BY <1>1, <2>1, <2>2, <2>3
<1>7. ASSUME NEW k \in 1 .. m, t[k].is = "cfg" PROVE t[k].home \notin Open(d)
  <2>1. CASE k \in n .. m
    BY <1>7, <2>1
  <2>2. CASE k \in 1 .. n - 1
    <3>1. t[k] = s[k] /\ s[k].home \in DOMAIN c.blocks \ mine /\ s[k].home \notin Open(c)
      BY <1>1, <1>2, <1>5, <1>7, <2>2
    <3> QED BY <3>1
  <2> QED BY <1>1, <2>1, <2>2
<1> QED BY <1>6, <1>7 DEF Placed

-----------------------------------------------------------------------------
(* The invariant when the innermost activation goes on, calls another or   *)
(* returns.                                                                *)

Sound(h, c, s, boxes) ==
    /\ CodeOK(c) /\ FramesOK(h, s, Len(c.blocks), boxes)
    /\ s # <<>> => Ledger(h, c, s) /\ Placed(h, c, s)

IInv ==
    /\ hugr \in Hugrs /\ phase \in {"emitting", "emitted", "panicked"}
    /\ mailboxes \subseteq Mailbox
    /\ Sound(hugr, Code, stack, mailboxes)
    /\ phase = "emitted" => stack = <<>> /\ Open(Code) = {}
    /\ \E S \in SUBSET NodesOf(hugr) : VisitedAre(hugr, stack, todo, S)

LEMMA SoundFacts ==
  ASSUME NEW h, NEW c, NEW s, NEW boxes, Sound(h, c, s, boxes), s # <<>>
  PROVE  /\ Len(s) \in Nat \ {0} /\ Last(s) = s[Len(s)] /\ IsSeq(s)
         /\ Len(c.blocks) \in Nat /\ DOMAIN c.blocks = 1 .. Len(c.blocks)
         /\ Ledger(h, c, s) /\ Placed(h, c, s)
         /\ \A k \in 1 .. Len(s) : FrameOK(h, s[k], Len(c.blocks), boxes)
         /\ s[Len(s)].is \in {"dataflow", "conditional", "cfg"}
         /\ \A k \in 1 .. Len(s) : s[k].is = "cfg" => s[k].home \in DOMAIN c.blocks
         /\ Open(c) \subseteq DOMAIN c.blocks
<1>1. Len(s) \in Nat \ {0} /\ Last(s) = s[Len(s)] /\ IsSeq(s)
  BY FrontFacts DEF Sound, FramesOK
<1>2. Len(c.blocks) \in Nat /\ DOMAIN c.blocks = 1 .. Len(c.blocks)
  BY SeqFacts DEF Sound, CodeOK
<1>3. \A k \in 1 .. Len(s) : FrameOK(h, s[k], Len(c.blocks), boxes)
  BY DEF Sound, FramesOK
<1>4. ASSUME NEW k \in 1 .. Len(s)
      PROVE  /\ s[k].is \in {"dataflow", "conditional", "cfg"}
             /\ s[k].is = "cfg" => s[k].home \in 1 .. Len(c.blocks)
  <2>1. FrameOK(h, s[k], Len(c.blocks), boxes)
    BY <1>3
  <2> QED BY <2>1 DEF FrameOK, IsDataflow, IsConditional, IsCfg
<1> QED BY <1>1, <1>2, <1>3, <1>4 DEF Sound, Open

LEMMA ReplaceSound ==
  ASSUME NEW h, NEW c, NEW d, NEW s, NEW boxes, NEW more, NEW f,
         Sound(h, c, s, boxes), s # <<>>, CodeOK(d), boxes \subseteq more,
         Len(d.blocks) = Len(c.blocks), Open(d) = Open(c), d.pos = c.pos,
         FrameOK(h, f, Len(d.blocks), more),
         f.is = Last(s).is, f.node = Last(s).node, Owed(h, f) = Owed(h, Last(s)),
         f.is # "dataflow" => f.home = Last(s).home
  PROVE  Sound(h, d, Append(Front(s), f), more)
<1> DEFINE n == Len(s)
           t == Append(Front(s), f)
<1>1. Same(s, t) /\ Len(t) = n /\ t[n] = f /\ n \in Nat \ {0} /\ Last(s) = s[n]
  BY ReplaceFacts, SoundFacts
<1>2. /\ Ledger(h, c, s) /\ Placed(h, c, s) /\ FramesOK(h, s, Len(c.blocks), boxes)
      /\ s[n].is \in {"dataflow", "conditional", "cfg"}
      /\ \A k \in 1 .. n : s[k].is = "cfg" => s[k].home \in DOMAIN c.blocks
      /\ Len(c.blocks) \in Nat /\ Open(c) \subseteq DOMAIN c.blocks
  BY SoundFacts DEF Sound
<1> HIDE DEF t
<1>3. n .. Len(t) = {n} /\ n .. Len(t) - 1 = {} /\ t # <<>> /\ Len(t) \in Nat \ {0}
  BY <1>1, SeqFacts DEF Same
<1>4. FramesOK(h, t, Len(d.blocks), more)
  <2>1. n > 1 => Calls(h, s[n - 1], s[n])
    BY <1>1, <1>2 DEF FramesOK
  <2>2. n > 1 => Calls(h, s[n - 1], t[n])
    BY <1>1, <2>1 DEF Calls
  <2> QED BY <1>1, <1>2, <1>3, <2>2, NextFrames
<1>5. Free(h, c, d, s) = Mine(h, c, s)
  <2>1. Mine(h, c, s) \subseteq Open(c)
    BY <1>1, <1>2, MineIsMine
  <2> QED BY <1>2, <2>1 DEF Free
<1>6. Owed(h, t[n]) = Owed(h, s[n]) /\ t[n].is = s[n].is
  BY <1>1
<1>7. Mine(h, c, s) = Owed(h, s[n]) \cup (IF s[n].is = "dataflow" THEN {c.pos} ELSE {})
  BY DEF Mine
<1>8. Ledger(h, d, t)
  <2>1. \A k \in n .. Len(t) : Owed(h, t[k]) \subseteq Free(h, c, d, s)
    BY <1>3, <1>5, <1>6, <1>7
  <2>2. \A b \in Free(h, c, d, s) \ {d.pos} : \E k \in n .. Len(t) : b \in Owed(h, t[k])
    BY <1>3, <1>5, <1>6, <1>7
  <2>3. \A k, l \in n .. Len(t) : k # l => Owed(h, t[k]) \cap Owed(h, t[l]) = {}
    BY <1>3
  <2> QED BY <1>1, <1>2, <1>3, <2>1, <2>2, <2>3, NextLedger
<1>9. Placed(h, d, t)
  <2>1. s[n].is = "dataflow" => \A k \in 1 .. n : c.pos \notin Owed(h, s[k])
    BY <1>2 DEF Placed
  <2>2. t[n].is = "dataflow" => d.pos \in Free(h, c, d, s) /\ \A k \in n .. Len(t) : d.pos \notin Owed(h, t[k])
    BY <1>1, <1>3, <1>5, <1>6, <1>7, <2>1
  <2>3. t[n].is # "dataflow" => d.pos = t[n].home
    BY <1>1, <1>2 DEF Placed
  <2>4. \A k \in n .. Len(t) : t[k].is = "cfg" => t[k].home \notin Open(d)
    BY <1>1, <1>2, <1>3 DEF Placed
  <2> QED BY <1>1, <1>2, <1>3, <2>2, <2>3, <2>4, NextPlaced
<1> QED BY <1>4, <1>8, <1>9 DEF Sound, t

\* A dataflow parent whose emitter closes the block the builder stood in, and
\* goes on in a new one.
LEMMA ReplaceMoves ==
  ASSUME NEW h, NEW c, NEW d, NEW s, NEW boxes, NEW more, NEW f,
         Sound(h, c, s, boxes), s # <<>>, CodeOK(d), boxes \subseteq more,
         Len(d.blocks) >= Len(c.blocks), d.pos \notin DOMAIN c.blocks,
         Open(d) = (Open(c) \ {c.pos}) \cup {d.pos},
         FrameOK(h, f, Len(d.blocks), more), Last(s).is = "dataflow",
         f.is = "dataflow", f.node = Last(s).node
  PROVE  Sound(h, d, Append(Front(s), f), more)
<1> DEFINE n == Len(s)
           t == Append(Front(s), f)
<1>1. Same(s, t) /\ Len(t) = n /\ t[n] = f /\ n \in Nat \ {0} /\ Last(s) = s[n]
  BY ReplaceFacts, SoundFacts
<1>2. /\ Ledger(h, c, s) /\ Placed(h, c, s) /\ FramesOK(h, s, Len(c.blocks), boxes)
      /\ s[n].is = "dataflow"
      /\ \A k \in 1 .. n : s[k].is = "cfg" => s[k].home \in DOMAIN c.blocks
      /\ Len(c.blocks) \in Nat /\ Open(c) \subseteq DOMAIN c.blocks
      /\ Len(d.blocks) \in Nat
  BY <1>1, SoundFacts, SeqFacts DEF Sound, CodeOK
<1> HIDE DEF t
<1>3. n .. Len(t) = {n} /\ n .. Len(t) - 1 = {} /\ t # <<>> /\ Len(t) \in Nat \ {0}
  BY <1>1, SeqFacts DEF Same
<1>4. FramesOK(h, t, Len(d.blocks), more)
  <2>1. n > 1 => Calls(h, s[n - 1], s[n])
    BY <1>1, <1>2 DEF FramesOK
  <2>2. n > 1 => Calls(h, s[n - 1], t[n])
    BY <1>1, <1>2, <2>1 DEF Calls
  <2> QED BY <1>1, <1>2, <1>3, <2>2, NextFrames
<1>5. Owed(h, t[n]) = {} /\ Owed(h, s[n]) = {} /\ Mine(h, c, s) = {c.pos}
  BY <1>1, <1>2 DEF Owed, Mine
<1>6. Free(h, c, d, s) = {d.pos}
  BY <1>2, <1>5 DEF Free
<1>7. \A b \in DOMAIN c.blocks \ Mine(h, c, s) : b \in Open(d) <=> b \in Open(c)
  BY <1>5
<1>8. Ledger(h, d, t)
  <2>1. \A k \in n .. Len(t) : Owed(h, t[k]) \subseteq Free(h, c, d, s)
    BY <1>3, <1>5
  <2>2. \A b \in Free(h, c, d, s) \ {d.pos} : \E k \in n .. Len(t) : b \in Owed(h, t[k])
    BY <1>6
  <2>3. \A k, l \in n .. Len(t) : k # l => Owed(h, t[k]) \cap Owed(h, t[l]) = {}
    BY <1>3
  <2> QED BY <1>1, <1>2, <1>3, <1>7, <2>1, <2>2, <2>3, NextLedger
<1>9. Placed(h, d, t)
  <2>1. d.pos \in Free(h, c, d, s) /\ \A k \in n .. Len(t) : d.pos \notin Owed(h, t[k])
    BY <1>3, <1>5, <1>6
  <2>2. \A k \in n .. Len(t) : t[k].is = "dataflow"
    BY <1>1, <1>3
  <2> QED BY <1>1, <1>2, <1>3, <1>7, <2>1, <2>2, NextPlaced
<1> QED BY <1>4, <1>8, <1>9 DEF Sound, t

LEMMA PushSound ==
  ASSUME NEW h, NEW c, NEW d, NEW s, NEW boxes, NEW more, NEW f, NEW g,
         Sound(h, c, s, boxes), s # <<>>, CodeOK(d), boxes \subseteq more,
         Len(d.blocks) \in Nat, Len(d.blocks) >= Len(c.blocks),
         \A b \in DOMAIN c.blocks \ Mine(h, c, s) : b \in Open(d) <=> b \in Open(c),
         FrameOK(h, f, Len(d.blocks), more), FrameOK(h, g, Len(d.blocks), more),
         f.is = Last(s).is, f.node = Last(s).node, Calls(h, f, g),
         Owed(h, f) \cup Owed(h, g) \subseteq Free(h, c, d, s),
         Owed(h, f) \cap Owed(h, g) = {},
         Free(h, c, d, s) \subseteq Owed(h, f) \cup Owed(h, g) \cup {d.pos},
         g.is = "dataflow" => d.pos \in Free(h, c, d, s) \ (Owed(h, f) \cup Owed(h, g)),
         g.is # "dataflow" => d.pos = g.home,
         f.is = "cfg" => f.home \notin Open(d),
         g.is = "cfg" => g.home \notin Open(d)
  PROVE  Sound(h, d, Append(Append(Front(s), f), g), more)
<1> DEFINE n == Len(s)
           t == Append(Append(Front(s), f), g)
<1>1. /\ Same(s, t) /\ Len(t) = n + 1 /\ t[n] = f /\ t[n + 1] = g
      /\ n \in Nat \ {0} /\ Last(s) = s[n]
  BY PushFacts, SoundFacts
<1>2. /\ Ledger(h, c, s) /\ Placed(h, c, s) /\ FramesOK(h, s, Len(c.blocks), boxes)
      /\ s[n].is \in {"dataflow", "conditional", "cfg"}
      /\ \A k \in 1 .. n : s[k].is = "cfg" => s[k].home \in DOMAIN c.blocks
      /\ Len(c.blocks) \in Nat /\ Open(c) \subseteq DOMAIN c.blocks
  BY SoundFacts DEF Sound
<1> HIDE DEF t
<1>3. /\ n .. Len(t) = {n, n + 1} /\ n .. Len(t) - 1 = {n}
      /\ t # <<>> /\ Len(t) \in Nat \ {0} /\ n # n + 1
  BY <1>1, SeqFacts DEF Same
<1>4. FramesOK(h, t, Len(d.blocks), more)
  <2>1. n > 1 => Calls(h, s[n - 1], s[n])
    BY <1>1, <1>2 DEF FramesOK
  <2>2. n > 1 => Calls(h, s[n - 1], t[n])
    BY <1>1, <2>1 DEF Calls
  <2>3. \A k \in n .. Len(t) - 1 : Calls(h, t[k], t[k + 1])
    BY <1>1, <1>3
  <2>4. \A k \in n .. Len(t) : FrameOK(h, t[k], Len(d.blocks), more)
    BY <1>1, <1>3
  <2> QED BY <1>1, <1>2, <2>2, <2>3, <2>4, NextFrames
<1>5. Ledger(h, d, t)
  <2>1. \A k \in n .. Len(t) : Owed(h, t[k]) \subseteq Free(h, c, d, s)
    BY <1>1, <1>3
  <2>2. \A b \in Free(h, c, d, s) \ {d.pos} : \E k \in n .. Len(t) : b \in Owed(h, t[k])
    BY <1>1, <1>3
  <2>3. \A k, l \in n .. Len(t) : k # l => Owed(h, t[k]) \cap Owed(h, t[l]) = {}
    BY <1>1, <1>3
  <2> QED BY <1>1, <1>2, <1>3, <2>1, <2>2, <2>3, NextLedger
<1>6. Placed(h, d, t)
  <2>1. t[Len(t)] = g
    BY <1>1
  <2>2. t[Len(t)].is = "dataflow" => d.pos \in Free(h, c, d, s) /\ \A k \in n .. Len(t) : d.pos \notin Owed(h, t[k])
    BY <1>1, <1>3, <2>1
  <2>3. t[Len(t)].is # "dataflow" => d.pos = t[Len(t)].home
    BY <2>1
  <2>4. \A k \in n .. Len(t) : t[k].is = "cfg" => t[k].home \notin Open(d)
    BY <1>1, <1>3
  <2> QED BY <1>1, <1>2, <1>3, <2>2, <2>3, <2>4, NextPlaced
<1> QED BY <1>4, <1>5, <1>6 DEF Sound, t

LEMMA PopSound ==
  ASSUME NEW h, NEW c, NEW d, NEW s, NEW boxes,
         Sound(h, c, s, boxes), s # <<>>, CodeOK(d),
         Len(d.blocks) \in Nat, Len(d.blocks) >= Len(c.blocks),
         \A b \in DOMAIN c.blocks \ Mine(h, c, s) : b \in Open(d) <=> b \in Open(c),
         Free(h, c, d, s) \subseteq {d.pos},
         Len(s) > 1 => IF s[Len(s) - 1].is = "dataflow" THEN d.pos \in Free(h, c, d, s)
                       ELSE d.pos = s[Len(s) - 1].home
  PROVE  Sound(h, d, Front(s), boxes)
<1> DEFINE n == Len(s)
           t == Front(s)
<1>1. Same(s, t) /\ Len(t) = n - 1 /\ n \in Nat \ {0}
  BY FrontFacts, SoundFacts
<1>2. /\ Ledger(h, c, s) /\ Placed(h, c, s) /\ FramesOK(h, s, Len(c.blocks), boxes)
      /\ s[n].is \in {"dataflow", "conditional", "cfg"}
      /\ \A k \in 1 .. n : s[k].is = "cfg" => s[k].home \in DOMAIN c.blocks
      /\ Len(c.blocks) \in Nat
  BY SoundFacts DEF Sound
<1> HIDE DEF t
<1>3. n .. Len(t) = {} /\ n .. Len(t) - 1 = {} /\ Len(t) \in Nat
  BY <1>1
<1>4. FramesOK(h, t, Len(d.blocks), boxes)
  BY <1>1, <1>2, <1>3, NextFrames
<1>5. Ledger(h, d, t)
  BY <1>1, <1>2, <1>3, NextLedger
<1>6. ASSUME t # <<>> PROVE Placed(h, d, t)
  <2>1. Len(t) \in Nat \ {0} /\ n > 1
    BY <1>1, <1>6, SeqFacts DEF Same
  <2>2. t[Len(t)] = s[n - 1]
    BY <1>1, <2>1 DEF Same
  <2>3. /\ t[Len(t)].is = "dataflow" => d.pos \in Free(h, c, d, s)
        /\ t[Len(t)].is # "dataflow" => d.pos = t[Len(t)].home
    BY <2>1, <2>2
  <2> QED BY <1>1, <1>2, <1>3, <2>1, <2>3, NextPlaced
<1> QED BY <1>4, <1>5, <1>6 DEF Sound, t

\* The nodes X are visited, and what was to come is among them or still to come.
LEMMA NextVisited ==
  ASSUME NEW h, NEW s, NEW t, NEW defs, NEW S, NEW X, Len(s) \in Nat \ {0}, Len(t) \in Nat,
         VisitedAre(h, s, defs, S), Same(s, t), X \subseteq NodesOf(h),
         \A m \in ToCome(h, s[Len(s)]) : m \in X \/ \E k \in Len(s) .. Len(t) :
             t[k].node = s[Len(s)].node /\ m \in ToCome(h, t[k]),
         \A n \in X : \A m \in ChildrenOf(h, n) : \E k \in Len(s) .. Len(t) :
             t[k].node = n /\ m \in ToCome(h, t[k])
  PROVE  VisitedAre(h, t, FuncDefns(h, S \cup X), S \cup X)
<1> DEFINE n == Len(s)
<1>1. /\ \A k \in n .. Len(t) : k \in 1 .. Len(t)
      /\ \A k \in 1 .. n : k = n \/ (k \in 1 .. n - 1 /\ k \in 1 .. Len(t) /\ t[k] = s[k])
  BY DEF Same
<1>2. ASSUME NEW a \in S \cup X, NEW m \in ChildrenOf(h, a)
      PROVE  m \in S \cup X \/ \E k \in 1 .. Len(t) : t[k].node = a /\ m \in ToCome(h, t[k])
  <2>1. CASE a \in X
    BY <1>1, <2>1
  <2>2. CASE a \in S /\ m \notin S
    <3>1. PICK k \in 1 .. n : s[k].node = a /\ m \in ToCome(h, s[k])
      BY <2>2 DEF VisitedAre
    <3>2. CASE k = n
      BY <1>1, <3>1, <3>2
    <3>3. CASE k # n
      BY <1>1, <3>1, <3>3
    <3> QED BY <3>2, <3>3
  <2> QED BY <2>1, <2>2
<1> QED BY <1>2 DEF VisitedAre

-----------------------------------------------------------------------------
(* Facts about functions, from HugrAssumption.                             *)

LEMMA KidsFacts ==
  ASSUME NEW h \in Hugrs, NEW n \in NodesOf(h)
  PROVE  /\ h.kids[n] \in Seq(NodesOf(h)) /\ Len(h.kids[n]) \in Nat
         /\ DOMAIN h.kids[n] = 1 .. Len(h.kids[n])
         /\ ChildrenOf(h, n) \subseteq NodesOf(h)
         /\ \A i \in 1 .. Len(h.kids[n]) : h.kids[n][i] \in ChildrenOf(h, n)
         /\ \A m \in ChildrenOf(h, n) : \E i \in 1 .. Len(h.kids[n]) : m = h.kids[n][i]
         /\ \A m \in ChildrenOf(h, n) : n < m
         /\ ChildrenFit(h, n) /\ h.kind[n] \in Kind /\ n \in Nat
<1>1. /\ h.kids \in [NodesOf(h) -> Seq(NodesOf(h))] /\ h.kind \in [NodesOf(h) -> Kind]
      /\ NodesOf(h) \subseteq Nat /\ ChildrenFit(h, n)
      /\ \A m \in ChildrenOf(h, n) : n < m
  BY HugrAssumption
<1>2. h.kids[n] \in Seq(NodesOf(h))
  BY <1>1
<1>3. h.kind[n] \in Kind
  BY <1>1
<1> DEFINE kids == h.kids[n]
<1>4. ChildrenOf(h, n) = {kids[i] : i \in DOMAIN kids}
  BY DEF ChildrenOf, ToSet
<1> HIDE DEF kids
<1>5. /\ Len(kids) \in Nat /\ DOMAIN kids = 1 .. Len(kids)
      /\ \A i \in 1 .. Len(kids) : kids[i] \in NodesOf(h)
  BY <1>2 DEF kids
<1>6. /\ ChildrenOf(h, n) \subseteq NodesOf(h)
      /\ \A i \in 1 .. Len(kids) : kids[i] \in ChildrenOf(h, n)
      /\ \A m \in ChildrenOf(h, n) : \E i \in 1 .. Len(kids) : m = kids[i]
  BY <1>4, <1>5
<1>7. n \in Nat
  BY <1>1
<1> QED BY <1>1, <1>2, <1>3, <1>5, <1>6, <1>7 DEF kids

LEMMA RegionFacts ==
  ASSUME NEW h \in Hugrs, NEW n \in NodesOf(h), IsRegion(h, n), NEW kind \in {"Input", "Output"}
  PROVE  TheChild(h, n, kind) \in NodesOf(h)
<1>1. HasOne(h, n, kind)
  BY KidsFacts DEF ChildrenFit
<1>2. PICK m \in ChildrenOf(h, n) : \A k \in ChildrenOf(h, n) : h.kind[k] = kind <=> k = m
  BY <1>1 DEF HasOne
<1>3. \E k \in ChildrenOf(h, n) : h.kind[k] = kind
  BY <1>2
<1>4. TheChild(h, n, kind) \in ChildrenOf(h, n)
  BY <1>3 DEF TheChild
<1> QED BY <1>4, KidsFacts

\* The rows of mailboxes are sequences.
LEMMA AnonymousFacts ==
  ASSUME NEW name \in {"ret", "exit", "case"}, NEW n, NEW k \in Nat
  PROVE  /\ IsSeq(AnonymousRow(name, n, k)) /\ Len(AnonymousRow(name, n, k)) = k
         /\ ToSet(AnonymousRow(name, n, k)) \subseteq {name} \X {n} \X Nat
<1> DEFINE row == AnonymousRow(name, n, k)
<1>1. row = [i \in 1 .. k |-> <<name, n, i>>]
  BY DEF AnonymousRow
<1>2. IsSeq(row) /\ Len(row) = k
  BY <1>1, FunSeq
<1>3. ToSet(row) \subseteq {name} \X {n} \X Nat
  BY <1>1 DEF ToSet
<1> QED BY <1>2, <1>3

LEMMA RowFacts ==
  ASSUME hugr \in Hugrs, NEW n \in NodesOf(hugr)
  PROVE  /\ IsSeq(InsRow(n)) /\ Len(InsRow(n)) = Len(hugr.ins[n]) /\ Len(hugr.ins[n]) \in Nat
         /\ IsSeq(OutsRow(n)) /\ Len(OutsRow(n)) = hugr.nout[n] /\ hugr.nout[n] \in Nat
         /\ ToSet(InsRow(n)) \subseteq Mailbox /\ ToSet(OutsRow(n)) \subseteq Mailbox
<1>1. /\ hugr.ins[n] \in Seq(NodesOf(hugr) \X Nat)
      /\ hugr.nout[n] \in Nat
  <2>1. /\ hugr.ins \in [NodesOf(hugr) -> Seq(NodesOf(hugr) \X Nat)]
        /\ hugr.nout \in [NodesOf(hugr) -> Nat]
    BY HugrAssumption
  <2> QED BY <2>1
<1>2. InsRow(n) = [i \in 1 .. Len(hugr.ins[n]) |-> <<"wire", hugr.ins[n][i][1], hugr.ins[n][i][2]>>]
  BY <1>1 DEF InsRow, WireBox
<1>3. OutsRow(n) = [p \in 1 .. hugr.nout[n] |-> <<"wire", n, p>>]
  BY DEF OutsRow, WireBox
<1>4. Len(hugr.ins[n]) \in Nat
  BY <1>1
<1>5. IsSeq(InsRow(n)) /\ Len(InsRow(n)) = Len(hugr.ins[n])
  BY <1>2, <1>4, FunSeq
<1>6. IsSeq(OutsRow(n)) /\ Len(OutsRow(n)) = hugr.nout[n]
  BY <1>1, <1>3, FunSeq
<1>7. ToSet(OutsRow(n)) \subseteq Mailbox
  BY <1>3 DEF ToSet, Mailbox
<1>8. ASSUME NEW i \in 1 .. Len(hugr.ins[n]) PROVE InsRow(n)[i] \in Mailbox
  <2>1. hugr.ins[n][i] \in NodesOf(hugr) \X Nat
    BY <1>1
  <2>2. hugr.ins[n][i][1] \in NodesOf(hugr) /\ hugr.ins[n][i][2] \in Nat
    BY <2>1
  <2>3. InsRow(n)[i] = <<"wire", hugr.ins[n][i][1], hugr.ins[n][i][2]>>
    BY <1>2
  <2> QED BY <2>2, <2>3 DEF Mailbox
<1>9. ToSet(InsRow(n)) \subseteq Mailbox
  BY <1>2, <1>8 DEF ToSet
<1> QED BY <1>1, <1>4, <1>5, <1>6, <1>7, <1>9

LEMMA ExitRowFacts ==
  ASSUME hugr \in Hugrs, NEW n \in NodesOf(hugr)
  PROVE  /\ IsSeq(ExitRow(n)) /\ Len(ExitRow(n)) = hugr.nout[n]
         /\ ToSet(ExitRow(n)) \subseteq Mailbox
<1>1. hugr.nout[n] \in Nat
  BY RowFacts
<1>2. IsSeq(ExitRow(n)) /\ Len(ExitRow(n)) = hugr.nout[n] /\ ToSet(ExitRow(n)) \subseteq {"exit"} \X {n} \X Nat
  BY <1>1, AnonymousFacts DEF ExitRow
<1> QED BY <1>2 DEF Mailbox

LEMMA CaseRowFacts ==
  ASSUME hugr \in Hugrs, NEW n \in NodesOf(hugr), IsRegion(hugr, n)
  PROVE  IsSeq(CaseRow(n)) /\ ToSet(CaseRow(n)) \subseteq Mailbox /\ Len(CaseRow(n)) \in Nat
<1> DEFINE k == hugr.nout[TheChild(hugr, n, "Input")]
<1>1. k \in Nat
  BY RegionFacts, RowFacts
<1> HIDE DEF k
<1>2. /\ IsSeq(AnonymousRow("case", n, k)) /\ Len(AnonymousRow("case", n, k)) = k
      /\ ToSet(AnonymousRow("case", n, k)) \subseteq {"case"} \X {n} \X Nat
  BY <1>1, AnonymousFacts
<1> QED BY <1>1, <1>2 DEF Mailbox, CaseRow, k

LEMMA InputRowFacts ==
  ASSUME hugr \in Hugrs, NEW n \in NodesOf(hugr), hugr.kind[n] = "CFG", NEW m \in CfgBlocks(hugr, n)
  PROVE  IsSeq(InputRow(n, m)) /\ ToSet(InputRow(n, m)) \subseteq Mailbox /\ Len(InputRow(n, m)) \in Nat
<1>1. CASE m = Exit(n)
  BY <1>1, ExitRowFacts, RowFacts DEF InputRow
<1>2. CASE m # Exit(n)
  <2>1. m \in NodesOf(hugr) /\ m \in ChildrenOf(hugr, n)
    BY KidsFacts DEF CfgBlocks
  <2>2. PICK i \in 1 .. Len(hugr.kids[n]) : m = hugr.kids[n][i]
    BY <2>1, KidsFacts
  <2>3. hugr.kind[m] # "ExitBlock"
    BY <1>2, <2>2, KidsFacts DEF ChildrenFit, Exit
  <2>4. IsRegion(hugr, m)
    BY <2>3 DEF CfgBlocks, IsRegion
  <2>5. TheChild(hugr, m, "Input") \in NodesOf(hugr)
    BY <2>1, <2>4, RegionFacts
  <2> QED BY <1>2, <2>5, RowFacts DEF InputRow
<1> QED BY <1>1, <1>2

\* Parents come before their children, so the root comes before all nodes.
LEMMA Least ==
  ASSUME NEW S, S \subseteq Nat, S # {}
  PROVE  \E x \in S : \A y \in S : x <= y
<1> DEFINE R == {p \in Nat \X Nat : p[1] < p[2]}
<1>1. IsWellFoundedOn(R, Nat)
  BY NatLessThanWellFounded DEF OpToRel
<1>2. PICK x \in S : \A y \in S : <<y, x>> \notin R
  <2> HIDE DEF R
  <2> QED BY <1>1, WFMin
<1>3. ASSUME NEW y \in S PROVE x <= y
  <2>1. <<y, x>> \in Nat \X Nat /\ <<y, x>>[1] = y /\ <<y, x>>[2] = x
    OBVIOUS
  <2>2. ~(y < x)
    BY <1>2, <2>1
  <2> QED BY <2>2
<1> QED BY <1>3

LEMMA TreeFacts ==
  ASSUME NEW h \in Hugrs
  PROVE  /\ h.root \in NodesOf(h) /\ NodesOf(h) \subseteq Nat
         /\ \A n \in NodesOf(h) : n # h.root =>
              \E p \in NodesOf(h) : p < n /\ n \in ChildrenOf(h, p)
BY HugrAssumption

LEMMA RootIsNoChild ==
  ASSUME NEW h \in Hugrs, NEW n \in NodesOf(h), NEW m \in ChildrenOf(h, n)
  PROVE  m # h.root
<1>1. PICK x \in NodesOf(h) : \A y \in NodesOf(h) : x <= y
  BY TreeFacts, Least
<1>2. x = h.root
  BY <1>1, TreeFacts
<1> QED BY <1>1, <1>2, KidsFacts, TreeFacts

\* When nothing is to come, every node has been visited.
LEMMA AllVisited ==
  ASSUME NEW h \in Hugrs, NEW defs, NEW S, VisitedAre(h, <<>>, defs, S)
  PROVE  S = NodesOf(h)
<1> SUFFICES ASSUME NodesOf(h) \ S # {} PROVE FALSE
  BY DEF VisitedAre
<1> DEFINE R == NodesOf(h) \ S
<1>1. R \subseteq Nat /\ R # {}
  BY TreeFacts
<1>2. PICK x \in R : \A y \in R : x <= y
  <2> HIDE DEF R
  <2> QED BY <1>1, Least
<1>3. PICK p \in NodesOf(h) : p < x /\ x \in ChildrenOf(h, p)
  BY TreeFacts DEF VisitedAre
<1>4. p \in S
  BY <1>2, <1>3, TreeFacts
<1>5. 1 .. Len(<<>>) = {}
  OBVIOUS
<1> QED BY <1>3, <1>4, <1>5 DEF VisitedAre

-----------------------------------------------------------------------------
(* What the steps have in common.                                          *)

LEMMA AllocateFacts ==
  ASSUME NEW rows, Allocate(rows), mailboxes \subseteq Mailbox,
         \A row \in rows : ToSet(row) \subseteq Mailbox
  PROVE  /\ mailboxes \subseteq mailboxes' /\ mailboxes' \subseteq Mailbox
         /\ \A row \in rows : ToSet(row) \subseteq mailboxes'
BY DEF Allocate

LEMMA CodeFacts ==
  ASSUME NEW d, CodeOK(d), SetCode(d)
  PROVE  Code' = d
BY DEF CodeOK, SetCode, Code

LEMMA Stepped ==
  ASSUME IInv, hugr' = hugr, phase' \in {"emitting", "panicked"},
         NEW d, SetCode(d), Sound(hugr, d, stack', mailboxes'), mailboxes' \subseteq Mailbox,
         NEW S, VisitedAre(hugr, stack', todo', S)
  PROVE  IInv'
<1>1. Code' = d
  BY CodeFacts DEF Sound
<1>2. Sound(hugr, Code, stack, mailboxes)'
  BY <1>1
<1>3. Mailbox' = Mailbox
  BY DEF Mailbox
<1>4. S \in SUBSET NodesOf(hugr)
  BY DEF VisitedAre
<1>5. VisitedAre(hugr, stack, todo, S)'
  OBVIOUS
<1> QED BY <1>2, <1>3, <1>4, <1>5 DEF IInv

LEMMA TopFacts ==
  ASSUME IInv, NEW is, Running(is)
  PROVE  /\ hugr \in Hugrs /\ phase = "emitting"
         /\ Sound(hugr, Code, stack, mailboxes) /\ CodeOK(Code)
         /\ IsSeq(stack) /\ stack # <<>> /\ Len(stack) \in Nat \ {0}
         /\ Top = stack[Len(stack)] /\ Top.is = is
         /\ Code.pos = pos /\ Code.blocks = blocks
         /\ Len(blocks) \in Nat /\ DOMAIN blocks = 1 .. Len(blocks) /\ pos \in DOMAIN blocks
         /\ FrameOK(hugr, Top, Len(blocks), mailboxes)
         /\ Ledger(hugr, Code, stack) /\ Placed(hugr, Code, stack)
         /\ Open(Code) \subseteq DOMAIN blocks
         /\ mailboxes \subseteq Mailbox
<1>1. Code.pos = pos /\ Code.blocks = blocks
  BY DEF Code
<1>2. Sound(hugr, Code, stack, mailboxes) /\ stack # <<>> /\ Top.is = is /\ phase = "emitting"
  BY DEF IInv, Running
<1>3. Top = stack[Len(stack)] /\ Len(stack) \in Nat \ {0} /\ IsSeq(stack)
  BY <1>2, SoundFacts DEF Top
<1>4. FrameOK(hugr, Top, Len(blocks), mailboxes)
  BY <1>1, <1>2, <1>3, SoundFacts
<1> QED BY <1>1, <1>2, <1>3, <1>4, SoundFacts DEF IInv, Sound, CodeOK

-----------------------------------------------------------------------------
(* The children of a dataflow parent.                                      *)

LEMMA LeftFrame ==
  ASSUME NEW a, NEW b, NEW c, NEW d, NEW e, NEW x, NEW f,
         f = [is |-> a, node |-> b, inputs |-> c, outputs |-> d, left |-> e]
  PROVE  [f EXCEPT !.left = x]
           = [is |-> a, node |-> b, inputs |-> c, outputs |-> d, left |-> x]
OBVIOUS

LEMMA VisitFacts ==
  ASSUME IInv, NEW n, Visit(n)
  PROVE  LET v == Visited(n)
         IN  /\ n \in NodesOf(hugr) /\ n \in ChildrenOf(hugr, Top.node) /\ n \in Top.left
             /\ v.is = "dataflow" /\ v.node = Top.node /\ v.left = Top.left \ {n}
             /\ v.inputs = Top.inputs /\ v.outputs = Top.outputs
             /\ \A size \in Nat : \A boxes : size >= Len(blocks) /\ mailboxes \subseteq boxes
                  => FrameOK(hugr, v, size, boxes)
             /\ IsDataflow(hugr, Top, Len(blocks), mailboxes)
             /\ pos \in Open(Code) \ {1} /\ Mine(hugr, Code, stack) = {pos}
             /\ Owed(hugr, v) = {} /\ Owed(hugr, Top) = {}
             /\ ToCome(hugr, v) = Top.left \ {n} /\ ToCome(hugr, Top) = Top.left
<1> DEFINE v == Visited(n)
<1>1. Running("dataflow") /\ n \in Top.left
  BY DEF Visit
<1>2. IsDataflow(hugr, Top, Len(blocks), mailboxes)
  BY <1>1, TopFacts DEF FrameOK, IsConditional, IsCfg
<1>3. v = [is |-> "dataflow", node |-> Top.node, inputs |-> Top.inputs,
           outputs |-> Top.outputs, left |-> Top.left \ {n}]
  <2>1. Top = [is |-> "dataflow", node |-> Top.node, inputs |-> Top.inputs,
               outputs |-> Top.outputs, left |-> Top.left]
    BY <1>2 DEF IsDataflow
  <2> QED BY <2>1, LeftFrame DEF Visited
<1>4. /\ v.is = "dataflow" /\ v.node = Top.node /\ v.left = Top.left \ {n}
      /\ v.inputs = Top.inputs /\ v.outputs = Top.outputs
  BY <1>3
<1>5. n \in ChildrenOf(hugr, Top.node) /\ n \in NodesOf(hugr)
  BY <1>1, <1>2, TopFacts, KidsFacts DEF IsDataflow
<1>6. ASSUME NEW size \in Nat, NEW boxes, size >= Len(blocks), mailboxes \subseteq boxes
      PROVE  FrameOK(hugr, v, size, boxes)
  <2>1. IsDataflow(hugr, v, Len(blocks), mailboxes)
    <3> HIDE DEF v
    <3> QED BY <1>2, <1>3, <1>4 DEF IsDataflow
  <2> QED BY <1>1, <1>6, <2>1, TopFacts, FrameGrows DEF FrameOK
<1>7. /\ pos \in Open(Code) \ {1} /\ Top = stack[Len(stack)] /\ Code.pos = pos /\ Top.is = "dataflow"
  BY <1>1, TopFacts DEF Placed
<1>8. Owed(hugr, v) = {} /\ Owed(hugr, Top) = {} /\ ToCome(hugr, v) = v.left /\ ToCome(hugr, Top) = Top.left
  <2> HIDE DEF v
  <2> QED BY <1>4, <1>7 DEF Owed, ToCome
<1>9. Mine(hugr, Code, stack) = {pos}
  BY <1>7, <1>8 DEF Mine
<1> QED BY <1>1, <1>2, <1>4, <1>5, <1>6, <1>7, <1>8, <1>9

\* Visiting n, along with the definitions it hands on.
LEMMA VisitedDefns ==
  ASSUME NEW h, NEW S, NEW n, n # h.root
  PROVE  FuncDefns(h, S \cup {n}) =
           IF h.kind[n] = "FuncDefn" THEN FuncDefns(h, S) \cup {n} ELSE FuncDefns(h, S)
BY DEF FuncDefns

LEMMA VisitDone ==
  ASSUME IInv, NEW n, Visit(n), ChildrenOf(hugr, n) = {},
         hugr' = hugr, phase' = phase, NEW d, SetCode(d),
         stack' = ReplaceTop(Visited(n)), Sound(hugr, d, stack', mailboxes'),
         mailboxes' \subseteq Mailbox,
         todo' = IF hugr.kind[n] = "FuncDefn" THEN todo \cup {n} ELSE todo
  PROVE  IInv'
<1> DEFINE v == Visited(n)
           t == Append(Front(stack), v)
<1>1. Running("dataflow")
  BY DEF Visit
<1>2. /\ hugr \in Hugrs /\ stack # <<>> /\ IsSeq(stack) /\ Len(stack) \in Nat \ {0}
      /\ Top = stack[Len(stack)] /\ Top.is = "dataflow" /\ phase = "emitting"
  BY <1>1, TopFacts
<1>3. /\ n \in NodesOf(hugr) /\ n \in ChildrenOf(hugr, Top.node)
      /\ v.node = Top.node /\ Top.node \in NodesOf(hugr)
      /\ ToCome(hugr, v) = Top.left \ {n} /\ ToCome(hugr, Top) = Top.left
  BY <1>2, VisitFacts DEF IsDataflow
<1>4. stack' = t
  BY DEF ReplaceTop
<1> HIDE DEF v
<1>5. PICK S \in SUBSET NodesOf(hugr) : VisitedAre(hugr, stack, todo, S)
  BY DEF IInv
<1>6. Same(stack, t) /\ Len(t) = Len(stack) /\ t[Len(stack)] = v
  BY <1>2, ReplaceFacts
<1> HIDE DEF t
<1>7. VisitedAre(hugr, t, FuncDefns(hugr, S \cup {n}), S \cup {n})
  <2>1. Len(stack) \in Len(stack) .. Len(t)
    BY <1>2, <1>6
  <2>2. \A m \in ToCome(hugr, stack[Len(stack)]) : m \in {n} \/ \E k \in Len(stack) .. Len(t) :
           t[k].node = stack[Len(stack)].node /\ m \in ToCome(hugr, t[k])
    BY <1>2, <1>3, <1>6, <2>1
  <2> QED BY <1>2, <1>3, <1>5, <1>6, <2>2, NextVisited
<1>8. FuncDefns(hugr, S \cup {n}) = todo'
  <2>1. FuncDefns(hugr, S \cup {n}) = IF hugr.kind[n] = "FuncDefn" THEN todo \cup {n} ELSE todo
    <3>1. n # hugr.root /\ todo = FuncDefns(hugr, S)
      BY <1>2, <1>3, <1>5, RootIsNoChild DEF VisitedAre
    <3> QED BY <3>1, VisitedDefns
  <2> QED BY <2>1
<1>9. VisitedAre(hugr, stack', todo', S \cup {n})
  BY <1>4, <1>7, <1>8
<1> QED BY <1>2, <1>9, Stepped

\* An emitter that leaves the builder in its block.
LEMMA VisitLeaf ==
  ASSUME IInv, NEW n, Visit(n), ChildrenOf(hugr, n) = {},
         hugr' = hugr, phase' = phase, NEW d, SetCode(d), CodeOK(d),
         d.pos = pos, Len(d.blocks) = Len(blocks), Open(d) = Open(Code),
         mailboxes \subseteq mailboxes', mailboxes' \subseteq Mailbox,
         stack' = ReplaceTop(Visited(n)),
         todo' = IF hugr.kind[n] = "FuncDefn" THEN todo \cup {n} ELSE todo
  PROVE  IInv'
<1> DEFINE v == Visited(n)
<1>1. Running("dataflow")
  BY DEF Visit
<1>2. /\ Sound(hugr, Code, stack, mailboxes) /\ stack # <<>> /\ Last(stack) = Top
      /\ Top.is = "dataflow" /\ Code.pos = pos /\ Code.blocks = blocks /\ Len(blocks) \in Nat
  BY <1>1, TopFacts DEF Top
<1>3. /\ v.is = "dataflow" /\ v.node = Top.node
      /\ FrameOK(hugr, v, Len(blocks), mailboxes')
      /\ Owed(hugr, v) = {} /\ Owed(hugr, Top) = {}
  BY <1>2, VisitFacts
<1>4. stack' = Append(Front(stack), v)
  BY DEF ReplaceTop
<1> HIDE DEF v
<1>5. Sound(hugr, d, stack', mailboxes')
  BY <1>2, <1>3, <1>4, ReplaceSound
<1> QED BY <1>5, VisitDone

\* An emitter that leaves the builder at the end of a block of its own.
LEMMA VisitMoves ==
  ASSUME IInv, NEW n, Visit(n), ChildrenOf(hugr, n) = {},
         hugr' = hugr, phase' = phase, NEW d, SetCode(d), CodeOK(d),
         Len(d.blocks) >= Len(blocks), d.pos \notin DOMAIN blocks,
         Open(d) = (Open(Code) \ {pos}) \cup {d.pos},
         mailboxes \subseteq mailboxes', mailboxes' \subseteq Mailbox,
         stack' = ReplaceTop(Visited(n)), hugr.kind[n] # "FuncDefn", todo' = todo
  PROVE  IInv'
<1> DEFINE v == Visited(n)
<1>1. Running("dataflow")
  BY DEF Visit
<1>2. /\ Sound(hugr, Code, stack, mailboxes) /\ stack # <<>> /\ Last(stack) = Top
      /\ Top.is = "dataflow" /\ Code.pos = pos /\ Code.blocks = blocks
  BY <1>1, TopFacts DEF Top
<1>3. Len(d.blocks) \in Nat
  BY SeqFacts DEF CodeOK
<1>4. /\ v.is = "dataflow" /\ v.node = Top.node
      /\ FrameOK(hugr, v, Len(d.blocks), mailboxes')
  BY <1>2, <1>3, VisitFacts
<1>5. stack' = Append(Front(stack), v)
  BY DEF ReplaceTop
<1> HIDE DEF v
<1>6. Sound(hugr, d, stack', mailboxes')
  BY <1>2, <1>4, <1>5, ReplaceMoves
<1> QED BY <1>6, VisitDone

LEMMA TouchesFacts ==
  ASSUME IInv, NEW n \in NodesOf(hugr), Touches(n)
  PROVE  /\ mailboxes \subseteq mailboxes' /\ mailboxes' \subseteq Mailbox
         /\ ToSet(OutsRow(n)) \subseteq mailboxes'
<1> DEFINE rows == {InsRow(n), OutsRow(n)}
<1>1. hugr \in Hugrs /\ mailboxes \subseteq Mailbox
  BY DEF IInv
<1>2. Allocate(rows) /\ OutsRow(n) \in rows
  BY DEF Touches
<1>3. \A row \in rows : ToSet(row) \subseteq Mailbox
  BY <1>1, RowFacts
<1> HIDE DEF rows
<1> QED BY <1>1, <1>2, <1>3, AllocateFacts

LEMMA ArgsFacts ==
  ASSUME IInv, NEW n, Visit(n)
  PROVE  /\ CodeOK(ArgsRead(n)) /\ ArgsRead(n).pos = pos
         /\ Len(ArgsRead(n).blocks) = Len(blocks)
         /\ Open(ArgsRead(n)) = Open(Code)
<1>1. /\ n \in NodesOf(hugr) /\ pos \in Open(Code) /\ CodeOK(Code)
      /\ Code.pos = pos /\ Code.blocks = blocks /\ hugr \in Hugrs
  BY VisitFacts, TopFacts DEF Visit
<1>2. IsSeq(InsRow(n))
  BY <1>1, RowFacts
<1> QED BY <1>1, <1>2, ReadCode DEF ArgsRead

LEMMA NoKids ==
  ASSUME NEW h \in Hugrs, NEW p \in NodesOf(h), NEW n \in ChildrenOf(h, p),
         h.kind[n] \in Leaf \cup Silent \cup {Guarded, "Input", "Output", "ExitBlock"}
  PROVE  ChildrenOf(h, n) = {}
<1>1. n \in NodesOf(h) /\ n # h.root
  BY KidsFacts, RootIsNoChild
<1>2. ~IsRegion(h, n) /\ h.kind[n] \notin {"Conditional", "CFG"}
  BY <1>1 DEF IsRegion, Leaf, Guarded, Silent
<1>3. h.kids[n] = <<>>
  BY <1>1, <1>2, KidsFacts DEF ChildrenFit
<1> QED BY <1>3 DEF ChildrenOf, ToSet

LEMMA InputStep ==
  ASSUME IInv, NEW n, EmitInput(n)
  PROVE  IInv'
<1> DEFINE d == Write(Code, OutsRow(n), Top.inputs)
<1>1. /\ Visit(n) /\ hugr.kind[n] = "Input" /\ SetCode(d) /\ Touches(n)
      /\ stack' = ReplaceTop(Visited(n)) /\ hugr' = hugr /\ todo' = todo /\ phase' = phase
  BY DEF EmitInput
<1>2. /\ n \in NodesOf(hugr) /\ n \in ChildrenOf(hugr, Top.node) /\ Top.node \in NodesOf(hugr)
      /\ pos \in Open(Code) /\ CodeOK(Code) /\ Code.pos = pos /\ Code.blocks = blocks /\ hugr \in Hugrs
  BY <1>1, VisitFacts, TopFacts DEF Visit, IsDataflow
<1>3. /\ CodeOK(d) /\ d.pos = pos /\ Len(d.blocks) = Len(blocks) /\ Open(d) = Open(Code)
  <2>1. IsSeq(OutsRow(n))
    BY <1>2, RowFacts
  <2> QED BY <1>2, <2>1, WriteCode
<1>4. ChildrenOf(hugr, n) = {}
  BY <1>1, <1>2, NoKids
<1>5. mailboxes \subseteq mailboxes' /\ mailboxes' \subseteq Mailbox
  BY <1>1, <1>2, TouchesFacts
<1> HIDE DEF d
<1> QED BY <1>1, <1>3, <1>4, <1>5, VisitLeaf

LEMMA OutputStep ==
  ASSUME IInv, NEW n, EmitOutput(n)
  PROVE  IInv'
<1> DEFINE d == Write(ArgsRead(n), Top.outputs, Args(n))
<1>1. /\ Visit(n) /\ hugr.kind[n] = "Output" /\ SetCode(d) /\ Touches(n)
      /\ stack' = ReplaceTop(Visited(n)) /\ hugr' = hugr /\ todo' = todo /\ phase' = phase
  BY DEF EmitOutput
<1>2. /\ n \in NodesOf(hugr) /\ n \in ChildrenOf(hugr, Top.node) /\ Top.node \in NodesOf(hugr)
      /\ pos \in Open(Code) /\ IsSeq(Top.outputs) /\ hugr \in Hugrs
  BY <1>1, VisitFacts, TopFacts DEF Visit, IsDataflow
<1>3. /\ CodeOK(d) /\ d.pos = pos /\ Len(d.blocks) = Len(blocks) /\ Open(d) = Open(Code)
  BY <1>1, <1>2, ArgsFacts, WriteCode
<1>4. ChildrenOf(hugr, n) = {}
  BY <1>1, <1>2, NoKids
<1>5. mailboxes \subseteq mailboxes' /\ mailboxes' \subseteq Mailbox
  BY <1>1, <1>2, TouchesFacts
<1> HIDE DEF d
<1> QED BY <1>1, <1>3, <1>4, <1>5, VisitLeaf

LEMMA LeafStep ==
  ASSUME IInv, NEW n, EmitLeaf(n)
  PROVE  IInv'
<1> DEFINE instrs == LeafInstrs(n, Args(n))
           c == Build(ArgsRead(n), instrs)
           vs == Upcoming(ArgsRead(n), Len(instrs))
           d == Write(c, OutsRow(n), vs)
<1>1. /\ Visit(n) /\ hugr.kind[n] \in Leaf /\ SetCode(d) /\ Touches(n)
      /\ stack' = ReplaceTop(Visited(n)) /\ hugr' = hugr /\ todo' = todo /\ phase' = phase
  BY DEF EmitLeaf
<1>2. /\ n \in NodesOf(hugr) /\ n \in ChildrenOf(hugr, Top.node) /\ Top.node \in NodesOf(hugr)
      /\ pos \in Open(Code) /\ hugr \in Hugrs
  BY <1>1, VisitFacts, TopFacts DEF Visit, IsDataflow
<1>3. IsSeq(OutsRow(n)) /\ hugr.nout[n] \in Nat
  BY <1>2, RowFacts
<1>4. Straight(instrs)
  <2>1. CASE hugr.kind[n] = "Tag"
    <3> DEFINE x == MakeTag(hugr.tag[n], Args(n))
    <3>1. ~IsTerminator(x)
      BY DEF MakeTag, IsTerminator
    <3>2. instrs = <<x>>
      BY <2>1 DEF LeafInstrs, TagInstrs
    <3> HIDE DEF x, instrs
    <3>3. IsSeq(<<x>>) /\ Len(<<x>>) = 1 /\ <<x>>[1] = x /\ DOMAIN <<x>> = 1 .. 1
      BY OneSeq, SeqFacts
    <3> QED BY <3>1, <3>2, <3>3 DEF Straight
  <2>2. CASE hugr.kind[n] = "LoadConstant"
    <3> DEFINE x == Constant(hugr.const[n])
    <3>1. ~IsTerminator(x)
      BY DEF Constant, IsTerminator
    <3>2. instrs = <<x>>
      BY <2>2 DEF LeafInstrs, ConstantInstrs
    <3> HIDE DEF x, instrs
    <3>3. IsSeq(<<x>>) /\ Len(<<x>>) = 1 /\ <<x>>[1] = x /\ DOMAIN <<x>> = 1 .. 1
      BY OneSeq, SeqFacts
    <3> QED BY <3>1, <3>2, <3>3 DEF Straight
  <2>3. CASE hugr.kind[n] = "Op"
    <3>1. instrs = [p \in 1 .. hugr.nout[n] |-> Apply(hugr.fn[n], Args(n), p)]
      BY <2>3 DEF LeafInstrs, Applied
    <3>2. \A p : ~IsTerminator(Apply(hugr.fn[n], Args(n), p))
      BY DEF Apply, IsTerminator
    <3> HIDE DEF instrs
    <3>3. IsSeq(instrs) /\ DOMAIN instrs = 1 .. hugr.nout[n]
      BY <1>3, <3>1, FunSeq
    <3> QED BY <3>1, <3>2, <3>3 DEF Straight
  <2> QED BY <1>1, <2>1, <2>2, <2>3 DEF Leaf
<1> HIDE DEF instrs
<1>5. /\ CodeOK(c) /\ c.pos = pos /\ Len(c.blocks) = Len(blocks) /\ Open(c) = Open(Code)
  BY <1>1, <1>2, <1>4, ArgsFacts, StraightCode
<1> HIDE DEF c, vs
<1>6. /\ CodeOK(d) /\ d.pos = pos /\ Len(d.blocks) = Len(blocks) /\ Open(d) = Open(Code)
  BY <1>2, <1>3, <1>5, WriteCode
<1>7. ChildrenOf(hugr, n) = {}
  BY <1>1, <1>2, NoKids
<1>8. mailboxes \subseteq mailboxes' /\ mailboxes' \subseteq Mailbox
  BY <1>1, <1>2, TouchesFacts
<1>9. hugr.kind[n] # "FuncDefn"
  BY <1>1 DEF Leaf
<1> HIDE DEF d
<1> QED BY <1>1, <1>6, <1>7, <1>8, <1>9, VisitLeaf

LEMMA SilentStep ==
  ASSUME IInv, NEW n, EmitSilent(n)
  PROVE  IInv'
<1>1. /\ Visit(n) /\ hugr.kind[n] \in Silent /\ SetCode(Code)
      /\ stack' = ReplaceTop(Visited(n)) /\ hugr' = hugr /\ phase' = phase /\ mailboxes' = mailboxes
      /\ todo' = IF hugr.kind[n] = "FuncDefn" THEN todo \cup {n} ELSE todo
  BY DEF EmitSilent, SetCode, Code
<1>2. /\ n \in ChildrenOf(hugr, Top.node) /\ Top.node \in NodesOf(hugr) /\ hugr \in Hugrs
      /\ CodeOK(Code) /\ Code.pos = pos /\ Code.blocks = blocks /\ mailboxes \subseteq Mailbox
  BY <1>1, VisitFacts, TopFacts DEF Visit, IsDataflow
<1>3. ChildrenOf(hugr, n) = {}
  BY <1>1, <1>2, NoKids
<1> QED BY <1>1, <1>2, <1>3, VisitLeaf

LEMMA UpcomingFacts ==
  ASSUME NEW c, CodeOK(c), NEW k \in Nat
  PROVE  IsSeq(Upcoming(c, k)) /\ ToSet(Upcoming(c, k)) \subseteq (0 .. Len(c.blocks)) \X Nat
<1>1. /\ c.pos \in 1 .. Len(c.blocks) /\ Len(c.blocks) \in Nat /\ Len(c.blocks[c.pos]) \in Nat
  BY SeqFacts DEF CodeOK, EndsWell
<1>2. Upcoming(c, k) = [i \in 1 .. k |-> <<c.pos, Len(c.blocks[c.pos]) + i>>]
  BY DEF Upcoming
<1>3. IsSeq(Upcoming(c, k)) /\ DOMAIN Upcoming(c, k) = 1 .. k
  BY <1>2, FunSeq
<1>4. ASSUME NEW i \in 1 .. k PROVE Upcoming(c, k)[i] \in (0 .. Len(c.blocks)) \X Nat
  BY <1>1, <1>2
<1> QED BY <1>3, <1>4 DEF ToSet

\* The child n is emitted by a call of another emitter.
LEMMA VisitCall ==
  ASSUME IInv, NEW n, Visit(n), hugr.kind[n] # "FuncDefn",
         hugr' = hugr, phase' = phase, todo' = todo,
         NEW d, SetCode(d), CodeOK(d), Len(d.blocks) \in Nat, Len(d.blocks) >= Len(blocks),
         mailboxes \subseteq mailboxes', mailboxes' \subseteq Mailbox,
         NEW g, stack' = Append(ReplaceTop(Visited(n)), g),
         FrameOK(hugr, g, Len(d.blocks), mailboxes'),
         g.node = n, ToCome(hugr, g) = ChildrenOf(hugr, n),
         \A b \in DOMAIN blocks \ {pos} : b \in Open(d) <=> b \in Open(Code),
         NEW free, free = Open(d) \ (DOMAIN blocks \ {pos}),
         Owed(hugr, g) \subseteq free, free \subseteq Owed(hugr, g) \cup {d.pos},
         g.is = "dataflow" => d.pos \in free \ Owed(hugr, g),
         g.is # "dataflow" => d.pos = g.home,
         g.is = "cfg" => g.home \notin Open(d)
  PROVE  IInv'
<1> DEFINE v == Visited(n)
           t == Append(Append(Front(stack), v), g)
<1>1. Running("dataflow")
  BY DEF Visit
<1>2. /\ hugr \in Hugrs /\ Sound(hugr, Code, stack, mailboxes) /\ stack # <<>>
      /\ IsSeq(stack) /\ Len(stack) \in Nat \ {0} /\ Top = stack[Len(stack)] /\ Top.is = "dataflow"
      /\ Code.pos = pos /\ Code.blocks = blocks /\ Len(blocks) \in Nat /\ Last(stack) = Top
      /\ phase = "emitting"
  BY <1>1, TopFacts DEF Top
<1>3. /\ n \in NodesOf(hugr) /\ n \in ChildrenOf(hugr, Top.node)
      /\ v.is = "dataflow" /\ v.node = Top.node
      /\ FrameOK(hugr, v, Len(d.blocks), mailboxes')
      /\ Owed(hugr, v) = {} /\ Top.node \in NodesOf(hugr) /\ Mine(hugr, Code, stack) = {pos}
      /\ ToCome(hugr, v) = Top.left \ {n} /\ ToCome(hugr, Top) = Top.left
  BY <1>2, VisitFacts DEF IsDataflow
<1>4. stack' = t
  BY DEF ReplaceTop
<1> HIDE DEF v
<1>5. Free(hugr, Code, d, stack) = free
  BY <1>2, <1>3 DEF Free
<1>6. Calls(hugr, v, g)
  BY <1>3 DEF Calls
<1>7. Sound(hugr, d, t, mailboxes')
  <2>1. \A b \in DOMAIN Code.blocks \ Mine(hugr, Code, stack) : b \in Open(d) <=> b \in Open(Code)
    BY <1>2, <1>3
  <2>2. /\ Owed(hugr, v) \cup Owed(hugr, g) \subseteq Free(hugr, Code, d, stack)
        /\ Owed(hugr, v) \cap Owed(hugr, g) = {}
        /\ Free(hugr, Code, d, stack) \subseteq Owed(hugr, v) \cup Owed(hugr, g) \cup {d.pos}
        /\ g.is = "dataflow" => d.pos \in Free(hugr, Code, d, stack) \ (Owed(hugr, v) \cup Owed(hugr, g))
    BY <1>3, <1>5
  <2>3. v.is = Last(stack).is /\ v.node = Last(stack).node /\ v.is # "cfg" /\ Len(d.blocks) >= Len(Code.blocks)
    BY <1>2, <1>3
  <2> QED BY <1>2, <1>3, <1>6, <2>1, <2>2, <2>3, PushSound
<1>8. PICK S \in SUBSET NodesOf(hugr) : VisitedAre(hugr, stack, todo, S)
  BY DEF IInv
<1>9. Same(stack, t) /\ Len(t) = Len(stack) + 1 /\ t[Len(stack)] = v /\ t[Len(stack) + 1] = g
  <2>1. IsSeq(stack) /\ stack # <<>>
    BY <1>2
  <2> QED BY <2>1, PushFacts
<1> HIDE DEF t
<1>10. VisitedAre(hugr, t, FuncDefns(hugr, S \cup {n}), S \cup {n})
  <2>1. Len(stack) \in Len(stack) .. Len(t) /\ Len(stack) + 1 \in Len(stack) .. Len(t) /\ Len(t) \in Nat
    BY <1>2, <1>9
  <2>2. \A m \in ToCome(hugr, stack[Len(stack)]) : m \in {n} \/ \E k \in Len(stack) .. Len(t) :
           t[k].node = stack[Len(stack)].node /\ m \in ToCome(hugr, t[k])
    BY <1>2, <1>3, <1>9, <2>1
  <2>3. \A a \in {n} : \A m \in ChildrenOf(hugr, a) : \E k \in Len(stack) .. Len(t) :
           t[k].node = a /\ m \in ToCome(hugr, t[k])
    BY <1>9, <2>1
  <2> QED BY <1>2, <1>3, <1>8, <1>9, <2>1, <2>2, <2>3, NextVisited
<1>11. FuncDefns(hugr, S \cup {n}) = todo
  <2>1. n # hugr.root /\ todo = FuncDefns(hugr, S)
    BY <1>2, <1>3, <1>8, RootIsNoChild DEF VisitedAre
  <2> QED BY <2>1, VisitedDefns
<1>12. VisitedAre(hugr, stack', todo', S \cup {n})
  BY <1>4, <1>10, <1>11
<1> QED BY <1>2, <1>4, <1>7, <1>12, Stepped

LEMMA DfgStep ==
  ASSUME IInv, NEW n, EnterDfg(n)
  PROVE  IInv'
<1> DEFINE d == ArgsRead(n)
           g == DataflowFrame(n, Args(n), OutsRow(n))
<1>1. /\ Visit(n) /\ hugr.kind[n] = "DFG" /\ SetCode(d) /\ Touches(n)
      /\ stack' = Append(ReplaceTop(Visited(n)), g)
      /\ hugr' = hugr /\ todo' = todo /\ phase' = phase
  BY DEF EnterDfg
<1>2. /\ n \in NodesOf(hugr) /\ pos \in Open(Code) /\ hugr \in Hugrs /\ CodeOK(Code)
      /\ Code.pos = pos /\ Code.blocks = blocks /\ Len(blocks) \in Nat /\ Open(Code) \subseteq DOMAIN blocks
  BY <1>1, VisitFacts, TopFacts DEF Visit
<1>3. CodeOK(d) /\ d.pos = pos /\ Len(d.blocks) = Len(blocks) /\ Open(d) = Open(Code)
  BY <1>1, ArgsFacts
<1>4. /\ mailboxes \subseteq mailboxes' /\ mailboxes' \subseteq Mailbox
      /\ ToSet(OutsRow(n)) \subseteq mailboxes'
  BY <1>1, <1>2, TouchesFacts
<1>5. g = [is |-> "dataflow", node |-> n, inputs |-> Args(n), outputs |-> OutsRow(n),
           left |-> ChildrenOf(hugr, n)]
  BY DEF DataflowFrame
<1>6. IsSeq(Args(n)) /\ ToSet(Args(n)) \subseteq (0 .. Len(blocks)) \X Nat
  BY <1>2, RowFacts, UpcomingFacts DEF Args
<1>7. IsSeq(OutsRow(n)) /\ IsRegion(hugr, n)
  BY <1>1, <1>2, RowFacts DEF IsRegion
<1> HIDE DEF d, g
<1>8. /\ g.is = "dataflow" /\ g.node = n /\ g.inputs = Args(n) /\ g.outputs = OutsRow(n)
      /\ g.left = ChildrenOf(hugr, n)
  BY <1>5
<1>9. FrameOK(hugr, g, Len(d.blocks), mailboxes')
  BY <1>2, <1>3, <1>4, <1>5, <1>6, <1>7, <1>8 DEF FrameOK, IsDataflow
<1>10. Owed(hugr, g) = {} /\ ToCome(hugr, g) = ChildrenOf(hugr, n)
  BY <1>8 DEF Owed, ToCome
<1> DEFINE free == Open(d) \ (DOMAIN blocks \ {pos})
<1>11. free = {pos}
  BY <1>2, <1>3
<1>12. \A b \in DOMAIN blocks \ {pos} : b \in Open(d) <=> b \in Open(Code)
  BY <1>3
<1>13. free = Open(d) \ (DOMAIN blocks \ {pos})
  OBVIOUS
<1>14. /\ Owed(hugr, g) \subseteq free /\ free \subseteq Owed(hugr, g) \cup {d.pos}
       /\ d.pos \in free \ Owed(hugr, g) /\ hugr.kind[n] # "FuncDefn"
       /\ Len(d.blocks) \in Nat /\ Len(d.blocks) >= Len(blocks)
  BY <1>1, <1>2, <1>3, <1>10, <1>11
<1> HIDE DEF free
<1> QED BY <1>1, <1>3, <1>4, <1>8, <1>9, <1>10, <1>12, <1>13, <1>14, VisitCall

LEMMA WithExitCode ==
  ASSUME hugr \in Hugrs, NEW n \in NodesOf(hugr), NEW c, CodeOK(c)
  PROVE  /\ CodeOK(WithExit(c, n)) /\ WithExit(c, n).pos = c.pos
         /\ Len(WithExit(c, n).blocks) = Len(c.blocks) + 1
         /\ Open(WithExit(c, n)) = Open(c) \cup {NewBlock(c)}
         /\ NewBlock(c) = Len(c.blocks) + 1 /\ c.pos \in 1 .. Len(c.blocks)
<1> DEFINE exit == NewBlock(c)
           a == AddBlocks(c, 1)
           e == At(a, exit)
           r == Read(e, ExitRow(n))
           moved == Write(r, OutsRow(n), Upcoming(e, hugr.nout[n]))
           d == At(moved, c.pos)
<1>1. d = WithExit(c, n)
  BY DEF WithExit
<1>2. /\ exit = Len(c.blocks) + 1 /\ Len(c.blocks) \in Nat /\ DOMAIN c.blocks = 1 .. Len(c.blocks)
      /\ c.pos \in 1 .. Len(c.blocks)
  BY SeqFacts DEF NewBlock, CodeOK
<1> HIDE DEF exit
<1>3. /\ CodeOK(a) /\ Len(a.blocks) = Len(c.blocks) + 1 /\ DOMAIN a.blocks = 1 .. Len(c.blocks) + 1
      /\ Open(a) = Open(c) \cup {exit}
  <2>1. Len(c.blocks) + 1 .. Len(c.blocks) + 1 = {exit}
    BY <1>2
  <2>2. CodeOK(a) /\ Len(a.blocks) = Len(c.blocks) + 1 /\ Open(a) = Open(c) \cup {exit}
    BY <2>1, AddCode
  <2> QED BY <2>2, SeqFacts DEF CodeOK
<1> HIDE DEF a
<1>4. exit \in DOMAIN a.blocks /\ c.pos \in DOMAIN a.blocks /\ exit \in Open(a)
  BY <1>2, <1>3
<1>5. CodeOK(e) /\ e.pos = exit /\ e.blocks = a.blocks /\ Open(e) = Open(a)
  BY <1>3, <1>4, AtCode
<1> HIDE DEF e
<1>6. CodeOK(r) /\ r.pos = exit /\ Len(r.blocks) = Len(a.blocks) /\ Open(r) = Open(a)
  <2>1. IsSeq(ExitRow(n))
    BY ExitRowFacts
  <2> QED BY <1>4, <1>5, <2>1, ReadCode
<1> HIDE DEF r
<1>7. CodeOK(moved) /\ moved.pos = exit /\ Len(moved.blocks) = Len(a.blocks) /\ Open(moved) = Open(a)
  <2>1. IsSeq(OutsRow(n))
    BY RowFacts
  <2> QED BY <1>4, <1>6, <2>1, WriteCode
<1> HIDE DEF moved
<1>8. CodeOK(d) /\ d.pos = c.pos /\ Len(d.blocks) = Len(c.blocks) + 1 /\ Open(d) = Open(c) \cup {exit}
  <2>1. c.pos \in DOMAIN moved.blocks
    BY <1>3, <1>4, <1>7, SeqFacts DEF CodeOK
  <2> QED BY <1>3, <1>7, <2>1, AtCode
<1> HIDE DEF d
<1> QED BY <1>1, <1>2, <1>8 DEF exit

LEMMA ExitAllocated ==
  ASSUME hugr \in Hugrs, mailboxes \subseteq Mailbox, NEW n \in NodesOf(hugr),
         Allocate({InsRow(n), OutsRow(n), ExitRow(n)})
  PROVE  /\ mailboxes \subseteq mailboxes' /\ mailboxes' \subseteq Mailbox
         /\ ToSet(ExitRow(n)) \subseteq mailboxes'
<1> DEFINE rows == {InsRow(n), OutsRow(n), ExitRow(n)}
<1>1. \A row \in rows : ToSet(row) \subseteq Mailbox
  BY RowFacts, ExitRowFacts
<1>2. ExitRow(n) \in rows /\ Allocate(rows)
  OBVIOUS
<1> HIDE DEF rows
<1> QED BY <1>1, <1>2, AllocateFacts

\* A handler with blocks of its own closes all of them but the exit.
LEMMA AlternativeCode ==
  ASSUME NEW n, hugr.nout[n] \in Nat, NEW b, NEW f, NEW args, NEW exit
  PROVE  LET block == Alternative(b, f, n, args, exit)
         IN  EndsWell(block) /\ ClosedBlock(block)
<1> DEFINE first == Applied(f, args, n)
           second == [p \in DOMAIN ExitRow(n) |-> Store(ExitRow(n)[p], <<b, p>>)]
           block == Alternative(b, f, n, args, exit)
<1>1. Straight(first)
  <2>1. first = [p \in 1 .. hugr.nout[n] |-> Apply(f, args, p)]
    BY DEF Applied
  <2>2. \A p : ~IsTerminator(Apply(f, args, p))
    BY DEF Apply, IsTerminator
  <2> HIDE DEF first
  <2>3. IsSeq(first) /\ DOMAIN first = 1 .. hugr.nout[n]
    BY <2>1, FunSeq
  <2> QED BY <2>1, <2>2, <2>3 DEF Straight
<1>2. Straight(second)
  <2>1. DOMAIN ExitRow(n) = 1 .. hugr.nout[n]
    BY AnonymousFacts, SeqFacts DEF ExitRow
  <2>2. IsSeq(second) /\ DOMAIN second = DOMAIN ExitRow(n)
    BY <2>1, FunSeq
  <2> QED BY <2>2 DEF Straight, Store, IsTerminator
<1>3. IsTerminator(Branch(exit))
  BY DEF IsTerminator, Branch
<1>4. block = (first \o second) \o <<Branch(exit)>>
  BY DEF Alternative
<1> HIDE DEF first, second, block
<1> QED BY <1>1, <1>2, <1>3, <1>4, ClosedCode DEF block

LEMMA TwoBlocks ==
  ASSUME NEW x, NEW y, EndsWell(x), EndsWell(y), ClosedBlock(x), ClosedBlock(y)
  PROVE  /\ AllEndWell(<<x, y>>) /\ Len(<<x, y>>) = 2
         /\ \A i \in 1 .. 2 : ClosedBlock(<<x, y>>[i])
<1>1. <<x, y>> \in Seq({x, y}) /\ DOMAIN <<x, y>> = 1 .. 2 /\ Len(<<x, y>>) = 2
      /\ <<x, y>>[1] = x /\ <<x, y>>[2] = y
  OBVIOUS
<1>2. IsSeq(<<x, y>>)
  BY <1>1, KnownSeq
<1>3. \A i \in 1 .. 2 : i = 1 \/ i = 2
  OBVIOUS
<1> QED BY <1>1, <1>2, <1>3 DEF AllEndWell

LEMMA GuardedCodeFacts ==
  ASSUME hugr \in Hugrs, NEW n \in NodesOf(hugr), NEW c, CodeOK(c), c.pos \in Open(c), NEW args
  PROVE  LET d == GuardedCode(c, n, args)
         IN  /\ CodeOK(d) /\ Len(d.blocks) = Len(c.blocks) + 3
             /\ Open(d) = (Open(c) \ {c.pos}) \cup {NewBlock(c)}
<1> DEFINE exit == NewBlock(c)
           f == hugr.fn[n]
           moved == WithExit(c, n)
           test == Apply(f.test, args, 1)
           tested == Build(moved, <<test>>)
           branch == Switch(Upcoming(moved, 1)[1], <<exit + 2, exit + 1>>)
           a == Build(tested, <<branch>>)
           ok == Alternative(exit + 1, f.ok, n, args, exit)
           bad == Alternative(exit + 2, f.bad, n, args, exit)
           new == <<ok, bad>>
           d == GuardedCode(c, n, args)
<1>1. d = Extend(a, new)
  BY DEF GuardedCode
<1>2. ~IsTerminator(test) /\ IsTerminator(branch)
  BY DEF IsTerminator, Apply, Switch
<1>3. /\ EndsWell(ok) /\ EndsWell(bad) /\ ClosedBlock(ok) /\ ClosedBlock(bad)
  <2>1. hugr.nout[n] \in Nat
    BY RowFacts
  <2> QED BY <2>1, AlternativeCode
<1> HIDE DEF ok, bad, branch, d, test
<1>4. /\ AllEndWell(new) /\ Len(new) = 2 /\ \A i \in 1 .. 2 : ClosedBlock(new[i])
  BY <1>3, TwoBlocks
<1>5. /\ CodeOK(moved) /\ moved.pos = c.pos /\ Len(moved.blocks) = Len(c.blocks) + 1
      /\ Open(moved) = Open(c) \cup {exit} /\ exit = Len(c.blocks) + 1
      /\ c.pos \in 1 .. Len(c.blocks) /\ Len(c.blocks) \in Nat
  BY WithExitCode, SeqFacts DEF CodeOK
<1> HIDE DEF moved, exit, new
<1>6. Straight(<<test>>)
  BY <1>2, OneSeq, SeqFacts DEF Straight
<1>7. CodeOK(tested) /\ tested.pos = c.pos /\ Len(tested.blocks) = Len(c.blocks) + 1
      /\ Open(tested) = Open(c) \cup {exit}
  BY <1>5, <1>6, StraightCode
<1> HIDE DEF tested
<1>8. CodeOK(a) /\ a.pos = c.pos /\ Len(a.blocks) = Len(c.blocks) + 1
      /\ Open(a) = (Open(c) \cup {exit}) \ {c.pos}
  BY <1>2, <1>5, <1>7, TerminateCode
<1> HIDE DEF a
<1> DEFINE k == Len(a.blocks)
<1>9. /\ CodeOK(d) /\ Len(d.blocks) = k + 2
      /\ Open(a) \subseteq 1 .. k /\ Open(d) \subseteq 1 .. k + 2
      /\ \A b \in 1 .. k : b \in Open(d) <=> b \in Open(a)
      /\ \A i \in 1 .. 2 : k + i \notin Open(d)
  BY <1>1, <1>4, <1>8, MoreBlocks DEF Extended
<1>10. k \in Nat
  BY <1>5, <1>8
<1> HIDE DEF k
<1>11. \A b \in 1 .. k + 2 : b \in 1 .. k \/ b = k + 1 \/ b = k + 2
  BY <1>10
<1>12. Open(d) = Open(a)
  BY <1>9, <1>11
<1>13. exit # c.pos
  BY <1>5
<1> QED BY <1>5, <1>8, <1>9, <1>12, <1>13 DEF d, k, exit

LEMMA GuardedStep ==
  ASSUME IInv, NEW n, EmitGuarded(n)
  PROVE  IInv'
<1> DEFINE c == ArgsRead(n)
           e == GuardedCode(c, n, Args(n))
           exit == NewBlock(c)
           d == At(e, exit)
<1>1. /\ Visit(n) /\ hugr.kind[n] = Guarded /\ SetCode(d)
      /\ Allocate({InsRow(n), OutsRow(n), ExitRow(n)})
      /\ stack' = ReplaceTop(Visited(n)) /\ hugr' = hugr /\ todo' = todo /\ phase' = phase
  BY DEF EmitGuarded
<1>2. /\ n \in NodesOf(hugr) /\ n \in ChildrenOf(hugr, Top.node) /\ Top.node \in NodesOf(hugr)
      /\ pos \in Open(Code) /\ hugr \in Hugrs /\ mailboxes \subseteq Mailbox
      /\ DOMAIN blocks = 1 .. Len(blocks) /\ Len(blocks) \in Nat
  BY <1>1, VisitFacts, TopFacts DEF Visit, IsDataflow
<1>3. CodeOK(c) /\ c.pos = pos /\ Len(c.blocks) = Len(blocks) /\ Open(c) = Open(Code)
  BY <1>1, ArgsFacts
<1>4. exit = Len(blocks) + 1
  BY <1>3 DEF NewBlock
<1> HIDE DEF c
<1>5. CodeOK(e) /\ Len(e.blocks) = Len(blocks) + 3 /\ Open(e) = (Open(Code) \ {pos}) \cup {exit}
  BY <1>2, <1>3, GuardedCodeFacts
<1> HIDE DEF e
<1>6. exit \in DOMAIN e.blocks
  BY <1>2, <1>4, <1>5, SeqFacts DEF CodeOK
<1> HIDE DEF exit
<1>7. CodeOK(d) /\ d.pos = exit /\ Len(d.blocks) = Len(blocks) + 3
      /\ Open(d) = (Open(Code) \ {pos}) \cup {exit}
  BY <1>5, <1>6, AtCode
<1> HIDE DEF d
<1>8. exit \notin DOMAIN blocks /\ Len(d.blocks) >= Len(blocks)
  BY <1>2, <1>4, <1>7
<1>9. ChildrenOf(hugr, n) = {} /\ hugr.kind[n] # "FuncDefn"
  BY <1>1, <1>2, NoKids DEF Guarded
<1>10. mailboxes \subseteq mailboxes' /\ mailboxes' \subseteq Mailbox
  BY <1>1, <1>2, ExitAllocated
<1> QED BY <1>1, <1>7, <1>8, <1>9, <1>10, VisitMoves

LEMMA ConditionalStep ==
  ASSUME IInv, NEW n, EnterConditional(n)
  PROVE  IInv'
<1> DEFINE c == ArgsRead(n)
           exit == NewBlock(c)
           d == WithExit(c, n)
           g == ConditionalFrame(n, Args(n), exit)
<1>1. /\ Visit(n) /\ hugr.kind[n] = "Conditional" /\ SetCode(d)
      /\ Allocate({InsRow(n), OutsRow(n), ExitRow(n)})
      /\ stack' = Append(ReplaceTop(Visited(n)), g)
      /\ hugr' = hugr /\ todo' = todo /\ phase' = phase
  BY DEF EnterConditional
<1>2. /\ n \in NodesOf(hugr) /\ pos \in Open(Code) /\ hugr \in Hugrs /\ CodeOK(Code)
      /\ Code.pos = pos /\ Code.blocks = blocks /\ Len(blocks) \in Nat /\ Open(Code) \subseteq DOMAIN blocks
      /\ DOMAIN blocks = 1 .. Len(blocks) /\ mailboxes \subseteq Mailbox
  BY <1>1, VisitFacts, TopFacts DEF Visit
<1>3. /\ mailboxes \subseteq mailboxes' /\ mailboxes' \subseteq Mailbox
      /\ ToSet(ExitRow(n)) \subseteq mailboxes'
  BY <1>1, <1>2, ExitAllocated
<1>4. g = [is |-> "conditional", node |-> n, inputs |-> Args(n), exit |-> exit,
           cases |-> <<>>, home |-> pos]
  BY DEF ConditionalFrame
<1>5. IsSeq(Args(n)) /\ ToSet(Args(n)) \subseteq (0 .. Len(blocks)) \X Nat
  BY <1>2, RowFacts, UpcomingFacts DEF Args
<1>6. CodeOK(c) /\ c.pos = pos /\ Len(c.blocks) = Len(blocks) /\ Open(c) = Open(Code)
  BY <1>1, ArgsFacts
<1>7. exit = Len(blocks) + 1
  BY <1>6 DEF NewBlock
<1> HIDE DEF c, g
<1>13. CodeOK(d) /\ d.pos = pos /\ Len(d.blocks) = Len(blocks) + 1 /\ Open(d) = Open(Code) \cup {exit}
  BY <1>2, <1>6, WithExitCode
<1> HIDE DEF d, exit
<1>14. /\ g.is = "conditional" /\ g.node = n /\ g.inputs = Args(n) /\ g.exit = exit
       /\ g.cases = <<>> /\ g.home = pos
  BY <1>4
<1>15. FrameOK(hugr, g, Len(d.blocks), mailboxes')
  <2>1. Len(d.blocks) = Len(blocks) + 1 /\ exit \in 1 .. Len(d.blocks) /\ pos \in 1 .. Len(d.blocks) /\ exit # pos
    BY <1>2, <1>7, <1>13
  <2>2. ToSet(Args(n)) \subseteq (0 .. Len(d.blocks)) \X Nat
    BY <1>2, <1>5, <2>1
  <2>3. IsSeq(<<>>) /\ Len(<<>>) <= Len(hugr.kids[n])
    BY <1>2, KidsFacts DEF IsSeq, ToSet
  <2>4. ToSet(AnonymousRow("exit", n, hugr.nout[n])) \subseteq mailboxes'
    BY <1>3 DEF ExitRow
  <2>5. IsConditional(hugr, g, Len(d.blocks), mailboxes')
    BY <1>1, <1>2, <1>4, <1>5, <1>14, <2>1, <2>2, <2>3, <2>4 DEF IsConditional
  <2> QED BY <2>5 DEF FrameOK
<1>16. Owed(hugr, g) = {exit, pos} /\ ToCome(hugr, g) = ChildrenOf(hugr, n)
  <2>1. Owed(hugr, g) = {exit, pos}
    BY <1>14 DEF Owed
  <2>2. ToCome(hugr, g) = {hugr.kids[n][i] : i \in Len(<<>>) + 1 .. Len(hugr.kids[n])}
    BY <1>14 DEF ToCome
  <2>3. ChildrenOf(hugr, n) = {hugr.kids[n][i] : i \in 1 .. Len(hugr.kids[n])}
    BY <1>2, KidsFacts DEF ChildrenOf, ToSet
  <2>4. Len(<<>>) + 1 = 1
    OBVIOUS
  <2> QED BY <2>1, <2>2, <2>3, <2>4
<1> DEFINE free == Open(d) \ (DOMAIN blocks \ {pos})
<1>17. free = {pos, exit}
  BY <1>2, <1>7, <1>13
<1>18. \A b \in DOMAIN blocks \ {pos} : b \in Open(d) <=> b \in Open(Code)
  BY <1>2, <1>7, <1>13
<1>19. free = Open(d) \ (DOMAIN blocks \ {pos})
  OBVIOUS
<1>20. /\ Owed(hugr, g) \subseteq free /\ free \subseteq Owed(hugr, g) \cup {d.pos}
       /\ hugr.kind[n] # "FuncDefn" /\ g.is # "dataflow" /\ g.is # "cfg" /\ d.pos = g.home
       /\ Len(d.blocks) \in Nat /\ Len(d.blocks) >= Len(blocks)
  BY <1>1, <1>2, <1>13, <1>14, <1>16, <1>17
<1> HIDE DEF free
<1> QED BY <1>1, <1>3, <1>13, <1>14, <1>15, <1>16, <1>18, <1>19, <1>20, VisitCall

LEMMA SetToSeqFacts ==
  ASSUME NEW S, IsFiniteSet(S)
  PROVE  LET q == SetToSeq(S)
         IN  /\ IsSeq(q) /\ ToSet(q) = S /\ Len(q) \in Nat /\ DOMAIN q = 1 .. Len(q)
             /\ \A i, j \in 1 .. Len(q) : q[i] = q[j] => i = j
<1> DEFINE k == Cardinality(S)
           q == SetToSeq(S)
<1>1. k \in Nat /\ \E f \in Bijection(1 .. k, S) : TRUE
  BY FS_CardinalityType DEF ExistsBijection
<1>2. \E f \in [1 .. k -> S] : IsInjective(f)
  BY <1>1 DEF Bijection, Injection
<1>3. q \in [1 .. k -> S] /\ IsInjective(q)
  BY <1>2 DEF SetToSeq
<1> HIDE DEF q
<1>4. q \in Injection(1 .. k, S)
  BY <1>3 DEF Injection
<1>5. IsFiniteSet(1 .. k) /\ Cardinality(1 .. k) = k
  BY <1>1, FS_Interval
<1>6. q \in Surjection(1 .. k, S)
  BY <1>4, <1>5, FS_Injection
<1> HIDE DEF k
<1>7. q \in Seq(S) /\ Len(q) = k /\ DOMAIN q = 1 .. k
  BY <1>1, <1>3
<1>8. ToSet(q) = S
  BY <1>3, <1>6, <1>7 DEF ToSet, Surjection
<1>9. \A i, j \in 1 .. k : q[i] = q[j] => i = j
  BY <1>3, <1>7 DEF IsInjective
<1> QED BY <1>1, <1>7, <1>8, <1>9, KnownSeq DEF q

LEMMA FiniteChildren ==
  ASSUME NEW h \in Hugrs, NEW n \in NodesOf(h), NEW S, S \subseteq ChildrenOf(h, n)
  PROVE  IsFiniteSet(S)
<1> DEFINE k == Len(h.kids[n])
           f == [i \in 1 .. k |-> h.kids[n][i]]
<1>1. k \in Nat /\ DOMAIN h.kids[n] = 1 .. k
  BY KidsFacts
<1>2. ChildrenOf(h, n) = {h.kids[n][i] : i \in 1 .. k}
  BY <1>1 DEF ChildrenOf, ToSet
<1>3. f \in Surjection(1 .. k, ChildrenOf(h, n))
  BY <1>2 DEF Surjection
<1>4. IsFiniteSet(1 .. k)
  BY <1>1, FS_Interval
<1>5. IsFiniteSet(ChildrenOf(h, n))
  BY <1>3, <1>4, FS_Surjection
<1> QED BY <1>5, FS_Subset

LEMMA CfgFacts ==
  ASSUME hugr \in Hugrs, NEW n \in NodesOf(hugr), hugr.kind[n] = "CFG"
  PROVE  /\ Exit(n) \in CfgBlocks(hugr, n) /\ Entry(n) \in CfgBlocks(hugr, n)
         /\ hugr.kind[Entry(n)] = "DataflowBlock"
         /\ \A m \in CfgBlocks(hugr, n) : hugr.kind[m] = "ExitBlock" <=> m = Exit(n)
         /\ CfgBlocks(hugr, n) = DataflowBlocks(n) \cup {Exit(n)} /\ Exit(n) \notin DataflowBlocks(n)
         /\ \A i, j \in 1 .. Len(hugr.kids[n]) : hugr.kids[n][i] = hugr.kids[n][j] => i = j
         /\ \A m \in ChildrenOf(hugr, n) : hugr.kind[m] \in {"DataflowBlock", "ExitBlock"} \cup Silent
         /\ IsFiniteSet(DataflowBlocks(n))
<1> DEFINE kids == hugr.kids[n]
<1>1. /\ Len(kids) \in Nat /\ DOMAIN kids = 1 .. Len(kids)
      /\ \A i \in 1 .. Len(kids) : kids[i] \in ChildrenOf(hugr, n)
      /\ \A m \in ChildrenOf(hugr, n) : \E i \in 1 .. Len(kids) : m = kids[i]
  BY KidsFacts
<1>2. /\ Len(kids) >= 2 /\ hugr.kind[kids[1]] = "DataflowBlock"
      /\ \A i \in 1 .. Len(kids) : hugr.kind[kids[i]] = "ExitBlock" <=> i = 2
      /\ \A i, j \in 1 .. Len(kids) : kids[i] = kids[j] => i = j
      /\ \A m \in ChildrenOf(hugr, n) : hugr.kind[m] \in {"DataflowBlock", "ExitBlock"} \cup Silent
  <2>1. ChildrenFit(hugr, n)
    BY KidsFacts
  <2>2. /\ Len(kids) >= 2 /\ hugr.kind[kids[1]] = "DataflowBlock"
        /\ \A i \in DOMAIN kids : /\ hugr.kind[kids[i]] = "ExitBlock" <=> i = 2
                                  /\ \A j \in DOMAIN kids : kids[i] = kids[j] => i = j
    BY <2>1 DEF ChildrenFit
  <2>3. \A m \in ChildrenOf(hugr, n) : hugr.kind[m] \in {"DataflowBlock", "ExitBlock"} \cup Silent
    BY <2>1 DEF ChildrenFit
  <2> QED BY <1>1, <2>2, <2>3
<1>3. Exit(n) = kids[2] /\ Entry(n) = kids[1] /\ 1 \in 1 .. Len(kids) /\ 2 \in 1 .. Len(kids)
  BY <1>1, <1>2 DEF Exit, Entry
<1>4. \A m \in ChildrenOf(hugr, n) : hugr.kind[m] = "ExitBlock" <=> m = Exit(n)
  BY <1>1, <1>2, <1>3
<1>5. Exit(n) \in ChildrenOf(hugr, n) /\ Entry(n) \in ChildrenOf(hugr, n) /\ hugr.kind[Entry(n)] = "DataflowBlock"
  BY <1>1, <1>2, <1>3
<1>6. DataflowBlocks(n) \subseteq ChildrenOf(hugr, n)
  BY DEF DataflowBlocks
<1> QED BY <1>2, <1>4, <1>5, <1>6, FiniteChildren DEF CfgBlocks, DataflowBlocks

LEMMA CfgStep ==
  ASSUME IInv, NEW n, EnterCfg(n)
  PROVE  IInv'
<1> DEFINE c == ArgsRead(n)
           dfbs == SetToSeq(DataflowBlocks(n))
           bb == [m \in ToSet(dfbs) \cup {Exit(n)} |->
                    IF m = Exit(n) THEN NewBlock(c)
                    ELSE NewBlock(c) + CHOOSE i \in DOMAIN dfbs : dfbs[i] = m]
           ready == AddBlocks(c, 1 + Len(dfbs))
           written == Write(ready, InputRow(n, Entry(n)), Args(n))
           br == Branch(bb[Entry(n)])
           d == Build(written, <<br>>)
           g == CfgFrame(n, bb, OutsRow(n))
           rows == {InsRow(n), OutsRow(n)} \cup {InputRow(n, m) : m \in DOMAIN bb}
           L == Len(blocks)
           K == Len(dfbs)
<1>1. /\ Visit(n) /\ hugr.kind[n] = "CFG" /\ SetCode(d) /\ Allocate(rows)
      /\ stack' = Append(ReplaceTop(Visited(n)), g)
      /\ hugr' = hugr /\ todo' = todo /\ phase' = phase
  BY DEF EnterCfg
<1>2. /\ n \in NodesOf(hugr) /\ pos \in Open(Code) /\ hugr \in Hugrs /\ CodeOK(Code)
      /\ Code.pos = pos /\ Code.blocks = blocks /\ L \in Nat /\ Open(Code) \subseteq DOMAIN blocks
      /\ DOMAIN blocks = 1 .. L /\ mailboxes \subseteq Mailbox
  BY <1>1, VisitFacts, TopFacts DEF Visit
<1>3. /\ IsSeq(dfbs) /\ ToSet(dfbs) = DataflowBlocks(n) /\ K \in Nat /\ DOMAIN dfbs = 1 .. K
      /\ \A i, j \in 1 .. K : dfbs[i] = dfbs[j] => i = j
  <2>1. IsFiniteSet(DataflowBlocks(n))
    BY <1>1, <1>2, CfgFacts
  <2> QED BY <2>1, SetToSeqFacts
<1>4. /\ Exit(n) \in CfgBlocks(hugr, n) /\ Entry(n) \in CfgBlocks(hugr, n)
      /\ CfgBlocks(hugr, n) = ToSet(dfbs) \cup {Exit(n)} /\ Exit(n) \notin ToSet(dfbs)
      /\ DOMAIN bb = CfgBlocks(hugr, n)
  <2>1. DOMAIN bb = ToSet(dfbs) \cup {Exit(n)}
    OBVIOUS
  <2> HIDE DEF bb, dfbs
  <2>2. /\ Exit(n) \in CfgBlocks(hugr, n) /\ Entry(n) \in CfgBlocks(hugr, n)
        /\ CfgBlocks(hugr, n) = DataflowBlocks(n) \cup {Exit(n)} /\ Exit(n) \notin DataflowBlocks(n)
    BY <1>1, <1>2, CfgFacts
  <2> QED BY <1>3, <2>1, <2>2
<1>5. CodeOK(c) /\ c.pos = pos /\ Len(c.blocks) = L /\ Open(c) = Open(Code)
  BY <1>1, ArgsFacts
<1>6. g = [is |-> "cfg", node |-> n, bb |-> bb, outputs |-> OutsRow(n), next |-> 1, home |-> pos]
  BY DEF CfgFrame
<1> HIDE DEF g, d
<1>7. bb[Exit(n)] = L + 1
  BY <1>5 DEF NewBlock
<1>8. ASSUME NEW i \in 1 .. K PROVE dfbs[i] \in CfgBlocks(hugr, n) /\ bb[dfbs[i]] = L + 1 + i
  <2>1. dfbs[i] \in ToSet(dfbs) /\ dfbs[i] # Exit(n)
    BY <1>3, <1>4 DEF ToSet
  <2>2. (CHOOSE j \in DOMAIN dfbs : dfbs[j] = dfbs[i]) = i
    BY <1>3
  <2>3. bb[dfbs[i]] = NewBlock(c) + i
    BY <2>1, <2>2
  <2> QED BY <1>4, <1>5, <2>1, <2>3 DEF NewBlock
<1>9. ASSUME NEW m \in CfgBlocks(hugr, n)
      PROVE  m = Exit(n) \/ \E i \in 1 .. K : m = dfbs[i]
  BY <1>3, <1>4 DEF ToSet
<1>10. \A row \in rows : ToSet(row) \subseteq Mailbox
  <2>1. \A m \in DOMAIN bb : ToSet(InputRow(n, m)) \subseteq Mailbox
    BY <1>1, <1>2, <1>4, InputRowFacts
  <2> HIDE DEF bb
  <2> QED BY <1>2, <2>1, RowFacts
<1>11. OutsRow(n) \in rows
  OBVIOUS
<1> HIDE DEF bb, dfbs, c, rows
<1>12. /\ mailboxes \subseteq mailboxes' /\ mailboxes' \subseteq Mailbox
       /\ ToSet(OutsRow(n)) \subseteq mailboxes'
  BY <1>1, <1>2, <1>10, <1>11, AllocateFacts
<1>13. \A m \in CfgBlocks(hugr, n) : bb[m] \in L + 1 .. L + 1 + K
  BY <1>2, <1>3, <1>7, <1>8, <1>9
<1>14. \A m, k \in CfgBlocks(hugr, n) : bb[m] = bb[k] => m = k
  <2>1. ASSUME NEW m \in CfgBlocks(hugr, n), NEW k \in CfgBlocks(hugr, n), bb[m] = bb[k] PROVE m = k
    <3>1. CASE m = Exit(n) /\ k = Exit(n)
      BY <3>1
    <3>2. CASE \E i \in 1 .. K : m = dfbs[i] /\ k = Exit(n)
      BY <1>2, <1>3, <1>7, <1>8, <2>1, <3>2
    <3>3. CASE \E i \in 1 .. K : k = dfbs[i] /\ m = Exit(n)
      BY <1>2, <1>3, <1>7, <1>8, <2>1, <3>3
    <3>4. CASE \E i, j \in 1 .. K : m = dfbs[i] /\ k = dfbs[j]
      BY <1>2, <1>3, <1>8, <2>1, <3>4
    <3> QED BY <1>9, <3>1, <3>2, <3>3, <3>4
  <2> QED BY <2>1
<1>15. ASSUME NEW b \in L + 1 .. L + 1 + K PROVE \E m \in CfgBlocks(hugr, n) : b = bb[m]
  <2>1. CASE b = L + 1
    BY <1>4, <1>7, <2>1
  <2>2. CASE b # L + 1
    <3>1. b - (L + 1) \in 1 .. K /\ b = L + 1 + (b - (L + 1))
      BY <1>2, <1>3, <2>2
    <3> QED BY <1>8, <3>1
  <2> QED BY <2>1, <2>2
<1>16. /\ CodeOK(ready) /\ ready.pos = pos /\ Len(ready.blocks) = L + 1 + K
       /\ Open(ready) = Open(Code) \cup (L + 1 .. L + 1 + K)
  <2>1. 1 + K \in Nat /\ L + (1 + K) = L + 1 + K
    BY <1>2, <1>3
  <2>2. /\ CodeOK(AddBlocks(c, 1 + K)) /\ AddBlocks(c, 1 + K).pos = c.pos
        /\ Len(AddBlocks(c, 1 + K).blocks) = Len(c.blocks) + (1 + K)
        /\ Open(AddBlocks(c, 1 + K)) = Open(c) \cup (Len(c.blocks) + 1 .. Len(c.blocks) + (1 + K))
    BY <1>5, <2>1, AddCode
  <2> QED BY <1>5, <2>1, <2>2
<1> HIDE DEF ready
<1>17. /\ CodeOK(written) /\ written.pos = pos /\ Len(written.blocks) = L + 1 + K
       /\ Open(written) = Open(ready)
  <2>1. IsSeq(InputRow(n, Entry(n))) /\ ready.pos \in Open(ready)
    BY <1>1, <1>2, <1>4, <1>16, InputRowFacts
  <2> QED BY <1>16, <2>1, WriteCode
<1> HIDE DEF written
<1>18. /\ CodeOK(d) /\ d.pos = pos /\ Len(d.blocks) = L + 1 + K
       /\ Open(d) = (Open(Code) \cup (L + 1 .. L + 1 + K)) \ {pos}
  <2>1. IsTerminator(br)
    BY DEF IsTerminator, Branch
  <2>2. written.pos \in Open(written)
    BY <1>2, <1>16, <1>17
  <2> HIDE DEF br
  <2> QED BY <1>16, <1>17, <2>1, <2>2, TerminateCode DEF d
<1>19. /\ g.is = "cfg" /\ g.node = n /\ g.bb = bb /\ g.outputs = OutsRow(n)
       /\ g.next = 1 /\ g.home = pos
  BY <1>6
<1>20. FrameOK(hugr, g, Len(d.blocks), mailboxes')
  <2>1. \A m \in CfgBlocks(hugr, n) : bb[m] \in 1 .. Len(d.blocks)
    BY <1>2, <1>3, <1>13, <1>18
  <2>2. 1 \in 1 .. Len(hugr.kids[n]) + 1 /\ pos \in 1 .. Len(d.blocks) /\ IsSeq(OutsRow(n))
    BY <1>2, <1>3, <1>18, KidsFacts, RowFacts
  <2>3. IsCfg(hugr, g, Len(d.blocks), mailboxes')
    BY <1>1, <1>2, <1>6, <1>12, <1>14, <1>19, <2>1, <2>2 DEF IsCfg
  <2> QED BY <2>3 DEF FrameOK
<1>21. Ahead(hugr, g) = ChildrenOf(hugr, n)
  <2>1. Ahead(hugr, g) = {hugr.kids[n][i] : i \in 1 .. Len(hugr.kids[n])}
    BY <1>19 DEF Ahead
  <2>2. ChildrenOf(hugr, n) = {hugr.kids[n][i] : i \in 1 .. Len(hugr.kids[n])}
    BY <1>2, KidsFacts DEF ChildrenOf, ToSet
  <2> QED BY <2>1, <2>2
<1>22. ToCome(hugr, g) = ChildrenOf(hugr, n)
  BY <1>19, <1>21 DEF ToCome
<1>23. Owed(hugr, g) = L + 1 .. L + 1 + K
  <2>1. {k \in CfgBlocks(hugr, n) : hugr.kind[k] = "ExitBlock" \/ k \in Ahead(hugr, g)} = CfgBlocks(hugr, n)
    BY <1>21 DEF CfgBlocks
  <2>2. Owed(hugr, g) = {bb[m] : m \in CfgBlocks(hugr, n)}
    BY <1>19, <2>1 DEF Owed
  <2> QED BY <1>13, <1>15, <2>2
<1> DEFINE free == Open(d) \ (DOMAIN blocks \ {pos})
<1>24. free = L + 1 .. L + 1 + K
  BY <1>2, <1>18
<1>25. \A b \in DOMAIN blocks \ {pos} : b \in Open(d) <=> b \in Open(Code)
  BY <1>2, <1>18
<1>26. free = Open(d) \ (DOMAIN blocks \ {pos})
  OBVIOUS
<1>27. /\ Owed(hugr, g) \subseteq free /\ free \subseteq Owed(hugr, g) \cup {d.pos}
       /\ hugr.kind[n] # "FuncDefn" /\ g.is # "dataflow" /\ d.pos = g.home /\ g.home \notin Open(d)
       /\ Len(d.blocks) \in Nat /\ Len(d.blocks) >= Len(blocks)
  BY <1>1, <1>2, <1>3, <1>18, <1>19, <1>23, <1>24
<1> HIDE DEF free
<1> QED BY <1>1, <1>12, <1>18, <1>19, <1>20, <1>22, <1>25, <1>26, <1>27, VisitCall

-----------------------------------------------------------------------------
(* The cases of a conditional and the children of a CFG.                   *)

\* The innermost activation, which becomes f, calls g, which emits n.
LEMMA CallStep ==
  ASSUME IInv, NEW is, Running(is), hugr' = hugr, phase' = phase, todo' = todo,
         NEW d, SetCode(d), CodeOK(d), Len(d.blocks) \in Nat, Len(d.blocks) >= Len(blocks),
         mailboxes \subseteq mailboxes', mailboxes' \subseteq Mailbox,
         NEW f, NEW g, stack' = Append(ReplaceTop(f), g),
         \A b \in DOMAIN blocks \ Mine(hugr, Code, stack) : b \in Open(d) <=> b \in Open(Code),
         FrameOK(hugr, f, Len(d.blocks), mailboxes'), FrameOK(hugr, g, Len(d.blocks), mailboxes'),
         f.is = Top.is, f.node = Top.node, Calls(hugr, f, g), g.is = "dataflow",
         NEW free, free = Open(d) \ (DOMAIN blocks \ Mine(hugr, Code, stack)),
         Owed(hugr, f) \subseteq free, free \subseteq Owed(hugr, f) \cup {d.pos},
         d.pos \in free \ Owed(hugr, f), f.is = "cfg" => f.home \notin Open(d),
         NEW n, g.node = n, g.left = ChildrenOf(hugr, n), hugr.kind[n] # "FuncDefn",
         NEW p \in NodesOf(hugr), n \in ChildrenOf(hugr, p),
         ToCome(hugr, Top) \subseteq ToCome(hugr, f) \cup {n}
  PROVE  IInv'
<1> DEFINE t == Append(Append(Front(stack), f), g)
<1>1. /\ hugr \in Hugrs /\ Sound(hugr, Code, stack, mailboxes) /\ stack # <<>>
      /\ IsSeq(stack) /\ Len(stack) \in Nat \ {0} /\ Top = stack[Len(stack)]
      /\ Code.pos = pos /\ Code.blocks = blocks /\ Last(stack) = Top
      /\ phase = "emitting"
  BY TopFacts DEF Top
<1>2. Owed(hugr, g) = {} /\ ToCome(hugr, g) = ChildrenOf(hugr, n) /\ n \in NodesOf(hugr)
  BY <1>1, KidsFacts DEF Owed, ToCome
<1>3. stack' = t
  BY DEF ReplaceTop
<1>4. Free(hugr, Code, d, stack) = free
  BY <1>1 DEF Free
<1>5. Sound(hugr, d, t, mailboxes')
  <2>1. \A b \in DOMAIN Code.blocks \ Mine(hugr, Code, stack) : b \in Open(d) <=> b \in Open(Code)
    BY <1>1
  <2>2. /\ Owed(hugr, f) \cup Owed(hugr, g) \subseteq Free(hugr, Code, d, stack)
        /\ Owed(hugr, f) \cap Owed(hugr, g) = {}
        /\ Free(hugr, Code, d, stack) \subseteq Owed(hugr, f) \cup Owed(hugr, g) \cup {d.pos}
        /\ d.pos \in Free(hugr, Code, d, stack) \ (Owed(hugr, f) \cup Owed(hugr, g))
    BY <1>2, <1>4
  <2>3. f.is = Last(stack).is /\ f.node = Last(stack).node /\ g.is # "cfg" /\ Len(d.blocks) >= Len(Code.blocks)
    BY <1>1
  <2> QED BY <1>1, <2>1, <2>2, <2>3, PushSound
<1>6. PICK S \in SUBSET NodesOf(hugr) : VisitedAre(hugr, stack, todo, S)
  BY DEF IInv
<1>7. Same(stack, t) /\ Len(t) = Len(stack) + 1 /\ t[Len(stack)] = f /\ t[Len(stack) + 1] = g
  <2>1. IsSeq(stack) /\ stack # <<>>
    BY <1>1
  <2> QED BY <2>1, PushFacts
<1> HIDE DEF t
<1>8. VisitedAre(hugr, t, FuncDefns(hugr, S \cup {n}), S \cup {n})
  <2>1. Len(stack) \in Len(stack) .. Len(t) /\ Len(stack) + 1 \in Len(stack) .. Len(t) /\ Len(t) \in Nat
    BY <1>1, <1>7
  <2>2. \A m \in ToCome(hugr, stack[Len(stack)]) : m \in {n} \/ \E k \in Len(stack) .. Len(t) :
           t[k].node = stack[Len(stack)].node /\ m \in ToCome(hugr, t[k])
    BY <1>1, <1>7, <2>1
  <2>3. \A a \in {n} : \A m \in ChildrenOf(hugr, a) : \E k \in Len(stack) .. Len(t) :
           t[k].node = a /\ m \in ToCome(hugr, t[k])
    BY <1>2, <1>7, <2>1
  <2> QED BY <1>1, <1>2, <1>6, <1>7, <2>1, <2>2, <2>3, NextVisited
<1>9. FuncDefns(hugr, S \cup {n}) = todo
  <2>1. n # hugr.root /\ todo = FuncDefns(hugr, S)
    BY <1>1, <1>6, RootIsNoChild DEF VisitedAre
  <2> QED BY <2>1, VisitedDefns
<1>10. VisitedAre(hugr, stack', todo', S \cup {n})
  BY <1>3, <1>8, <1>9
<1> QED BY <1>1, <1>3, <1>5, <1>10, Stepped

\* What the innermost activation becomes.
LEMMA TwoFields ==
  ASSUME NEW f, NEW x, NEW y
  PROVE  /\ [f EXCEPT !.cases = x, !.home = y] = [[f EXCEPT !.cases = x] EXCEPT !.home = y]
         /\ [f EXCEPT !.next = x, !.home = y] = [[f EXCEPT !.next = x] EXCEPT !.home = y]
OBVIOUS

LEMMA CaseFrame ==
  ASSUME NEW f, NEW x, NEW y,
         f = [is |-> f.is, node |-> f.node, inputs |-> f.inputs, exit |-> f.exit,
              cases |-> f.cases, home |-> f.home]
  PROVE  [f EXCEPT !.cases = x, !.home = y]
           = [is |-> f.is, node |-> f.node, inputs |-> f.inputs, exit |-> f.exit,
              cases |-> x, home |-> y]
<1> DEFINE a == f.is  b == f.node  c == f.inputs  d == f.exit  e == f.cases  k == f.home
<1> DEFINE g == [is |-> a, node |-> b, inputs |-> c, exit |-> d, cases |-> x, home |-> k]
<1>0. f = [is |-> a, node |-> b, inputs |-> c, exit |-> d, cases |-> e, home |-> k]
  OBVIOUS
<1> HIDE DEF a, b, c, d, e, k
<1>1. [f EXCEPT !.cases = x] = g
  BY <1>0
<1>2. [g EXCEPT !.home = y]
        = [is |-> a, node |-> b, inputs |-> c, exit |-> d, cases |-> x, home |-> y]
  OBVIOUS
<1>3. [f EXCEPT !.cases = x, !.home = y] = [[f EXCEPT !.cases = x] EXCEPT !.home = y]
  BY TwoFields
<1> HIDE DEF g
<1>4. [f EXCEPT !.cases = x, !.home = y]
        = [is |-> a, node |-> b, inputs |-> c, exit |-> d, cases |-> x, home |-> y]
  BY <1>1, <1>2, <1>3
<1> QED BY <1>4 DEF a, b, c, d

LEMMA NextFrame ==
  ASSUME NEW f, NEW x, NEW y,
         f = [is |-> f.is, node |-> f.node, bb |-> f.bb, outputs |-> f.outputs,
              next |-> f.next, home |-> f.home]
  PROVE  /\ [f EXCEPT !.next = x]
              = [is |-> f.is, node |-> f.node, bb |-> f.bb, outputs |-> f.outputs,
                 next |-> x, home |-> f.home]
         /\ [f EXCEPT !.next = x, !.home = y]
              = [is |-> f.is, node |-> f.node, bb |-> f.bb, outputs |-> f.outputs,
                 next |-> x, home |-> y]
<1> DEFINE a == f.is  b == f.node  c == f.bb  d == f.outputs  e == f.next  k == f.home
<1> DEFINE g == [is |-> a, node |-> b, bb |-> c, outputs |-> d, next |-> x, home |-> k]
<1>0. f = [is |-> a, node |-> b, bb |-> c, outputs |-> d, next |-> e, home |-> k]
  OBVIOUS
<1> HIDE DEF a, b, c, d, e, k
<1>1. [f EXCEPT !.next = x] = g
  BY <1>0
<1>2. [g EXCEPT !.home = y]
        = [is |-> a, node |-> b, bb |-> c, outputs |-> d, next |-> x, home |-> y]
  OBVIOUS
<1>3. [f EXCEPT !.next = x, !.home = y] = [[f EXCEPT !.next = x] EXCEPT !.home = y]
  BY TwoFields
<1>4. [f EXCEPT !.next = x]
        = [is |-> a, node |-> b, bb |-> c, outputs |-> d, next |-> x, home |-> k]
  BY <1>1
<1> HIDE DEF g
<1>5. [f EXCEPT !.next = x, !.home = y]
        = [is |-> a, node |-> b, bb |-> c, outputs |-> d, next |-> x, home |-> y]
  BY <1>1, <1>2, <1>3
<1> QED BY <1>4, <1>5 DEF a, b, c, d, k

LEMMA ConditionalFacts ==
  ASSUME IInv, Running("conditional")
  PROVE  /\ IsConditional(hugr, Top, Len(blocks), mailboxes)
         /\ Top.is = "conditional" /\ Top.node \in NodesOf(hugr) /\ hugr.kind[Top.node] = "Conditional"
         /\ pos = Top.home /\ Mine(hugr, Code, stack) = {Top.exit, pos}
         /\ Owed(hugr, Top) = {Top.exit, pos} /\ {Top.exit, pos} \subseteq Open(Code) \ {1}
         /\ Top.exit # pos
         /\ \A m \in ChildrenOf(hugr, Top.node) : IsRegion(hugr, m) /\ hugr.kind[m] = "Case"
         /\ Len(hugr.rows[Top.node]) = Len(hugr.kids[Top.node])
<1>1. /\ FrameOK(hugr, Top, Len(blocks), mailboxes) /\ Top.is = "conditional" /\ hugr \in Hugrs
      /\ Top = stack[Len(stack)] /\ Code.pos = pos /\ Len(stack) \in Nat \ {0}
      /\ Ledger(hugr, Code, stack) /\ Placed(hugr, Code, stack)
  BY TopFacts
<1>2. IsConditional(hugr, Top, Len(blocks), mailboxes)
  BY <1>1 DEF FrameOK, IsDataflow, IsCfg
<1>3. Top.node \in NodesOf(hugr) /\ hugr.kind[Top.node] = "Conditional" /\ Top.exit # Top.home
  BY <1>2 DEF IsConditional
<1>4. pos = Top.home
  BY <1>1 DEF Placed
<1>5. Owed(hugr, Top) = {Top.exit, pos}
  BY <1>1, <1>4 DEF Owed
<1>6. Mine(hugr, Code, stack) = {Top.exit, pos}
  BY <1>1, <1>5 DEF Mine
<1>7. Owed(hugr, Top) \subseteq Open(Code) \ {1}
  BY <1>1 DEF Ledger
<1>8. /\ \A m \in ChildrenOf(hugr, Top.node) : hugr.kind[m] = "Case"
      /\ Len(hugr.rows[Top.node]) = Len(hugr.kids[Top.node])
  <2>1. ChildrenFit(hugr, Top.node)
    BY <1>1, <1>3, KidsFacts
  <2> QED BY <1>3, <2>1 DEF ChildrenFit
<1> QED BY <1>1, <1>2, <1>3, <1>4, <1>5, <1>6, <1>7, <1>8 DEF IsRegion

LEMMA CaseStep ==
  ASSUME IInv, EnterCase
  PROVE  IInv'
<1> DEFINE kids == hugr.kids[Top.node]
           case == kids[Len(Top.cases) + 1]
           b == NewBlock(Code)
           a == AddBlocks(Code, 1)
           c == At(a, b)
           row == CaseRow(case)
           d == Read(c, row)
           f == [Top EXCEPT !.cases = Append(@, b), !.home = pos]
           g == DataflowFrame(case, Upcoming(c, Len(row)), ExitRow(Top.node))
           L == Len(blocks)
<1>1. /\ Running("conditional") /\ Len(Top.cases) < Len(kids) /\ SetCode(d) /\ Allocate({row})
      /\ stack' = Append(ReplaceTop(f), g) /\ hugr' = hugr /\ todo' = todo /\ phase' = phase
  BY DEF EnterCase
<1>2. /\ hugr \in Hugrs /\ CodeOK(Code) /\ Code.pos = pos /\ Code.blocks = blocks
      /\ L \in Nat /\ DOMAIN blocks = 1 .. L /\ pos \in DOMAIN blocks
      /\ Open(Code) \subseteq DOMAIN blocks /\ mailboxes \subseteq Mailbox
  BY <1>1, TopFacts
<1>3. /\ IsConditional(hugr, Top, L, mailboxes) /\ Top.is = "conditional"
      /\ Top.node \in NodesOf(hugr) /\ hugr.kind[Top.node] = "Conditional" /\ pos = Top.home
      /\ Mine(hugr, Code, stack) = {Top.exit, pos} /\ {Top.exit, pos} \subseteq Open(Code)
      /\ \A m \in ChildrenOf(hugr, Top.node) : IsRegion(hugr, m) /\ hugr.kind[m] = "Case"
  BY <1>1, ConditionalFacts
<1>4. IsSeq(Top.cases) /\ Len(Top.cases) \in Nat
  BY <1>3, SeqFacts DEF IsConditional
<1>5. case \in ChildrenOf(hugr, Top.node) /\ case \in NodesOf(hugr) /\ Len(kids) \in Nat
  <2>1. /\ Len(kids) \in Nat /\ ChildrenOf(hugr, Top.node) \subseteq NodesOf(hugr)
        /\ \A i \in 1 .. Len(kids) : kids[i] \in ChildrenOf(hugr, Top.node)
    BY <1>2, <1>3, KidsFacts
  <2>2. Len(Top.cases) + 1 \in 1 .. Len(kids)
    BY <1>1, <1>4, <2>1
  <2> QED BY <2>1, <2>2
<1>6. IsRegion(hugr, case) /\ hugr.kind[case] = "Case"
  BY <1>3, <1>5
<1>7. b = L + 1
  BY <1>2 DEF NewBlock
<1>8. f = [is |-> "conditional", node |-> Top.node, inputs |-> Top.inputs, exit |-> Top.exit,
           cases |-> Append(Top.cases, b), home |-> pos]
  <2>1. Top = [is |-> Top.is, node |-> Top.node, inputs |-> Top.inputs, exit |-> Top.exit,
               cases |-> Top.cases, home |-> Top.home]
    BY <1>3 DEF IsConditional
  <2> DEFINE x == Append(Top.cases, b)
  <2>2. f = [Top EXCEPT !.cases = x, !.home = pos]
    OBVIOUS
  <2> HIDE DEF f, x
  <2>3. [Top EXCEPT !.cases = x, !.home = pos]
          = [is |-> Top.is, node |-> Top.node, inputs |-> Top.inputs, exit |-> Top.exit,
             cases |-> x, home |-> pos]
    BY <2>1, CaseFrame
  <2> QED BY <1>3, <2>2, <2>3 DEF x
<1>9. g = [is |-> "dataflow", node |-> case, inputs |-> Upcoming(c, Len(row)),
           outputs |-> ExitRow(Top.node), left |-> ChildrenOf(hugr, case)]
  BY DEF DataflowFrame
<1> HIDE DEF f, g, b, case, kids
<1>10. IsSeq(row) /\ ToSet(row) \subseteq Mailbox /\ Len(row) \in Nat
  BY <1>2, <1>5, <1>6, CaseRowFacts
<1> HIDE DEF row
<1>11. mailboxes \subseteq mailboxes' /\ mailboxes' \subseteq Mailbox
  BY <1>1, <1>2, <1>10, AllocateFacts
<1>12. /\ CodeOK(a) /\ Len(a.blocks) = L + 1 /\ DOMAIN a.blocks = 1 .. L + 1
       /\ Open(a) = Open(Code) \cup {b}
  <2>1. L + 1 .. L + 1 = {b}
    BY <1>2, <1>7
  <2>2. CodeOK(a) /\ Len(a.blocks) = L + 1 /\ Open(a) = Open(Code) \cup {b}
    BY <1>2, <2>1, AddCode
  <2> QED BY <2>2, SeqFacts DEF CodeOK
<1> HIDE DEF a
<1>13. CodeOK(c) /\ c.pos = b /\ c.blocks = a.blocks /\ Open(c) = Open(a)
  <2>1. b \in DOMAIN a.blocks
    BY <1>2, <1>7, <1>12
  <2> QED BY <1>12, <2>1, AtCode
<1> HIDE DEF c
<1>14. CodeOK(d) /\ d.pos = b /\ Len(d.blocks) = L + 1 /\ Open(d) = Open(Code) \cup {b}
  BY <1>10, <1>12, <1>13, ReadCode
<1> HIDE DEF d
<1>15. /\ f.is = "conditional" /\ f.node = Top.node /\ f.inputs = Top.inputs /\ f.exit = Top.exit
       /\ f.cases = Append(Top.cases, b) /\ f.home = pos
  BY <1>8
<1>16. /\ g.is = "dataflow" /\ g.node = case /\ g.inputs = Upcoming(c, Len(row))
       /\ g.outputs = ExitRow(Top.node) /\ g.left = ChildrenOf(hugr, case)
  BY <1>9
<1>17. IsSeq(f.cases) /\ Len(f.cases) = Len(Top.cases) + 1
  BY <1>4, <1>15, AppendSeq
<1>18. FrameOK(hugr, f, Len(d.blocks), mailboxes')
  <2>1. /\ IsSeq(Top.inputs) /\ ToSet(Top.inputs) \subseteq (0 .. L) \X Nat
        /\ ToSet(AnonymousRow("exit", Top.node, hugr.nout[Top.node])) \subseteq mailboxes
        /\ Top.exit \in 1 .. L /\ pos \in 1 .. L /\ Top.exit # pos
    BY <1>3 DEF IsConditional
  <2>2. Len(f.cases) <= Len(hugr.kids[Top.node])
    BY <1>1, <1>4, <1>5, <1>17 DEF kids
  <2>3. IsConditional(hugr, f, L, mailboxes)
    BY <1>3, <1>8, <1>15, <1>17, <2>1, <2>2 DEF IsConditional
  <2>4. FrameOK(hugr, f, L, mailboxes)
    BY <2>3 DEF FrameOK
  <2>5. FrameOK(hugr, f, L + 1, mailboxes')
    <3>1. L + 1 \in Nat /\ L <= L + 1
      BY <1>2
    <3> HIDE DEF L
    <3> QED BY <1>2, <1>11, <2>4, <3>1, FrameGrows
  <2> QED BY <1>14, <2>5
<1>19. FrameOK(hugr, g, Len(d.blocks), mailboxes')
  <2>1. IsSeq(Upcoming(c, Len(row))) /\ ToSet(Upcoming(c, Len(row))) \subseteq (0 .. L + 1) \X Nat
    BY <1>10, <1>12, <1>13, UpcomingFacts
  <2>2. IsSeq(ExitRow(Top.node))
    BY <1>2, <1>3, ExitRowFacts
  <2>3. ToSet(ExitRow(Top.node)) \subseteq mailboxes'
    BY <1>3, <1>11 DEF IsConditional, ExitRow
  <2>4. IsDataflow(hugr, g, L + 1, mailboxes')
    BY <1>5, <1>6, <1>9, <1>16, <2>1, <2>2, <2>3 DEF IsDataflow
  <2> QED BY <1>14, <2>4 DEF FrameOK
<1>20. Owed(hugr, f) = {Top.exit, pos}
  BY <1>15 DEF Owed
<1>21. ToCome(hugr, Top) \subseteq ToCome(hugr, f) \cup {case}
  <2>1. ToCome(hugr, Top) = {kids[i] : i \in Len(Top.cases) + 1 .. Len(kids)}
    BY <1>3 DEF ToCome, kids
  <2>2. ToCome(hugr, f) = {kids[i] : i \in Len(Top.cases) + 1 + 1 .. Len(kids)}
    BY <1>15, <1>17 DEF ToCome, kids
  <2>3. \A i \in Len(Top.cases) + 1 .. Len(kids) :
          i = Len(Top.cases) + 1 \/ i \in Len(Top.cases) + 1 + 1 .. Len(kids)
    BY <1>4, <1>5
  <2> QED BY <2>1, <2>2, <2>3 DEF case
<1> DEFINE free == Open(d) \ (DOMAIN blocks \ Mine(hugr, Code, stack))
<1>22. free = {Top.exit, pos, b}
  BY <1>2, <1>3, <1>7, <1>14
<1>23. free = Open(d) \ (DOMAIN blocks \ Mine(hugr, Code, stack))
  OBVIOUS
<1>24. \A k \in DOMAIN blocks \ Mine(hugr, Code, stack) : k \in Open(d) <=> k \in Open(Code)
  BY <1>2, <1>7, <1>14
<1>25. /\ Owed(hugr, f) \subseteq free /\ free \subseteq Owed(hugr, f) \cup {d.pos}
       /\ d.pos \in free \ Owed(hugr, f) /\ f.is # "cfg" /\ f.is = Top.is
       /\ hugr.kind[case] # "FuncDefn" /\ Calls(hugr, f, g)
       /\ Len(d.blocks) \in Nat /\ Len(d.blocks) >= L
  BY <1>2, <1>3, <1>6, <1>7, <1>14, <1>15, <1>16, <1>20, <1>22 DEF Calls
<1> HIDE DEF free
<1> QED BY <1>1, <1>3, <1>5, <1>11, <1>14, <1>15, <1>16, <1>18, <1>19, <1>21, <1>23, <1>24, <1>25, CallStep

LEMMA CfgTopFacts ==
  ASSUME IInv, Running("cfg")
  PROVE  /\ IsCfg(hugr, Top, Len(blocks), mailboxes)
         /\ Top.is = "cfg" /\ Top.node \in NodesOf(hugr) /\ hugr.kind[Top.node] = "CFG"
         /\ Top = [is |-> Top.is, node |-> Top.node, bb |-> Top.bb, outputs |-> Top.outputs,
                   next |-> Top.next, home |-> Top.home]
         /\ Top.next \in 1 .. Len(hugr.kids[Top.node]) + 1
         /\ pos = Top.home /\ pos \notin Open(Code)
         /\ Mine(hugr, Code, stack) = Owed(hugr, Top)
         /\ Owed(hugr, Top) \subseteq Open(Code) \ {1}
         /\ Owed(hugr, Top) = {Top.bb[m] : m \in {k \in CfgBlocks(hugr, Top.node) :
                                 hugr.kind[k] = "ExitBlock" \/ k \in Ahead(hugr, Top)}}
<1>1. /\ FrameOK(hugr, Top, Len(blocks), mailboxes) /\ Top.is = "cfg"
      /\ Top = stack[Len(stack)] /\ Code.pos = pos /\ Len(stack) \in Nat \ {0}
      /\ Ledger(hugr, Code, stack) /\ Placed(hugr, Code, stack)
  BY TopFacts
<1>2. IsCfg(hugr, Top, Len(blocks), mailboxes)
  BY <1>1 DEF FrameOK, IsDataflow, IsConditional
<1>3. /\ Top.node \in NodesOf(hugr) /\ hugr.kind[Top.node] = "CFG"
      /\ Top.next \in 1 .. Len(hugr.kids[Top.node]) + 1
      /\ Top = [is |-> Top.is, node |-> Top.node, bb |-> Top.bb, outputs |-> Top.outputs,
                next |-> Top.next, home |-> Top.home]
  BY <1>1, <1>2 DEF IsCfg
<1>4. pos = Top.home /\ pos \notin Open(Code)
  <2>1. Len(stack) \in 1 .. Len(stack)
    BY <1>1
  <2> QED BY <1>1, <2>1 DEF Placed
<1>5. Mine(hugr, Code, stack) = Owed(hugr, Top)
  BY <1>1 DEF Mine
<1>6. Owed(hugr, Top) \subseteq Open(Code) \ {1}
  <2>1. Len(stack) \in 1 .. Len(stack)
    BY <1>1
  <2> QED BY <1>1, <2>1 DEF Ledger
<1>7. Owed(hugr, Top) = {Top.bb[m] : m \in {k \in CfgBlocks(hugr, Top.node) :
                           hugr.kind[k] = "ExitBlock" \/ k \in Ahead(hugr, Top)}}
  BY <1>1 DEF Owed
<1> QED BY <1>1, <1>2, <1>3, <1>4, <1>5, <1>6, <1>7

\* A child of the CFG behind it, the emitter owes no more than the others' blocks.
LEMMA CfgAdvance ==
  ASSUME IInv, Running("cfg"), NEW n, Top.next <= Len(hugr.kids[Top.node]),
         n = hugr.kids[Top.node][Top.next],
         NEW f, f.is = "cfg", f.node = Top.node, f.bb = Top.bb, f.next = Top.next + 1
  PROVE  /\ n \in ChildrenOf(hugr, Top.node) /\ n \in NodesOf(hugr)
         /\ ToCome(hugr, Top) \subseteq ToCome(hugr, f) \cup {n}
         /\ hugr.kind[n] = "DataflowBlock" =>
              /\ n \in CfgBlocks(hugr, Top.node) /\ Top.bb[n] \in Owed(hugr, Top)
              /\ Owed(hugr, f) = Owed(hugr, Top) \ {Top.bb[n]}
         /\ hugr.kind[n] # "DataflowBlock" => Owed(hugr, f) = Owed(hugr, Top)
<1> DEFINE kids == hugr.kids[Top.node]
           B == CfgBlocks(hugr, Top.node)
<1>1. /\ IsCfg(hugr, Top, Len(blocks), mailboxes) /\ Top.node \in NodesOf(hugr)
      /\ hugr.kind[Top.node] = "CFG" /\ Top.is = "cfg" /\ Top.next \in 1 .. Len(kids) + 1
  BY CfgTopFacts
<1>2. hugr \in Hugrs
  BY TopFacts
<1>3. /\ Len(kids) \in Nat /\ ChildrenOf(hugr, Top.node) \subseteq NodesOf(hugr)
      /\ \A i \in 1 .. Len(kids) : kids[i] \in ChildrenOf(hugr, Top.node)
  BY <1>1, <1>2, KidsFacts
<1>4. \A i, j \in 1 .. Len(kids) : kids[i] = kids[j] => i = j
  BY <1>1, <1>2, CfgFacts
<1>5. Top.next \in 1 .. Len(kids)
  BY <1>1, <1>3
<1>6. n \in ChildrenOf(hugr, Top.node) /\ n \in NodesOf(hugr)
  BY <1>3, <1>5
<1>7. \A m : m \in Ahead(hugr, Top) <=> m \in Ahead(hugr, f) \/ m = n
  <2>1. \A i : i \in Top.next .. Len(kids) <=> i = Top.next \/ i \in Top.next + 1 .. Len(kids)
    BY <1>3, <1>5
  <2>2. Ahead(hugr, Top) = {kids[i] : i \in Top.next .. Len(kids)}
    BY DEF Ahead
  <2>3. Ahead(hugr, f) = {kids[i] : i \in Top.next + 1 .. Len(kids)}
    BY DEF Ahead
  <2> HIDE DEF kids
  <2>4. n = kids[Top.next]
    BY DEF kids
  <2> QED BY <2>1, <2>2, <2>3, <2>4
<1>8. n \notin Ahead(hugr, f)
  <2>1. ASSUME NEW i \in Top.next + 1 .. Len(kids)
        PROVE  kids[i] # n
    <3>1. i \in 1 .. Len(kids) /\ i # Top.next
      BY <1>3, <1>5
    <3> QED BY <1>4, <1>5, <3>1
  <2> QED BY <2>1 DEF Ahead
<1>9. ToCome(hugr, Top) \subseteq ToCome(hugr, f) \cup {n}
  BY <1>1, <1>7 DEF ToCome
<1>10. /\ Owed(hugr, Top) = {Top.bb[m] : m \in {k \in B : hugr.kind[k] = "ExitBlock" \/ k \in Ahead(hugr, Top)}}
       /\ Owed(hugr, f) = {Top.bb[m] : m \in {k \in B : hugr.kind[k] = "ExitBlock" \/ k \in Ahead(hugr, f)}}
  BY <1>1 DEF Owed
<1>11. \A m, k \in B : Top.bb[m] = Top.bb[k] => m = k
  BY <1>1 DEF IsCfg
<1>12. CASE hugr.kind[n] = "DataflowBlock"
  <2>1. n \in B
    BY <1>6, <1>12 DEF CfgBlocks
  <2> HIDE DEF B
  <2>2. Top.bb[n] \in Owed(hugr, Top)
    BY <1>7, <1>10, <2>1
  <2>3. ASSUME NEW x \in Owed(hugr, f)
        PROVE  x \in Owed(hugr, Top) /\ x # Top.bb[n]
    <3>1. PICK m \in B : x = Top.bb[m] /\ (hugr.kind[m] = "ExitBlock" \/ m \in Ahead(hugr, f))
      BY <1>10
    <3>2. m # n
      BY <1>8, <1>12, <3>1
    <3> QED BY <1>7, <1>10, <1>11, <2>1, <3>1, <3>2
  <2>4. ASSUME NEW x \in Owed(hugr, Top), x # Top.bb[n]
        PROVE  x \in Owed(hugr, f)
    <3>1. PICK m \in B : x = Top.bb[m] /\ (hugr.kind[m] = "ExitBlock" \/ m \in Ahead(hugr, Top))
      BY <1>10
    <3> QED BY <1>7, <1>10, <2>4, <3>1
  <2>5. Owed(hugr, f) = Owed(hugr, Top) \ {Top.bb[n]}
    BY <2>3, <2>4
  <2> QED BY <1>6, <1>9, <1>12, <2>1, <2>2, <2>5 DEF B
<1>13. CASE hugr.kind[n] # "DataflowBlock"
  <2>1. \A m \in B : m = n => hugr.kind[m] = "ExitBlock"
    BY <1>13 DEF CfgBlocks
  <2> HIDE DEF B
  <2>2. {k \in B : hugr.kind[k] = "ExitBlock" \/ k \in Ahead(hugr, Top)}
          = {k \in B : hugr.kind[k] = "ExitBlock" \/ k \in Ahead(hugr, f)}
    BY <1>7, <2>1
  <2> QED BY <1>6, <1>9, <1>10, <1>13, <2>2
<1> QED BY <1>12, <1>13

LEMMA EnterBlockStep ==
  ASSUME IInv, EnterBlock
  PROVE  IInv'
<1> DEFINE kids == hugr.kids[Top.node]
           block == kids[Top.next]
           row == InputRow(Top.node, block)
           out == TheChild(hugr, block, "Output")
           results == InsRow(out)
           c == At(Code, Top.bb[block])
           d == Read(c, row)
           x == Top.next + 1
           f == [Top EXCEPT !.next = x, !.home = pos]
           g == DataflowFrame(block, Upcoming(c, Len(row)), results)
           L == Len(blocks)
<1>1. /\ Running("cfg") /\ Top.next <= Len(kids) /\ hugr.kind[block] = "DataflowBlock"
      /\ SetCode(d) /\ Allocate({results})
      /\ stack' = Append(ReplaceTop(f), g) /\ hugr' = hugr /\ todo' = todo /\ phase' = phase
  BY DEF EnterBlock, CfgChild
<1>2. /\ hugr \in Hugrs /\ CodeOK(Code) /\ Code.pos = pos /\ Code.blocks = blocks
      /\ L \in Nat /\ DOMAIN blocks = 1 .. L /\ pos \in DOMAIN blocks
      /\ Open(Code) \subseteq DOMAIN blocks /\ mailboxes \subseteq Mailbox
  BY <1>1, TopFacts
<1>3. /\ IsCfg(hugr, Top, L, mailboxes) /\ Top.is = "cfg"
      /\ Top.node \in NodesOf(hugr) /\ hugr.kind[Top.node] = "CFG"
      /\ Top = [is |-> Top.is, node |-> Top.node, bb |-> Top.bb, outputs |-> Top.outputs,
                next |-> Top.next, home |-> Top.home]
      /\ Top.next \in 1 .. Len(kids) + 1 /\ pos \notin Open(Code)
      /\ Mine(hugr, Code, stack) = Owed(hugr, Top)
      /\ Owed(hugr, Top) \subseteq Open(Code)
  BY <1>1, CfgTopFacts
<1> HIDE DEF x
<1>4. f = [is |-> Top.is, node |-> Top.node, bb |-> Top.bb, outputs |-> Top.outputs,
           next |-> x, home |-> pos]
  <2>1. [Top EXCEPT !.next = x, !.home = pos]
          = [is |-> Top.is, node |-> Top.node, bb |-> Top.bb, outputs |-> Top.outputs,
             next |-> x, home |-> pos]
    BY <1>3, NextFrame
  <2> QED BY <2>1
<1> HIDE DEF f
<1>5. /\ f.is = "cfg" /\ f.node = Top.node /\ f.bb = Top.bb /\ f.outputs = Top.outputs
      /\ f.next = Top.next + 1 /\ f.home = pos
  BY <1>3, <1>4 DEF x
<1>6. g = [is |-> "dataflow", node |-> block, inputs |-> Upcoming(c, Len(row)),
           outputs |-> results, left |-> ChildrenOf(hugr, block)]
  BY DEF DataflowFrame
<1>7. /\ g.is = "dataflow" /\ g.node = block /\ g.inputs = Upcoming(c, Len(row))
      /\ g.outputs = results /\ g.left = ChildrenOf(hugr, block)
  <2> HIDE DEF g, c, row, results
  <2> QED BY <1>6
<1> HIDE DEF g, block
<1>8. /\ block \in ChildrenOf(hugr, Top.node) /\ block \in NodesOf(hugr)
      /\ ToCome(hugr, Top) \subseteq ToCome(hugr, f) \cup {block}
      /\ block \in CfgBlocks(hugr, Top.node) /\ Top.bb[block] \in Owed(hugr, Top)
      /\ Owed(hugr, f) = Owed(hugr, Top) \ {Top.bb[block]}
  <2>1. block = kids[Top.next]
    BY DEF block
  <2> QED BY <1>1, <1>5, <2>1, CfgAdvance
<1>9. IsRegion(hugr, block)
  BY <1>1 DEF IsRegion
<1>10. IsSeq(row) /\ ToSet(row) \subseteq Mailbox /\ Len(row) \in Nat
  BY <1>2, <1>3, <1>8, InputRowFacts
<1>11. IsSeq(results) /\ ToSet(results) \subseteq Mailbox
  <2>1. "Output" \in {"Input", "Output"}
    OBVIOUS
  <2>2. out \in NodesOf(hugr)
    BY <1>2, <1>8, <1>9, <2>1, RegionFacts
  <2> HIDE DEF out
  <2> QED BY <1>2, <2>2, RowFacts
<1> HIDE DEF row, results
<1>12. mailboxes \subseteq mailboxes' /\ mailboxes' \subseteq Mailbox /\ ToSet(results) \subseteq mailboxes'
  <2>1. \A r \in {results} : ToSet(r) \subseteq Mailbox
    BY <1>11
  <2>2. /\ mailboxes \subseteq mailboxes' /\ mailboxes' \subseteq Mailbox
        /\ \A r \in {results} : ToSet(r) \subseteq mailboxes'
    BY <1>1, <1>2, <2>1, AllocateFacts
  <2> QED BY <2>2
<1>13. CodeOK(c) /\ c.pos = Top.bb[block] /\ c.blocks = blocks /\ Open(c) = Open(Code)
  <2>1. Top.bb[block] \in DOMAIN Code.blocks
    BY <1>2, <1>3, <1>8
  <2> QED BY <1>2, <2>1, AtCode
<1> HIDE DEF c
<1>14. CodeOK(d) /\ d.pos = Top.bb[block] /\ Len(d.blocks) = L /\ Open(d) = Open(Code)
  <2>1. c.pos \in Open(c)
    BY <1>3, <1>8, <1>13
  <2>2. CodeOK(d) /\ d.pos = c.pos /\ Len(d.blocks) = Len(c.blocks) /\ Open(d) = Open(c)
    BY <1>10, <1>13, <2>1, ReadCode
  <2> QED BY <1>13, <2>2
<1> HIDE DEF d
<1>15. FrameOK(hugr, f, Len(d.blocks), mailboxes')
  <2>1. f.next \in 1 .. Len(hugr.kids[f.node]) + 1
    <3>1. Len(kids) \in Nat
      BY <1>2, <1>3, KidsFacts
    <3> QED BY <1>1, <1>3, <1>5, <3>1
  <2>2. /\ IsSeq(Top.outputs) /\ ToSet(Top.outputs) \subseteq mailboxes
        /\ \A m \in CfgBlocks(hugr, Top.node) : Top.bb[m] \in 1 .. L
        /\ \A m, k \in CfgBlocks(hugr, Top.node) : Top.bb[m] = Top.bb[k] => m = k
    BY <1>3 DEF IsCfg
  <2>3. f = [is |-> "cfg", node |-> f.node, bb |-> f.bb, outputs |-> f.outputs,
             next |-> f.next, home |-> f.home]
    BY <1>3, <1>4, <1>5
  <2>4. f.home \in 1 .. L
    BY <1>2, <1>5
  <2>5. IsCfg(hugr, f, L, mailboxes')
    BY <1>3, <1>5, <1>12, <2>1, <2>2, <2>3, <2>4 DEF IsCfg
  <2> QED BY <1>14, <2>5 DEF FrameOK
<1>16. FrameOK(hugr, g, Len(d.blocks), mailboxes')
  <2>1. IsSeq(Upcoming(c, Len(row))) /\ ToSet(Upcoming(c, Len(row))) \subseteq (0 .. L) \X Nat
    BY <1>10, <1>13, UpcomingFacts
  <2>2. IsDataflow(hugr, g, L, mailboxes')
    BY <1>6, <1>7, <1>8, <1>9, <1>11, <1>12, <2>1 DEF IsDataflow
  <2> QED BY <1>14, <2>2 DEF FrameOK
<1> DEFINE free == Open(d) \ (DOMAIN blocks \ Mine(hugr, Code, stack))
<1>17. free = Owed(hugr, Top)
  BY <1>2, <1>3, <1>14
<1>18. free = Open(d) \ (DOMAIN blocks \ Mine(hugr, Code, stack))
  OBVIOUS
<1>19. \A k \in DOMAIN blocks \ Mine(hugr, Code, stack) : k \in Open(d) <=> k \in Open(Code)
  BY <1>14
<1>20. /\ Owed(hugr, f) \subseteq free /\ free \subseteq Owed(hugr, f) \cup {d.pos}
       /\ d.pos \in free \ Owed(hugr, f)
  BY <1>8, <1>14, <1>17
<1>21. /\ f.home \notin Open(d) /\ f.is = Top.is /\ hugr.kind[block] # "FuncDefn"
       /\ Calls(hugr, f, g) /\ Len(d.blocks) \in Nat /\ Len(d.blocks) >= L
  BY <1>1, <1>2, <1>3, <1>5, <1>7, <1>8, <1>14 DEF Calls
<1> HIDE DEF free
<1> QED BY <1>1, <1>3, <1>5, <1>7, <1>8, <1>12, <1>14, <1>15, <1>16, <1>18, <1>19, <1>20, <1>21, CallStep

\* A child of a CFG that is not one of its basic blocks to be entered.
LEMMA CfgGoesOn ==
  ASSUME IInv, Running("cfg"), NEW n, Top.next <= Len(hugr.kids[Top.node]),
         n = hugr.kids[Top.node][Top.next], hugr.kind[n] # "DataflowBlock",
         hugr' = hugr, phase' = phase, mailboxes' = mailboxes,
         NEW d, SetCode(d), CodeOK(d), d.pos = pos, Len(d.blocks) = Len(blocks),
         Open(d) = Open(Code), stack' = ReplaceTop([Top EXCEPT !.next = Top.next + 1]),
         todo' = IF hugr.kind[n] = "FuncDefn" THEN todo \cup {n} ELSE todo
  PROVE  IInv'
<1> DEFINE x == Top.next + 1
           f == [Top EXCEPT !.next = x]
           t == Append(Front(stack), f)
           kids == hugr.kids[Top.node]
<1>1. stack' = t
  BY DEF ReplaceTop
<1>2. /\ hugr \in Hugrs /\ Sound(hugr, Code, stack, mailboxes) /\ stack # <<>>
      /\ IsSeq(stack) /\ Len(stack) \in Nat \ {0} /\ Top = stack[Len(stack)]
      /\ Code.pos = pos /\ Code.blocks = blocks /\ Len(blocks) \in Nat /\ Last(stack) = Top
      /\ phase = "emitting" /\ mailboxes \subseteq Mailbox
  BY TopFacts DEF Top
<1>3. /\ IsCfg(hugr, Top, Len(blocks), mailboxes) /\ Top.is = "cfg"
      /\ Top.node \in NodesOf(hugr) /\ hugr.kind[Top.node] = "CFG"
      /\ Top = [is |-> Top.is, node |-> Top.node, bb |-> Top.bb, outputs |-> Top.outputs,
                next |-> Top.next, home |-> Top.home]
      /\ Top.next \in 1 .. Len(kids) + 1
  BY CfgTopFacts
<1> HIDE DEF x
<1>4. f = [is |-> Top.is, node |-> Top.node, bb |-> Top.bb, outputs |-> Top.outputs,
           next |-> x, home |-> Top.home]
  <2>1. [Top EXCEPT !.next = x]
          = [is |-> Top.is, node |-> Top.node, bb |-> Top.bb, outputs |-> Top.outputs,
             next |-> x, home |-> Top.home]
    BY <1>3, NextFrame
  <2> QED BY <2>1
<1> HIDE DEF f
<1>5. /\ f.is = "cfg" /\ f.node = Top.node /\ f.bb = Top.bb /\ f.outputs = Top.outputs
      /\ f.next = Top.next + 1 /\ f.home = Top.home
  BY <1>3, <1>4 DEF x
<1>6. /\ n \in ChildrenOf(hugr, Top.node) /\ n \in NodesOf(hugr)
      /\ ToCome(hugr, Top) \subseteq ToCome(hugr, f) \cup {n}
      /\ Owed(hugr, f) = Owed(hugr, Top)
  BY <1>5, CfgAdvance
<1>7. ChildrenOf(hugr, n) = {}
  <2>1. hugr.kind[n] \in {"ExitBlock"} \cup Silent
    BY <1>2, <1>3, <1>6, CfgFacts
  <2> QED BY <1>2, <1>3, <1>6, <2>1, NoKids
<1>8. FrameOK(hugr, f, Len(d.blocks), mailboxes')
  <2>1. f.next \in 1 .. Len(hugr.kids[f.node]) + 1
    <3>1. Len(kids) \in Nat
      BY <1>2, <1>3, KidsFacts
    <3> QED BY <1>3, <1>5, <3>1
  <2>2. f = [is |-> "cfg", node |-> f.node, bb |-> f.bb, outputs |-> f.outputs,
             next |-> f.next, home |-> f.home]
    BY <1>3, <1>4, <1>5
  <2>3. IsCfg(hugr, f, Len(blocks), mailboxes)
    BY <1>3, <1>5, <2>1, <2>2 DEF IsCfg
  <2> QED BY <2>3 DEF FrameOK
<1>9. Sound(hugr, d, t, mailboxes')
  BY <1>2, <1>3, <1>5, <1>6, <1>8, ReplaceSound
<1>10. PICK S \in SUBSET NodesOf(hugr) : VisitedAre(hugr, stack, todo, S)
  BY DEF IInv
<1>11. Same(stack, t) /\ Len(t) = Len(stack) /\ t[Len(stack)] = f
  BY <1>2, ReplaceFacts
<1> HIDE DEF t
<1>12. VisitedAre(hugr, t, FuncDefns(hugr, S \cup {n}), S \cup {n})
  <2>1. Len(stack) \in Len(stack) .. Len(t)
    BY <1>2, <1>11
  <2>2. \A m \in ToCome(hugr, stack[Len(stack)]) : m \in {n} \/ \E k \in Len(stack) .. Len(t) :
           t[k].node = stack[Len(stack)].node /\ m \in ToCome(hugr, t[k])
    BY <1>2, <1>5, <1>6, <1>11, <2>1
  <2> QED BY <1>2, <1>6, <1>7, <1>10, <1>11, <2>2, NextVisited
<1>13. FuncDefns(hugr, S \cup {n}) = todo'
  <2>1. FuncDefns(hugr, S \cup {n}) = IF hugr.kind[n] = "FuncDefn" THEN todo \cup {n} ELSE todo
    <3>1. n # hugr.root /\ todo = FuncDefns(hugr, S)
      BY <1>2, <1>3, <1>6, <1>10, RootIsNoChild DEF VisitedAre
    <3> QED BY <3>1, VisitedDefns
  <2> QED BY <2>1
<1>14. VisitedAre(hugr, stack', todo', S \cup {n})
  BY <1>1, <1>12, <1>13
<1> QED BY <1>1, <1>2, <1>9, <1>14, Stepped

LEMMA CfgDefinitionStep ==
  ASSUME IInv, EmitCfgDefinition
  PROVE  IInv'
<1> DEFINE n == hugr.kids[Top.node][Top.next]
<1>1. /\ Running("cfg") /\ Top.next <= Len(hugr.kids[Top.node]) /\ hugr.kind[n] \in Silent
      /\ stack' = ReplaceTop([Top EXCEPT !.next = Top.next + 1])
      /\ todo' = IF hugr.kind[n] = "FuncDefn" THEN todo \cup {n} ELSE todo
      /\ UNCHANGED <<hugr, blocks, pos, mailboxes, phase>>
  BY DEF EmitCfgDefinition, CfgChild
<1>2. CodeOK(Code) /\ Code.pos = pos /\ Code.blocks = blocks
  BY <1>1, TopFacts
<1>3. SetCode(Code)
  BY <1>1, <1>2 DEF SetCode
<1>4. hugr.kind[n] # "DataflowBlock"
  BY <1>1 DEF Silent
<1>5. n = hugr.kids[Top.node][Top.next]
  OBVIOUS
<1> HIDE DEF n
<1> QED BY <1>1, <1>2, <1>3, <1>4, <1>5, CfgGoesOn

LEMMA ExitBlockStep ==
  ASSUME IInv, EmitExitBlock
  PROVE  IInv'
<1> DEFINE n == hugr.kids[Top.node][Top.next]
           b == Top.bb[Exit(Top.node)]
           row == ExitRow(Top.node)
           c == At(Code, b)
           r == Read(c, row)
           vs == Upcoming(c, Len(row))
           w == Write(r, Top.outputs, vs)
           d == At(w, pos)
<1>1. /\ Running("cfg") /\ Top.next <= Len(hugr.kids[Top.node]) /\ hugr.kind[n] = "ExitBlock"
      /\ stack' = ReplaceTop([Top EXCEPT !.next = Top.next + 1]) /\ SetCode(d)
      /\ UNCHANGED <<hugr, mailboxes, todo, phase>>
  BY DEF EmitExitBlock, CfgChild
<1>2. /\ hugr \in Hugrs /\ CodeOK(Code) /\ Code.pos = pos /\ Code.blocks = blocks
      /\ pos \in DOMAIN blocks /\ Open(Code) \subseteq DOMAIN blocks
  BY <1>1, TopFacts
<1>3. /\ Top.node \in NodesOf(hugr) /\ hugr.kind[Top.node] = "CFG" /\ IsSeq(Top.outputs)
      /\ Owed(hugr, Top) \subseteq Open(Code) \ {1}
      /\ Owed(hugr, Top) = {Top.bb[m] : m \in {k \in CfgBlocks(hugr, Top.node) :
                              hugr.kind[k] = "ExitBlock" \/ k \in Ahead(hugr, Top)}}
  BY <1>1, CfgTopFacts DEF IsCfg
<1>4. b \in Open(Code)
  <2>1. Exit(Top.node) \in CfgBlocks(hugr, Top.node) /\ hugr.kind[Exit(Top.node)] = "ExitBlock"
    BY <1>2, <1>3, CfgFacts
  <2> QED BY <1>3, <2>1
<1>5. IsSeq(row)
  BY <1>2, <1>3, ExitRowFacts
<1> HIDE DEF b, row
<1>6. CodeOK(c) /\ c.pos = b /\ c.blocks = blocks /\ Open(c) = Open(Code)
  BY <1>2, <1>4, AtCode
<1> HIDE DEF c
<1>7. CodeOK(r) /\ r.pos = b /\ Len(r.blocks) = Len(blocks) /\ Open(r) = Open(Code)
  <2>1. c.pos \in Open(c)
    BY <1>4, <1>6
  <2>2. CodeOK(r) /\ r.pos = c.pos /\ Len(r.blocks) = Len(c.blocks) /\ Open(r) = Open(c)
    BY <1>5, <1>6, <2>1, ReadCode
  <2> QED BY <1>6, <2>2
<1> HIDE DEF r, vs
<1>8. CodeOK(w) /\ Len(w.blocks) = Len(blocks) /\ Open(w) = Open(Code)
  <2>1. r.pos \in Open(r)
    BY <1>4, <1>7
  <2>2. CodeOK(w) /\ Len(w.blocks) = Len(r.blocks) /\ Open(w) = Open(r)
    BY <1>3, <1>7, <2>1, WriteCode
  <2> QED BY <1>7, <2>2
<1> HIDE DEF w
<1>9. CodeOK(d) /\ d.pos = pos /\ Len(d.blocks) = Len(blocks) /\ Open(d) = Open(Code)
  <2>1. pos \in DOMAIN w.blocks
    BY <1>2, <1>8, SeqFacts DEF CodeOK
  <2>2. CodeOK(d) /\ d.pos = pos /\ d.blocks = w.blocks /\ Open(d) = Open(w)
    BY <1>8, <2>1, AtCode
  <2> QED BY <1>8, <2>2
<1> HIDE DEF d
<1>10. /\ n = hugr.kids[Top.node][Top.next] /\ hugr.kind[n] # "DataflowBlock"
       /\ todo' = IF hugr.kind[n] = "FuncDefn" THEN todo \cup {n} ELSE todo
  BY <1>1
<1> HIDE DEF n
<1> QED BY <1>1, <1>9, <1>10, CfgGoesOn

-----------------------------------------------------------------------------
(* Returning.                                                              *)

LEMMA BelowFacts ==
  ASSUME IInv, NEW is, Running(is), Len(stack) > 1
  PROVE  /\ FrameOK(hugr, Below, Len(blocks), mailboxes) /\ Calls(hugr, Below, Top)
         /\ Below = stack[Len(stack) - 1]
<1>1. /\ FramesOK(hugr, stack, Len(blocks), mailboxes) /\ Len(stack) \in Nat
      /\ Top = stack[Len(stack)]
  BY TopFacts DEF Sound
<1>2. Len(stack) - 1 \in 1 .. Len(stack) /\ Len(stack) - 1 \in 1 .. Len(stack) - 1
      /\ (Len(stack) - 1) + 1 = Len(stack)
  BY <1>1
<1> DEFINE k == Len(stack) - 1
<1>3. Below = stack[k]
  BY DEF Below
<1>4. k \in 1 .. Len(stack) /\ k \in 1 .. Len(stack) - 1 /\ k + 1 = Len(stack)
  BY <1>2
<1> HIDE DEF k
<1>5. FrameOK(hugr, stack[k], Len(blocks), mailboxes) /\ Calls(hugr, stack[k], stack[k + 1])
  BY <1>1, <1>4 DEF FramesOK
<1> QED BY <1>1, <1>3, <1>4, <1>5 DEF k

\* The innermost activation has nothing left to visit and returns.
LEMMA PopStep ==
  ASSUME IInv, NEW is, Running(is), ToCome(hugr, Top) = {},
         hugr' = hugr, phase' = phase, todo' = todo, mailboxes' = mailboxes, stack' = Pop,
         NEW d, SetCode(d), CodeOK(d), Len(d.blocks) \in Nat, Len(d.blocks) >= Len(blocks),
         \A b \in DOMAIN blocks \ Mine(hugr, Code, stack) : b \in Open(d) <=> b \in Open(Code),
         NEW free, free = Open(d) \ (DOMAIN blocks \ Mine(hugr, Code, stack)),
         free \subseteq {d.pos},
         Len(stack) > 1 => IF Below.is = "dataflow" THEN d.pos \in free ELSE d.pos = Below.home
  PROVE  IInv'
<1> DEFINE t == Front(stack)
<1>1. /\ hugr \in Hugrs /\ Sound(hugr, Code, stack, mailboxes) /\ stack # <<>>
      /\ IsSeq(stack) /\ Len(stack) \in Nat \ {0} /\ Top = stack[Len(stack)]
      /\ Code.pos = pos /\ Code.blocks = blocks /\ phase = "emitting" /\ mailboxes \subseteq Mailbox
  BY TopFacts
<1>2. stack' = t
  BY DEF Pop
<1>3. Free(hugr, Code, d, stack) = free
  BY <1>1 DEF Free
<1>4. Len(stack) > 1 => Below = stack[Len(stack) - 1]
  BY BelowFacts
<1>5. Sound(hugr, d, t, mailboxes')
  <2>1. \A b \in DOMAIN Code.blocks \ Mine(hugr, Code, stack) : b \in Open(d) <=> b \in Open(Code)
    BY <1>1
  <2>2. /\ Free(hugr, Code, d, stack) \subseteq {d.pos} /\ Len(d.blocks) >= Len(Code.blocks)
        /\ Len(stack) > 1 => IF stack[Len(stack) - 1].is = "dataflow"
                             THEN d.pos \in Free(hugr, Code, d, stack)
                             ELSE d.pos = stack[Len(stack) - 1].home
    BY <1>1, <1>3, <1>4
  <2>3. Sound(hugr, d, Front(stack), mailboxes)
    BY <1>1, <2>1, <2>2, PopSound
  <2> QED BY <2>3
<1>6. PICK S \in SUBSET NodesOf(hugr) : VisitedAre(hugr, stack, todo, S)
  BY DEF IInv
<1>7. Same(stack, t) /\ Len(t) = Len(stack) - 1
  BY <1>1, FrontFacts
<1> HIDE DEF t
<1>8. VisitedAre(hugr, t, FuncDefns(hugr, S \cup {}), S \cup {})
  <2>1. Len(t) \in Nat
    BY <1>1, <1>7
  <2>2. ToCome(hugr, stack[Len(stack)]) = {}
    BY <1>1
  <2> QED BY <1>1, <1>6, <1>7, <2>1, <2>2, NextVisited
<1>9. S \cup {} = S /\ todo = FuncDefns(hugr, S)
  BY <1>6 DEF VisitedAre
<1>10. VisitedAre(hugr, stack', todo', S)
  BY <1>2, <1>8, <1>9
<1> QED BY <1>1, <1>2, <1>5, <1>10, Stepped

\* A dataflow parent whose children have been visited returns.
LEMMA DataflowDone ==
  ASSUME IInv, NEW is, Completed(is)
  PROVE  /\ Running("dataflow") /\ Len(stack) > 1 /\ Below.is = is /\ ToCome(hugr, Top) = {}
         /\ Mine(hugr, Code, stack) = {pos} /\ pos \in Open(Code) /\ pos \in DOMAIN blocks
         /\ FrameOK(hugr, Below, Len(blocks), mailboxes) /\ Calls(hugr, Below, Top)
<1>1. Running("dataflow") /\ Top.left = {} /\ Len(stack) > 1 /\ Below.is = is
  BY DEF Completed
<1>2. /\ Top = stack[Len(stack)] /\ Top.is = "dataflow" /\ Code.pos = pos
      /\ Placed(hugr, Code, stack) /\ pos \in DOMAIN blocks
  BY <1>1, TopFacts
<1>3. ToCome(hugr, Top) = {} /\ Owed(hugr, Top) = {}
  BY <1>1, <1>2 DEF ToCome, Owed
<1>4. Mine(hugr, Code, stack) = {pos} /\ pos \in Open(Code)
  BY <1>2, <1>3 DEF Mine, Placed
<1> QED BY <1>1, <1>2, <1>3, <1>4, BelowFacts

LEMMA LeaveDfgStep ==
  ASSUME IInv, LeaveDfg
  PROVE  IInv'
<1>1. /\ Completed("dataflow") /\ stack' = Pop
      /\ UNCHANGED <<hugr, blocks, pos, mailboxes, todo, phase>>
  BY DEF LeaveDfg
<1>2. /\ Running("dataflow") /\ Below.is = "dataflow" /\ ToCome(hugr, Top) = {}
      /\ Mine(hugr, Code, stack) = {pos} /\ pos \in Open(Code)
  BY <1>1, DataflowDone
<1>3. /\ CodeOK(Code) /\ Code.pos = pos /\ Code.blocks = blocks /\ Len(blocks) \in Nat
      /\ Open(Code) \subseteq DOMAIN blocks
  BY <1>2, TopFacts
<1>4. SetCode(Code)
  BY <1>1, <1>3 DEF SetCode
<1> DEFINE free == Open(Code) \ (DOMAIN blocks \ Mine(hugr, Code, stack))
<1>5. free = {pos} /\ free = Open(Code) \ (DOMAIN blocks \ Mine(hugr, Code, stack))
  BY <1>2, <1>3
<1> HIDE DEF free
<1>6. \A b \in DOMAIN blocks \ Mine(hugr, Code, stack) : b \in Open(Code) <=> b \in Open(Code)
  OBVIOUS
<1>7. free \subseteq {Code.pos} /\ Code.pos \in free /\ Len(Code.blocks) \in Nat /\ Len(Code.blocks) >= Len(blocks)
  BY <1>3, <1>5
<1> QED BY <1>1, <1>2, <1>3, <1>4, <1>5, <1>6, <1>7, PopStep

LEMMA LeaveCaseStep ==
  ASSUME IInv, LeaveCase
  PROVE  IInv'
<1> DEFINE a == Build(Code, <<Branch(Below.exit)>>)
           d == At(a, Below.home)
           free == Open(d) \ (DOMAIN blocks \ Mine(hugr, Code, stack))
<1>1. /\ Completed("conditional") /\ stack' = Pop /\ SetCode(d)
      /\ UNCHANGED <<hugr, mailboxes, todo, phase>>
  BY DEF LeaveCase
<1>2. /\ Running("dataflow") /\ Below.is = "conditional" /\ ToCome(hugr, Top) = {}
      /\ Mine(hugr, Code, stack) = {pos} /\ pos \in Open(Code)
      /\ FrameOK(hugr, Below, Len(blocks), mailboxes)
  BY <1>1, DataflowDone
<1>3. /\ CodeOK(Code) /\ Code.pos = pos /\ Code.blocks = blocks /\ Len(blocks) \in Nat
      /\ Open(Code) \subseteq DOMAIN blocks
  BY <1>2, TopFacts
<1>4. Below.home \in 1 .. Len(blocks)
  BY <1>2 DEF FrameOK, IsDataflow, IsConditional, IsCfg
<1>5. CodeOK(a) /\ Len(a.blocks) = Len(blocks) /\ Open(a) = Open(Code) \ {pos}
  <2>1. IsTerminator(Branch(Below.exit))
    BY DEF IsTerminator, Branch
  <2> QED BY <1>2, <1>3, <2>1, TerminateCode
<1> HIDE DEF a
<1>6. CodeOK(d) /\ d.pos = Below.home /\ Len(d.blocks) = Len(blocks) /\ Open(d) = Open(Code) \ {pos}
  <2>1. Below.home \in DOMAIN a.blocks
    BY <1>4, <1>5, SeqFacts DEF CodeOK
  <2>2. CodeOK(d) /\ d.pos = Below.home /\ d.blocks = a.blocks /\ Open(d) = Open(a)
    BY <1>5, <2>1, AtCode
  <2> QED BY <1>5, <2>2
<1> HIDE DEF d
<1>7. free = {} /\ free = Open(d) \ (DOMAIN blocks \ Mine(hugr, Code, stack))
  BY <1>2, <1>3, <1>6
<1>8. \A b \in DOMAIN blocks \ Mine(hugr, Code, stack) : b \in Open(d) <=> b \in Open(Code)
  BY <1>2, <1>6
<1> HIDE DEF free
<1>9. free \subseteq {d.pos} /\ Below.is # "dataflow" /\ Len(d.blocks) \in Nat /\ Len(d.blocks) >= Len(blocks)
  BY <1>2, <1>3, <1>6, <1>7
<1> QED BY <1>1, <1>2, <1>6, <1>7, <1>8, <1>9, PopStep

LEMMA LeaveCfgStep ==
  ASSUME IInv, LeaveCfg
  PROVE  IInv'
<1> DEFINE b == Top.bb[Exit(Top.node)]
           d == At(Code, b)
           free == Open(d) \ (DOMAIN blocks \ Mine(hugr, Code, stack))
<1>1. /\ Running("cfg") /\ Top.next > Len(hugr.kids[Top.node]) /\ stack' = Pop
      /\ pos' = b /\ UNCHANGED <<hugr, blocks, mailboxes, todo, phase>>
  BY DEF LeaveCfg
<1>2. /\ hugr \in Hugrs /\ CodeOK(Code) /\ Code.pos = pos /\ Code.blocks = blocks
      /\ Len(blocks) \in Nat /\ Open(Code) \subseteq DOMAIN blocks /\ Len(stack) \in Nat \ {0}
  BY <1>1, TopFacts
<1>3. /\ Top.is = "cfg" /\ Top.node \in NodesOf(hugr) /\ hugr.kind[Top.node] = "CFG"
      /\ Top.next \in 1 .. Len(hugr.kids[Top.node]) + 1
      /\ Mine(hugr, Code, stack) = Owed(hugr, Top) /\ Owed(hugr, Top) \subseteq Open(Code) \ {1}
      /\ Owed(hugr, Top) = {Top.bb[m] : m \in {k \in CfgBlocks(hugr, Top.node) :
                              hugr.kind[k] = "ExitBlock" \/ k \in Ahead(hugr, Top)}}
  BY <1>1, CfgTopFacts
<1>4. Ahead(hugr, Top) = {}
  <2>1. Len(hugr.kids[Top.node]) \in Nat
    BY <1>2, <1>3, KidsFacts
  <2>2. Top.next .. Len(hugr.kids[Top.node]) = {}
    BY <1>1, <1>3, <2>1
  <2> QED BY <2>2 DEF Ahead
<1>5. ToCome(hugr, Top) = {}
  BY <1>3, <1>4 DEF ToCome
<1>6. Owed(hugr, Top) = {b}
  <2>1. /\ Exit(Top.node) \in CfgBlocks(hugr, Top.node)
        /\ \A m \in CfgBlocks(hugr, Top.node) : hugr.kind[m] = "ExitBlock" <=> m = Exit(Top.node)
    BY <1>2, <1>3, CfgFacts
  <2>2. {k \in CfgBlocks(hugr, Top.node) : hugr.kind[k] = "ExitBlock" \/ k \in Ahead(hugr, Top)}
          = {Exit(Top.node)}
    BY <1>4, <2>1
  <2> QED BY <1>3, <2>2
<1> HIDE DEF b
<1>7. CodeOK(d) /\ d.pos = b /\ d.blocks = blocks /\ Open(d) = Open(Code)
  <2>1. b \in DOMAIN Code.blocks
    BY <1>2, <1>3, <1>6
  <2> QED BY <1>2, <2>1, AtCode
<1> HIDE DEF d
<1>8. SetCode(d)
  BY <1>1, <1>7 DEF SetCode
<1>9. free = {b} /\ free = Open(d) \ (DOMAIN blocks \ Mine(hugr, Code, stack))
  BY <1>2, <1>3, <1>6, <1>7
<1>10. \A k \in DOMAIN blocks \ Mine(hugr, Code, stack) : k \in Open(d) <=> k \in Open(Code)
  BY <1>7
<1> HIDE DEF free
<1>11. free \subseteq {d.pos} /\ d.pos \in free /\ Len(d.blocks) \in Nat /\ Len(d.blocks) >= Len(blocks)
  BY <1>2, <1>7, <1>9
<1>12. Len(stack) > 1 => Below.is = "dataflow"
  <2>1. ASSUME Len(stack) > 1
        PROVE  Below.is = "dataflow"
    <3>1. Calls(hugr, Below, Top)
      BY <1>1, <2>1, BelowFacts
    <3> QED BY <1>3, <3>1 DEF Calls
  <2> QED BY <2>1
<1> QED BY <1>1, <1>5, <1>7, <1>8, <1>9, <1>10, <1>11, <1>12, PopStep

\* A sum without variants.
LEMMA PanicStep ==
  ASSUME IInv, phase' = "panicked", UNCHANGED <<hugr, blocks, pos, mailboxes, todo, stack>>
  PROVE  IInv'
<1>1. CodeOK(Code) /\ Sound(hugr, Code, stack, mailboxes) /\ mailboxes \subseteq Mailbox
  BY DEF IInv, Sound
<1>2. Code.blocks = blocks /\ Code.pos = pos
  BY DEF Code
<1>3. SetCode(Code)
  BY <1>2 DEF SetCode
<1>4. PICK S \in SUBSET NodesOf(hugr) : VisitedAre(hugr, stack, todo, S)
  BY DEF IInv
<1> QED BY <1>1, <1>3, <1>4, Stepped

LEMMA LeaveConditionalStep ==
  ASSUME IInv, LeaveConditional
  PROVE  IInv'
<1> DEFINE kids == hugr.kids[Top.node]
           widths == hugr.rows[Top.node]
           rows == [i \in DOMAIN widths |-> CaseRow(kids[i])]
           sum == Top.inputs[1]
           rest == Tail(Top.inputs)
           targets == Top.cases
           a == Destructure(Code, sum, widths, rows, rest, targets)
           d == At(a, Top.exit)
           free == Open(d) \ (DOMAIN blocks \ Mine(hugr, Code, stack))
<1>1. /\ Running("conditional") /\ Len(Top.cases) = Len(kids)
      /\ UNCHANGED <<hugr, mailboxes, todo>>
      /\ \/ phase' = "panicked" /\ UNCHANGED <<blocks, pos, stack>>
         \/ SetCode(d) /\ stack' = Pop /\ phase' = phase
  BY DEF LeaveConditional
<1>2. CASE phase' = "panicked" /\ UNCHANGED <<blocks, pos, stack>>
  BY <1>1, <1>2, PanicStep
<1>3. CASE SetCode(d) /\ stack' = Pop /\ phase' = phase
  <2>1. /\ hugr \in Hugrs /\ CodeOK(Code) /\ Code.pos = pos /\ Code.blocks = blocks
        /\ Len(blocks) \in Nat /\ DOMAIN blocks = 1 .. Len(blocks) /\ pos \in DOMAIN blocks
        /\ Open(Code) \subseteq DOMAIN blocks
    BY <1>1, TopFacts
  <2>2. /\ IsConditional(hugr, Top, Len(blocks), mailboxes) /\ Top.is = "conditional"
        /\ Top.node \in NodesOf(hugr) /\ Mine(hugr, Code, stack) = {Top.exit, pos}
        /\ {Top.exit, pos} \subseteq Open(Code) \ {1} /\ Top.exit # pos
        /\ \A m \in ChildrenOf(hugr, Top.node) : IsRegion(hugr, m)
        /\ Len(widths) = Len(kids)
    BY <1>1, ConditionalFacts
  <2>3. /\ Len(kids) \in Nat /\ ChildrenOf(hugr, Top.node) \subseteq NodesOf(hugr)
        /\ \A i \in 1 .. Len(kids) : kids[i] \in ChildrenOf(hugr, Top.node)
    BY <2>1, <2>2, KidsFacts
  <2>4. widths \in Seq(Nat) /\ DOMAIN widths = 1 .. Len(kids)
    <3>1. hugr.rows \in [NodesOf(hugr) -> Seq(Nat)]
      BY <2>1, HugrAssumption
    <3>2. widths \in Seq(Nat)
      BY <2>2, <3>1
    <3> QED BY <2>2, <3>2
  <2>5. ToCome(hugr, Top) = {}
    <3>1. Len(Top.cases) + 1 .. Len(kids) = {}
      BY <1>1, <2>3
    <3> QED BY <2>2, <3>1 DEF ToCome
  <2> HIDE DEF kids, widths
  <2>6. \A i \in DOMAIN widths : IsSeq(rows[i])
    <3>1. ASSUME NEW i \in DOMAIN widths
          PROVE  IsSeq(CaseRow(kids[i]))
      <4>1. kids[i] \in NodesOf(hugr) /\ IsRegion(hugr, kids[i])
        BY <2>2, <2>3, <2>4
      <4> QED BY <2>1, <4>1, CaseRowFacts
    <3> QED BY <3>1
  <2> HIDE DEF rows, sum, rest, targets
  <2>7. CodeOK(a) /\ Len(a.blocks) = Len(blocks) + Len(widths) /\ Open(a) = Open(Code) \ {pos}
    <3>1. Code.pos \in Open(Code)
      BY <2>1, <2>2
    <3>2. /\ CodeOK(a) /\ Len(a.blocks) = Len(Code.blocks) + Len(widths)
          /\ Open(a) = Open(Code) \ {Code.pos}
      BY <2>1, <2>4, <2>6, <3>1, DestructureCode
    <3> QED BY <2>1, <3>2
  <2> HIDE DEF a
  <2>8. /\ CodeOK(d) /\ d.pos = Top.exit /\ Len(d.blocks) = Len(blocks) + Len(widths)
        /\ Open(d) = Open(Code) \ {pos}
    <3>1. Top.exit \in DOMAIN a.blocks
      BY <2>2, <2>7 DEF Open
    <3>2. CodeOK(d) /\ d.pos = Top.exit /\ d.blocks = a.blocks /\ Open(d) = Open(a)
      BY <2>7, <3>1, AtCode
    <3> QED BY <2>7, <3>2
  <2>9. Len(d.blocks) \in Nat /\ Len(d.blocks) >= Len(blocks)
    BY <2>1, <2>2, <2>3, <2>8
  <2> HIDE DEF d
  <2>10. free = {Top.exit} /\ free = Open(d) \ (DOMAIN blocks \ Mine(hugr, Code, stack))
    BY <2>1, <2>2, <2>8
  <2>11. \A k \in DOMAIN blocks \ Mine(hugr, Code, stack) : k \in Open(d) <=> k \in Open(Code)
    BY <2>2, <2>8
  <2> HIDE DEF free
  <2>12. free \subseteq {d.pos} /\ d.pos \in free
    BY <2>8, <2>10
  <2>13. Len(stack) > 1 => Below.is = "dataflow"
    <3>1. ASSUME Len(stack) > 1
          PROVE  Below.is = "dataflow"
      <4>1. FrameOK(hugr, Below, Len(blocks), mailboxes) /\ Calls(hugr, Below, Top)
        BY <1>1, <3>1, BelowFacts
      <4> QED BY <2>2, <4>1 DEF Calls
    <3> QED BY <3>1
  <2> QED BY <1>1, <1>3, <2>5, <2>8, <2>9, <2>10, <2>11, <2>12, <2>13, PopStep
<1> QED BY <1>1, <1>2, <1>3

LEMMA LeaveBlockStep ==
  ASSUME IInv, LeaveBlock
  PROVE  IInv'
<1> DEFINE block == Top.node
           cfg == Below.node
           widths == hugr.rows[block]
           succ == hugr.succ[block]
           out == TheChild(hugr, block, "Output")
           results == InsRow(out)
           outs == Upcoming(Code, Len(results))
           rows == [i \in DOMAIN widths |-> InputRow(cfg, succ[i])]
           sum == outs[1]
           rest == Tail(outs)
           targets == [i \in DOMAIN widths |-> Below.bb[succ[i]]]
           r == Read(Code, results)
           a == Destructure(r, sum, widths, rows, rest, targets)
           d == At(a, Below.home)
           free == Open(d) \ (DOMAIN blocks \ Mine(hugr, Code, stack))
<1>1. /\ Completed("cfg") /\ UNCHANGED <<hugr, mailboxes, todo>>
      /\ \/ phase' = "panicked" /\ UNCHANGED <<blocks, pos, stack>>
         \/ SetCode(d) /\ stack' = Pop /\ phase' = phase
  BY DEF LeaveBlock
<1>2. CASE phase' = "panicked" /\ UNCHANGED <<blocks, pos, stack>>
  BY <1>1, <1>2, PanicStep
<1>3. CASE SetCode(d) /\ stack' = Pop /\ phase' = phase
  <2>1. /\ Running("dataflow") /\ Below.is = "cfg" /\ ToCome(hugr, Top) = {}
        /\ Mine(hugr, Code, stack) = {pos} /\ pos \in Open(Code)
        /\ FrameOK(hugr, Below, Len(blocks), mailboxes) /\ Calls(hugr, Below, Top)
    BY <1>1, DataflowDone
  <2>2. /\ hugr \in Hugrs /\ CodeOK(Code) /\ Code.pos = pos /\ Code.blocks = blocks
        /\ Len(blocks) \in Nat /\ Open(Code) \subseteq DOMAIN blocks
    BY <2>1, TopFacts
  <2>3. /\ Below.home \in 1 .. Len(blocks) /\ cfg \in NodesOf(hugr) /\ hugr.kind[cfg] = "CFG"
    BY <2>1 DEF FrameOK, IsDataflow, IsConditional, IsCfg
  <2>4. block \in ChildrenOf(hugr, cfg) /\ hugr.kind[block] = "DataflowBlock"
    BY <2>1 DEF Calls
  <2>5. /\ block \in NodesOf(hugr)
        /\ \A i \in DOMAIN widths : succ[i] \in CfgBlocks(hugr, cfg)
    <3>1. ChildrenFit(hugr, cfg) /\ ChildrenOf(hugr, cfg) \subseteq NodesOf(hugr)
      BY <2>2, <2>3, KidsFacts
    <3> QED BY <2>3, <2>4, <3>1 DEF ChildrenFit
  <2>6. widths \in Seq(Nat) /\ Len(widths) \in Nat
    <3>1. hugr.rows \in [NodesOf(hugr) -> Seq(Nat)]
      BY <2>2, HugrAssumption
    <3>2. widths \in Seq(Nat)
      BY <2>5, <3>1
    <3> QED BY <3>2
  <2>7. IsSeq(results)
    <3>1. IsRegion(hugr, block) /\ "Output" \in {"Input", "Output"}
      BY <2>4 DEF IsRegion
    <3>2. out \in NodesOf(hugr)
      BY <2>2, <2>5, <3>1, RegionFacts
    <3> HIDE DEF out
    <3> QED BY <2>2, <3>2, RowFacts
  <2> HIDE DEF widths, succ, cfg
  <2>8. \A i \in DOMAIN widths : IsSeq(rows[i])
    <3>1. ASSUME NEW i \in DOMAIN widths
          PROVE  IsSeq(InputRow(cfg, succ[i]))
      BY <2>2, <2>3, <2>5, InputRowFacts
    <3> QED BY <3>1
  <2> HIDE DEF results, outs, rows, sum, rest, targets
  <2>9. CodeOK(r) /\ r.pos = pos /\ Len(r.blocks) = Len(blocks) /\ Open(r) = Open(Code)
    <3>1. Code.pos \in Open(Code)
      BY <2>1, <2>2
    <3>2. /\ CodeOK(r) /\ r.pos = Code.pos /\ Len(r.blocks) = Len(Code.blocks)
          /\ Open(r) = Open(Code)
      BY <2>2, <2>7, <3>1, ReadCode
    <3> QED BY <2>2, <3>2
  <2> HIDE DEF r
  <2>10. CodeOK(a) /\ Len(a.blocks) = Len(blocks) + Len(widths) /\ Open(a) = Open(Code) \ {pos}
    <3>1. r.pos \in Open(r)
      BY <2>1, <2>9
    <3>2. CodeOK(a) /\ Len(a.blocks) = Len(r.blocks) + Len(widths) /\ Open(a) = Open(r) \ {r.pos}
      <4>1. CodeOK(r)
        BY <2>9
      <4>2. widths \in Seq(Nat)
        BY <2>6
      <4> QED BY <2>8, <3>1, <4>1, <4>2, DestructureCode
    <3> QED BY <2>9, <3>2
  <2> HIDE DEF a
  <2>11. /\ CodeOK(d) /\ d.pos = Below.home /\ Len(d.blocks) = Len(blocks) + Len(widths)
         /\ Open(d) = Open(Code) \ {pos}
    <3>1. Below.home \in DOMAIN a.blocks
      <4>1. DOMAIN a.blocks = 1 .. Len(a.blocks)
        BY <2>10, SeqFacts DEF CodeOK
      <4> QED BY <2>2, <2>3, <2>6, <2>10, <4>1
    <3>2. CodeOK(d) /\ d.pos = Below.home /\ d.blocks = a.blocks /\ Open(d) = Open(a)
      BY <2>10, <3>1, AtCode
    <3> QED BY <2>10, <3>2
  <2>12. Len(d.blocks) \in Nat /\ Len(d.blocks) >= Len(blocks)
    BY <2>2, <2>6, <2>11
  <2> HIDE DEF d
  <2>13. free = {} /\ free = Open(d) \ (DOMAIN blocks \ Mine(hugr, Code, stack))
    BY <2>1, <2>2, <2>11
  <2>14. \A k \in DOMAIN blocks \ Mine(hugr, Code, stack) : k \in Open(d) <=> k \in Open(Code)
    BY <2>1, <2>11
  <2> HIDE DEF free
  <2>15. free \subseteq {d.pos} /\ Below.is # "dataflow"
    BY <2>1, <2>13
  <2> QED BY <1>1, <1>3, <2>1, <2>11, <2>12, <2>13, <2>14, <2>15, PopStep
<1> QED BY <1>1, <1>2, <1>3

LEMMA FinishStep ==
  ASSUME IInv, FinishFunc
  PROVE  IInv'
<1> DEFINE row == Top.outputs
           r == Read(Code, row)
           a == Build(r, <<Return(Upcoming(Code, Len(row)))>>)
           e == At(a, 1)
           d == Build(e, <<Branch(2)>>)
<1>1. /\ Running("dataflow") /\ Top.left = {} /\ Len(stack) = 1 /\ SetCode(d)
      /\ stack' = <<>> /\ phase' = "emitted" /\ UNCHANGED <<hugr, mailboxes, todo>>
  BY DEF FinishFunc
<1>2. /\ hugr \in Hugrs /\ CodeOK(Code) /\ Code.pos = pos /\ Code.blocks = blocks
      /\ Top = stack[Len(stack)] /\ Top.is = "dataflow" /\ IsSeq(stack) /\ stack # <<>>
      /\ FrameOK(hugr, Top, Len(blocks), mailboxes)
      /\ Ledger(hugr, Code, stack) /\ Placed(hugr, Code, stack)
      /\ Open(Code) \subseteq DOMAIN blocks /\ mailboxes \subseteq Mailbox
  BY <1>1, TopFacts
<1>3. Owed(hugr, Top) = {} /\ ToCome(hugr, Top) = {}
  BY <1>1, <1>2 DEF Owed, ToCome
<1>4. Open(Code) = {1, pos} /\ pos # 1
  <2>1. 1 \in Open(Code) /\ \A b \in Open(Code) \ {1, pos} : \E k \in 1 .. 1 : b \in Owed(hugr, stack[k])
    BY <1>1, <1>2 DEF Ledger
  <2>2. pos \in Open(Code) \ {1}
    BY <1>2 DEF Placed
  <2>3. \A k \in 1 .. 1 : Owed(hugr, stack[k]) = {}
    BY <1>1, <1>2, <1>3
  <2> QED BY <2>1, <2>2, <2>3
<1>5. IsSeq(row)
  BY <1>2 DEF FrameOK, IsDataflow, IsConditional, IsCfg
<1> HIDE DEF row
<1>6. CodeOK(r) /\ r.pos = pos /\ Open(r) = Open(Code)
  BY <1>2, <1>4, <1>5, ReadCode
<1> HIDE DEF r
<1>7. CodeOK(a) /\ Open(a) = {1}
  <2>1. IsTerminator(Return(Upcoming(Code, Len(row))))
    BY DEF IsTerminator, Return
  <2>2. CodeOK(a) /\ Open(a) = Open(r) \ {r.pos}
    BY <1>4, <1>6, <2>1, TerminateCode
  <2> QED BY <1>4, <1>6, <2>2
<1> HIDE DEF a
<1>8. CodeOK(e) /\ e.pos = 1 /\ Open(e) = {1}
  <2>1. 1 \in DOMAIN a.blocks
    BY <1>7 DEF Open
  <2> QED BY <1>7, <2>1, AtCode
<1> HIDE DEF e
<1>9. CodeOK(d) /\ Open(d) = {}
  <2>1. IsTerminator(Branch(2))
    BY DEF IsTerminator, Branch
  <2>2. CodeOK(d) /\ Open(d) = Open(e) \ {e.pos}
    BY <1>8, <2>1, TerminateCode
  <2> QED BY <1>8, <2>2
<1> HIDE DEF d
<1>10. Code' = d
  BY <1>1, <1>9, CodeFacts
<1>11. Sound(hugr', Code', stack', mailboxes')
  <2>1. FramesOK(hugr, <<>>, Len(d.blocks), mailboxes)
    BY DEF FramesOK, IsSeq, ToSet
  <2> QED BY <1>1, <1>9, <1>10, <2>1 DEF Sound
<1>12. PICK S \in SUBSET NodesOf(hugr) : VisitedAre(hugr, stack, todo, S)
  BY DEF IInv
<1>13. VisitedAre(hugr, <<>>, FuncDefns(hugr, S \cup {}), S \cup {})
  <2>1. Same(stack, <<>>)
    BY <1>1 DEF Same, IsSeq, ToSet
  <2>2. ToCome(hugr, stack[Len(stack)]) = {} /\ Len(stack) \in Nat \ {0} /\ Len(<<>>) \in Nat
    BY <1>1, <1>2, <1>3
  <2> QED BY <1>12, <2>1, <2>2, NextVisited
<1>14. S \cup {} = S /\ todo = FuncDefns(hugr, S)
  BY <1>12 DEF VisitedAre
<1>15. VisitedAre(hugr', stack', todo', S) /\ S \in SUBSET NodesOf(hugr')
  BY <1>1, <1>13, <1>14
<1>16. mailboxes' \subseteq Mailbox'
  BY <1>1, <1>2 DEF Mailbox
<1> QED BY <1>1, <1>2, <1>9, <1>10, <1>11, <1>15, <1>16 DEF IInv

-----------------------------------------------------------------------------
(* The invariant holds throughout.                                         *)

LEMMA InitSound ==
  ASSUME Init
  PROVE  IInv
<1> DEFINE ret == AnonymousRow("ret", hugr.root, hugr.results)
           ins == [i \in 1 .. hugr.params |-> <<0, i>>]
           f == DataflowFrame(hugr.root, ins, ret)
<1>1. /\ hugr \in Hugrs /\ blocks = <<<<>>, <<>>>> /\ pos = 2 /\ mailboxes = ToSet(ret)
      /\ todo = {} /\ stack = <<f>> /\ phase = "emitting"
  BY DEF Init
<1>2. /\ hugr.root \in NodesOf(hugr) /\ hugr.params \in Nat /\ hugr.results \in Nat
      /\ hugr.kind[hugr.root] = "FuncDefn"
  BY <1>1, HugrAssumption
<1>3. /\ IsSeq(ret) /\ ToSet(ret) \subseteq {"ret"} \X {hugr.root} \X Nat
  BY <1>2, AnonymousFacts
<1> HIDE DEF ret
<1>4. mailboxes \subseteq Mailbox
  BY <1>1, <1>2, <1>3 DEF Mailbox
<1>5. IsSeq(ins) /\ ToSet(ins) \subseteq (0 .. 2) \X Nat
  <2>1. ins \in Seq((0 .. 2) \X Nat)
    BY <1>2
  <2>2. IsSeq(ins)
    BY <2>1, KnownSeq
  <2> HIDE DEF ins
  <2> QED BY <2>1, <2>2 DEF ToSet
<1> HIDE DEF ins
<1>6. /\ Code = [blocks |-> Code.blocks, pos |-> Code.pos]
      /\ Code.blocks = <<<<>>, <<>>>> /\ Code.pos = 2
  BY <1>1 DEF Code
<1>7. CodeOK(Code) /\ Open(Code) = {1, 2} /\ Len(Code.blocks) = 2
  <2>1. IsSeq(<<<<>>, <<>>>>) /\ Len(<<<<>>, <<>>>>) = 2
        /\ DOMAIN <<<<>>, <<>>>> = {1, 2}
    <3>1. <<<<>>, <<>>>> \in Seq({<<>>}) /\ Len(<<<<>>, <<>>>>) = 2
      OBVIOUS
    <3>2. IsSeq(<<<<>>, <<>>>>)
      BY <3>1, KnownSeq
    <3>3. DOMAIN <<<<>>, <<>>>> = {1, 2}
      OBVIOUS
    <3> QED BY <3>1, <3>2, <3>3
  <2>2. \A b \in {1, 2} : Code.blocks[b] = <<>>
    BY <1>6
  <2>3. EndsWell(<<>>)
    BY DEF EndsWell, IsSeq, ToSet
  <2> QED BY <1>6, <2>1, <2>2, <2>3 DEF CodeOK, Open, Closed
<1>8. f = [is |-> "dataflow", node |-> hugr.root, inputs |-> ins, outputs |-> ret,
           left |-> ChildrenOf(hugr, hugr.root)]
  BY DEF DataflowFrame
<1> HIDE DEF f
<1>9. /\ f.is = "dataflow" /\ f.node = hugr.root /\ f.inputs = ins /\ f.outputs = ret
      /\ f.left = ChildrenOf(hugr, hugr.root)
  BY <1>8
<1>10. IsSeq(stack) /\ Len(stack) = 1 /\ stack[1] = f
  BY <1>1, OneSeq
<1>11. FrameOK(hugr, f, 2, mailboxes)
  <2>1. IsDataflow(hugr, f, 2, mailboxes)
    BY <1>1, <1>2, <1>3, <1>5, <1>8, <1>9 DEF IsDataflow, IsRegion
  <2> QED BY <2>1 DEF FrameOK
<1>12. Owed(hugr, f) = {} /\ ToCome(hugr, f) = ChildrenOf(hugr, hugr.root)
  BY <1>9 DEF Owed, ToCome
<1>13. Sound(hugr, Code, stack, mailboxes)
  <2>1. 1 .. 1 = {1} /\ 1 .. 1 - 1 = {}
    OBVIOUS
  <2>2. FramesOK(hugr, stack, 2, mailboxes)
    BY <1>10, <1>11, <2>1 DEF FramesOK
  <2>3. Ledger(hugr, Code, stack)
    BY <1>6, <1>7, <1>10, <1>12, <2>1 DEF Ledger
  <2>4. Placed(hugr, Code, stack)
    BY <1>6, <1>7, <1>9, <1>10, <1>12, <2>1 DEF Placed
  <2> QED BY <1>7, <2>2, <2>3, <2>4 DEF Sound
<1>14. VisitedAre(hugr, stack, todo, {hugr.root})
  <2>1. todo = FuncDefns(hugr, {hugr.root})
    BY <1>1 DEF FuncDefns
  <2>2. \A m \in ChildrenOf(hugr, hugr.root) : \E k \in 1 .. Len(stack) :
           stack[k].node = hugr.root /\ m \in ToCome(hugr, stack[k])
    BY <1>9, <1>10, <1>12
  <2> QED BY <1>2, <2>1, <2>2 DEF VisitedAre
<1> QED BY <1>1, <1>2, <1>4, <1>13, <1>14 DEF IInv

LEMMA Stutters ==
  ASSUME IInv, UNCHANGED vars
  PROVE  IInv'
<1>1. /\ hugr' = hugr /\ mailboxes' = mailboxes /\ todo' = todo /\ stack' = stack
      /\ phase' = phase /\ Code' = Code
  BY DEF vars, Code
<1>2. Mailbox' = Mailbox
  BY <1>1 DEF Mailbox
<1> QED BY <1>1, <1>2 DEF IInv

LEMMA NextSound ==
  ASSUME IInv, [Next]_vars
  PROVE  IInv'
<1>1. CASE VisitChild
  <2>1. PICK n : \/ EmitInput(n) \/ EmitOutput(n) \/ EmitLeaf(n) \/ EmitGuarded(n) \/ EmitSilent(n)
                 \/ EnterDfg(n) \/ EnterConditional(n) \/ EnterCfg(n)
    BY <1>1 DEF VisitChild
  <2> QED BY <2>1, InputStep, OutputStep, LeafStep, GuardedStep, SilentStep, DfgStep,
             ConditionalStep, CfgStep
<1>2. CASE LeaveDfg
  BY <1>2, LeaveDfgStep
<1>3. CASE EnterCase
  BY <1>3, CaseStep
<1>4. CASE LeaveCase
  BY <1>4, LeaveCaseStep
<1>5. CASE LeaveConditional
  BY <1>5, LeaveConditionalStep
<1>6. CASE EnterBlock
  BY <1>6, EnterBlockStep
<1>7. CASE LeaveBlock
  BY <1>7, LeaveBlockStep
<1>8. CASE EmitExitBlock
  BY <1>8, ExitBlockStep
<1>9. CASE EmitCfgDefinition
  BY <1>9, CfgDefinitionStep
<1>10. CASE LeaveCfg
  BY <1>10, LeaveCfgStep
<1>11. CASE FinishFunc
  BY <1>11, FinishStep
<1>12. CASE Halted
  BY <1>12, Stutters DEF Halted
<1>13. CASE UNCHANGED vars
  BY <1>13, Stutters
<1> QED
  BY <1>1, <1>2, <1>3, <1>4, <1>5, <1>6, <1>7, <1>8, <1>9, <1>10, <1>11, <1>12, <1>13
     DEF Next, Emit

\* The invariant the theorems below rest on: the code is well formed, every
\* open block is accounted for by the activations on the stack, and every
\* node is visited or to come.
THEOREM Invariant == Spec => []IInv
<1>1. Init => IInv
  BY InitSound
<1>2. IInv /\ [Next]_vars => IInv'
  BY NextSound
<1> QED BY <1>1, <1>2, PTL DEF Spec

LEMMA FrameTypes ==
  ASSUME IInv, NEW k \in DOMAIN stack
  PROVE  IsFrame(stack[k])
<1>1. /\ CodeOK(Code) /\ FramesOK(hugr, stack, Len(blocks), mailboxes) /\ Code.blocks = blocks
  BY DEF IInv, Sound, Code
<1>2. DOMAIN blocks = 1 .. Len(blocks) /\ DOMAIN stack = 1 .. Len(stack)
  BY <1>1, SeqFacts DEF CodeOK, FramesOK
<1>3. FrameOK(hugr, stack[k], Len(blocks), mailboxes)
  BY <1>1, <1>2 DEF FramesOK
<1> DEFINE f == stack[k]
<1> HIDE DEF f
<1>4. FrameOK(hugr, f, Len(blocks), mailboxes)
  BY <1>3 DEF f
<1>5. CASE IsDataflow(hugr, f, Len(blocks), mailboxes)
  <2>1. /\ f.is = "dataflow" /\ f.node \in NodesOf(hugr) /\ f.left \subseteq ChildrenOf(hugr, f.node)
        /\ ToSet(f.inputs) \subseteq (0 .. Len(blocks)) \X Nat /\ ToSet(f.outputs) \subseteq mailboxes
    BY <1>5 DEF IsDataflow
  <2> QED BY <2>1 DEF IsFrame, Value, f
<1>6. CASE IsConditional(hugr, f, Len(blocks), mailboxes)
  <2>1. /\ f.is = "conditional" /\ f.node \in NodesOf(hugr) /\ f.home \in 1 .. Len(blocks)
        /\ ToSet(f.inputs) \subseteq (0 .. Len(blocks)) \X Nat
    BY <1>6 DEF IsConditional
  <2> QED BY <1>2, <2>1 DEF IsFrame, Value, f
<1>7. CASE IsCfg(hugr, f, Len(blocks), mailboxes)
  <2>1. /\ f.is = "cfg" /\ f.node \in NodesOf(hugr) /\ f.home \in 1 .. Len(blocks)
        /\ ToSet(f.outputs) \subseteq mailboxes
    BY <1>7 DEF IsCfg
  <2> QED BY <1>2, <2>1 DEF IsFrame, f
<1> QED BY <1>4, <1>5, <1>6, <1>7 DEF FrameOK

\* The types of the variables; the builder always stands in a block of the
\* function, and only FuncDefns are handed on.
THEOREM TypeCorrect == Spec => []TypeOK
<1>1. IInv => TypeOK
  <2> SUFFICES ASSUME IInv PROVE TypeOK
    OBVIOUS
  <2>1. pos \in DOMAIN blocks
    BY DEF IInv, Sound, CodeOK, Code
  <2>2. todo \subseteq {n \in NodesOf(hugr) : hugr.kind[n] = "FuncDefn"}
    BY DEF IInv, VisitedAre, FuncDefns
  <2>3. \A i \in DOMAIN stack : IsFrame(stack[i])
    BY FrameTypes
  <2> QED BY <2>1, <2>2, <2>3 DEF TypeOK, IInv
<1> QED BY <1>1, Invariant, PTL

\* Doc of EmitFuncContext::builder: "Callers must ensure that it is positioned
\* at the end of a basic block. This invariant is not checked".  They do: a
\* terminator is the last instruction of its block, and no emitter goes on in,
\* or will be put back into, a block that another has closed.
THEOREM BuilderAtTheEnd == Spec => []NothingAfterATerminator
<1>1. IInv => NothingAfterATerminator
  <2> SUFFICES ASSUME IInv PROVE NothingAfterATerminator
    OBVIOUS
  <2>1. CodeOK(Code) /\ Code.blocks = blocks /\ Code.pos = pos
    BY DEF IInv, Sound, Code
  <2>2. \A b \in DOMAIN blocks : \A i \in DOMAIN blocks[b] :
           IsTerminator(blocks[b][i]) => i = Len(blocks[b])
    BY <2>1 DEF CodeOK, EndsWell
  <2>3. \A b \in Open(Code) : ~Terminated(b)
    BY <2>1 DEF Open, Closed, Terminated
  <2>4. Running("dataflow") => ~Terminated(pos)
    <3>1. ASSUME Running("dataflow") PROVE pos \in Open(Code)
      BY <3>1, TopFacts DEF Placed
    <3> QED BY <2>3, <3>1
  <2>5. ASSUME NEW k \in DOMAIN stack, stack[k].is = "conditional"
        PROVE  ~Terminated(stack[k].home)
    <3>1. IsSeq(stack) /\ stack # <<>> /\ Ledger(hugr, Code, stack)
      BY <2>5 DEF IInv, Sound, FramesOK
    <3>2. k \in 1 .. Len(stack)
      BY <3>1, SeqFacts
    <3>3. Owed(hugr, stack[k]) \subseteq Open(Code)
      BY <3>1, <3>2 DEF Ledger
    <3>4. stack[k].home \in Owed(hugr, stack[k])
      BY <2>5 DEF Owed
    <3> QED BY <2>3, <3>3, <3>4
  <2> QED BY <2>2, <2>4, <2>5 DEF NothingAfterATerminator
<1> QED BY <1>1, Invariant, PTL

\* Every block an emitter opens, or leaves open when it moves the builder on,
\* has been closed by the time emit_func_impl is done.
THEOREM NoBlockIsLeftOpen == Spec => []BlocksAreClosed
<1>1. IInv => BlocksAreClosed
  <2> SUFFICES ASSUME IInv, phase = "emitted", NEW b \in DOMAIN blocks PROVE Terminated(b)
    BY DEF BlocksAreClosed
  <2>1. Open(Code) = {} /\ Code.blocks = blocks
    BY DEF IInv, Code
  <2> QED BY <2>1 DEF Open, Closed, Terminated
<1> QED BY <1>1, Invariant, PTL

\* EmitFuncContext::todo: a FuncDefn scoped anywhere in the function, however
\* deep, has been handed on to emit_func by the time the function is done, and
\* nothing else has.
THEOREM DefinitionsHandedOn == Spec => []ScopedFuncsHandedOn
<1>1. IInv => ScopedFuncsHandedOn
  <2> SUFFICES ASSUME IInv, phase = "emitted"
               PROVE  todo = {n \in NodesOf(hugr) : hugr.kind[n] = "FuncDefn"} \ {hugr.root}
    BY DEF ScopedFuncsHandedOn
  <2>1. PICK S \in SUBSET NodesOf(hugr) : VisitedAre(hugr, stack, todo, S)
    BY DEF IInv
  <2>2. hugr \in Hugrs /\ stack = <<>>
    BY DEF IInv
  <2>3. S = NodesOf(hugr)
    BY <2>1, <2>2, AllVisited
  <2> QED BY <2>1, <2>3 DEF VisitedAre, FuncDefns
<1> QED BY <1>1, Invariant, PTL

-----------------------------------------------------------------------------
(***************************************************************************)
(* Dominance.  It is a matter of all paths to a block, and edges are added *)
(* until the end.  So the invariant says that there is a certificate: for  *)
(* each block, a set of blocks that every path to it, now or later, passes *)
(* through.                                                                *)
(***************************************************************************)

\* v is a parameter, or computed in one of the blocks S.
Available(h, c, S, v) ==
    \/ v[1] = 0 /\ v[2] \in 1 .. h.params
    \/ v[1] \in S /\ v[2] \in DOMAIN c.blocks[v[1]]

\* The i-th instruction of block b, before which are the blocks S, may use v.
Usable(h, c, S, v, b, i) ==
    \/ v[1] = 0 /\ v[2] \in 1 .. h.params
    \/ v[1] = b /\ v[2] < i
    \/ v[1] \in S \ {b} /\ v[2] \in DOMAIN c.blocks[v[1]]

Targets(instr) ==
    CASE instr.op = "br" -> {instr.to}
      [] instr.op = "switch" -> ToSet(instr.to)
      [] OTHER -> {}

InstrSound(h, c, dom, boxes, instr, b, i) ==
    /\ instr.op \in {"load", "store"} => instr.mb \in boxes
    /\ \A v \in Operands(instr) : Usable(h, c, dom[b], v, b, i)
    /\ \A t \in Targets(instr) : t \in DOMAIN c.blocks /\ dom[t] \subseteq dom[b] \cup {t}

\* dom is a certificate for the code c.
CodeSound(h, c, dom, boxes) ==
    /\ c = [blocks |-> c.blocks, pos |-> c.pos]
    /\ IsSeq(c.blocks) /\ c.pos \in DOMAIN c.blocks
    /\ \A b \in DOMAIN c.blocks : IsSeq(c.blocks[b])
    /\ 1 \in DOMAIN c.blocks /\ dom[1] = {1}
    /\ 2 \in DOMAIN c.blocks /\ dom[2] = {1, 2}
    /\ \A b \in DOMAIN c.blocks : b \in dom[b] /\ dom[b] \subseteq DOMAIN c.blocks
    /\ \A b \in DOMAIN c.blocks : \A i \in DOMAIN c.blocks[b] :
         InstrSound(h, c, dom, boxes, c.blocks[b][i], b, i)

\* d has what c has, and more.
Grown(c, d, dom, more) ==
    /\ DOMAIN c.blocks \subseteq DOMAIN d.blocks
    /\ \A b \in DOMAIN c.blocks : /\ DOMAIN c.blocks[b] \subseteq DOMAIN d.blocks[b]
                                  /\ more[b] = dom[b]

\* d is c with k more instructions where the builder stands.
Appended(h, c, d, dom, boxes, k) ==
    /\ CodeSound(h, d, dom, boxes) /\ Grown(c, d, dom, dom)
    /\ d.pos = c.pos /\ Len(d.blocks) = Len(c.blocks)
    /\ DOMAIN d.blocks[c.pos] = 1 .. Len(c.blocks[c.pos]) + k

\* The instructions can follow what is in the builder's block.
Follow(h, c, dom, boxes, instrs) == \A i \in 1 .. Len(instrs) :
    InstrSound(h, c, dom, boxes, instrs[i], c.pos, Len(c.blocks[c.pos]) + i)

-----------------------------------------------------------------------------
(* Certificates for growing code.                                          *)

LEMMA AvailableStays ==
  ASSUME NEW h, NEW c, NEW d, NEW dom, NEW more, Grown(c, d, dom, more),
         NEW S, NEW T, S \subseteq DOMAIN c.blocks, S \subseteq T,
         NEW v, Available(h, c, S, v)
  PROVE  Available(h, d, T, v)
BY DEF Available, Grown

LEMMA InstrStays ==
  ASSUME NEW h, NEW c, NEW d, NEW dom, NEW more, Grown(c, d, dom, more),
         NEW boxes, NEW larger, boxes \subseteq larger,
         NEW b \in DOMAIN c.blocks, dom[b] \subseteq DOMAIN c.blocks,
         NEW instr, NEW i, InstrSound(h, c, dom, boxes, instr, b, i)
  PROVE  InstrSound(h, d, more, larger, instr, b, i)
<1>1. more[b] = dom[b]
  BY DEF Grown
<1>2. ASSUME NEW v \in Operands(instr) PROVE Usable(h, d, more[b], v, b, i)
  BY <1>1 DEF InstrSound, Usable, Grown
<1>3. ASSUME NEW t \in Targets(instr) PROVE t \in DOMAIN d.blocks /\ more[t] \subseteq more[b] \cup {t}
  BY <1>1 DEF InstrSound, Grown
<1> QED BY <1>2, <1>3 DEF InstrSound

LEMMA SoundSeqs ==
  ASSUME NEW h, NEW c, NEW dom, NEW boxes, CodeSound(h, c, dom, boxes)
  PROVE  /\ Len(c.blocks) \in Nat /\ DOMAIN c.blocks = 1 .. Len(c.blocks)
         /\ c.pos \in DOMAIN c.blocks
         /\ \A b \in DOMAIN c.blocks : /\ IsSeq(c.blocks[b]) /\ Len(c.blocks[b]) \in Nat
                                       /\ DOMAIN c.blocks[b] = 1 .. Len(c.blocks[b])
                                       /\ b \in dom[b] /\ dom[b] \subseteq DOMAIN c.blocks
BY SeqFacts DEF CodeSound

LEMMA BuildSound ==
  ASSUME NEW h, NEW c, NEW dom, NEW boxes, CodeSound(h, c, dom, boxes),
         NEW instrs, IsSeq(instrs), Follow(h, c, dom, boxes, instrs)
  PROVE  Appended(h, c, Build(c, instrs), dom, boxes, Len(instrs))
<1> DEFINE d == Build(c, instrs)
           old == c.blocks[c.pos]
           new == old \o instrs
<1>1. d.pos = c.pos /\ d = [blocks |-> d.blocks, pos |-> d.pos]
  BY DEF Build
<1>2. d.blocks = [c.blocks EXCEPT ![c.pos] = new]
  BY DEF Build
<1>3. /\ c.blocks \in Seq(ToSet(c.blocks)) /\ c.pos \in DOMAIN c.blocks
      /\ Len(c.blocks) \in Nat /\ DOMAIN c.blocks = 1 .. Len(c.blocks)
      /\ IsSeq(old) /\ Len(old) \in Nat /\ DOMAIN old = 1 .. Len(old)
  BY SoundSeqs DEF CodeSound, IsSeq
<1>4. /\ DOMAIN d.blocks = DOMAIN c.blocks /\ d.blocks[c.pos] = new
      /\ \A b \in DOMAIN c.blocks : b # c.pos => d.blocks[b] = c.blocks[b]
  BY <1>2, <1>3
<1>5. IsSeq(d.blocks) /\ Len(d.blocks) = Len(c.blocks)
  <2>1. d.blocks = [b \in 1 .. Len(c.blocks) |-> d.blocks[b]]
    BY <1>2, <1>3
  <2> HIDE DEF d
  <2> QED BY <1>3, <2>1, FunSeq
<1> HIDE DEF d, old
<1>6. /\ IsSeq(new) /\ Len(new) = Len(old) + Len(instrs) /\ DOMAIN new = 1 .. Len(old) + Len(instrs)
      /\ \A i \in 1 .. Len(old) : new[i] = old[i]
      /\ \A i \in 1 .. Len(instrs) : new[Len(old) + i] = instrs[i]
      /\ Len(instrs) \in Nat
  BY <1>3, ConcatSeq, SeqFacts
<1> HIDE DEF new
<1>7. Grown(c, d, dom, dom)
  <2>1. DOMAIN old \subseteq DOMAIN new
    BY <1>3, <1>6
  <2> QED BY <1>4, <2>1 DEF Grown, old
<1>8. ASSUME NEW b \in DOMAIN c.blocks, NEW i \in DOMAIN d.blocks[b]
      PROVE  InstrSound(h, d, dom, boxes, d.blocks[b][i], b, i)
  <2>1. dom[b] \subseteq DOMAIN c.blocks
    BY DEF CodeSound
  <2>2. InstrSound(h, c, dom, boxes, d.blocks[b][i], b, i)
    <3>1. CASE b # c.pos
      BY <1>4, <1>8, <3>1 DEF CodeSound
    <3>2. CASE b = c.pos /\ i \in 1 .. Len(old)
      <4>1. i \in DOMAIN c.blocks[b] /\ d.blocks[b][i] = c.blocks[b][i]
        BY <1>3, <1>4, <1>6, <3>2 DEF old
      <4> QED BY <4>1 DEF CodeSound
    <3>3. CASE b = c.pos /\ i \notin 1 .. Len(old)
      <4>1. i - Len(old) \in 1 .. Len(instrs) /\ i = Len(old) + (i - Len(old))
        BY <1>3, <1>4, <1>6, <1>8, <3>3
      <4>2. d.blocks[b][i] = instrs[i - Len(old)]
        BY <1>4, <1>6, <3>3, <4>1
      <4>3. InstrSound(h, c, dom, boxes, instrs[i - Len(old)], c.pos, Len(old) + (i - Len(old)))
        BY <4>1 DEF old, Follow
      <4> QED BY <3>3, <4>1, <4>2, <4>3
    <3> QED BY <3>1, <3>2, <3>3
  <2> QED BY <1>7, <2>1, <2>2, InstrStays
<1>9. \A b \in DOMAIN d.blocks : IsSeq(d.blocks[b])
  BY <1>4, <1>6 DEF CodeSound
<1>10. CodeSound(h, d, dom, boxes)
  <2>1. d.pos \in DOMAIN d.blocks
    BY <1>1, <1>3, <1>4
  <2>2. /\ 1 \in DOMAIN d.blocks /\ dom[1] = {1} /\ 2 \in DOMAIN d.blocks /\ dom[2] = {1, 2}
        /\ \A b \in DOMAIN d.blocks : b \in dom[b] /\ dom[b] \subseteq DOMAIN d.blocks
    BY <1>4 DEF CodeSound
  <2> QED BY <1>1, <1>4, <1>5, <1>8, <1>9, <2>1, <2>2 DEF CodeSound
<1> QED BY <1>1, <1>4, <1>5, <1>6, <1>7, <1>10 DEF d, old, Appended

\* What can be used at the end of a block can be used by what comes next.
LEMMA UsableNext ==
  ASSUME NEW h, NEW c, NEW dom, NEW boxes, CodeSound(h, c, dom, boxes),
         NEW b \in DOMAIN c.blocks, NEW v, Available(h, c, dom[b], v), NEW i \in Nat \ {0}
  PROVE  Usable(h, c, dom[b], v, b, Len(c.blocks[b]) + i)
<1>1. Len(c.blocks[b]) \in Nat /\ DOMAIN c.blocks[b] = 1 .. Len(c.blocks[b])
  BY SoundSeqs
<1>2. CASE v[1] = b /\ v[2] \in DOMAIN c.blocks[b]
  <2>1. v[2] < Len(c.blocks[b]) + i
    BY <1>1, <1>2
  <2> QED BY <1>2, <2>1 DEF Usable
<1> QED BY <1>2 DEF Available, Usable

\* Upcoming values, once they are there.
LEMMA UpcomingAvailable ==
  ASSUME NEW h, NEW c, NEW dom, NEW boxes, CodeSound(h, c, dom, boxes), NEW k \in Nat,
         NEW d, DOMAIN d.blocks[c.pos] = 1 .. Len(c.blocks[c.pos]) + k,
         NEW S, c.pos \in S
  PROVE  /\ IsSeq(Upcoming(c, k)) /\ Len(Upcoming(c, k)) = k
         /\ \A i \in 1 .. k : Available(h, d, S, Upcoming(c, k)[i])
<1> DEFINE n == Len(c.blocks[c.pos])
<1>1. Upcoming(c, k) = [i \in 1 .. k |-> <<c.pos, n + i>>]
  BY DEF Upcoming
<1>2. IsSeq(Upcoming(c, k)) /\ Len(Upcoming(c, k)) = k
  BY <1>1, FunSeq
<1>3. n \in Nat
  BY SoundSeqs
<1> HIDE DEF n
<1>4. ASSUME NEW i \in 1 .. k PROVE Available(h, d, S, Upcoming(c, k)[i])
  <2>1. Upcoming(c, k)[i] = <<c.pos, n + i>>
    BY <1>1
  <2>2. n + i \in 1 .. n + k
    BY <1>3
  <2> QED BY <2>1, <2>2 DEF Available, n
<1> QED BY <1>2, <1>4

\* The instructions, one by one.
LEMMA LoadSound ==
  ASSUME NEW h, NEW c, NEW dom, NEW boxes, NEW mb \in boxes, NEW b, NEW i
  PROVE  InstrSound(h, c, dom, boxes, Load(mb), b, i)
BY DEF InstrSound, Load, Operands, Targets

LEMMA StoreSound ==
  ASSUME NEW h, NEW c, NEW dom, NEW boxes, NEW mb \in boxes, NEW b, NEW i,
         NEW v, Usable(h, c, dom[b], v, b, i)
  PROVE  InstrSound(h, c, dom, boxes, Store(mb, v), b, i)
BY DEF InstrSound, Store, Operands, Targets

LEMMA FieldSound ==
  ASSUME NEW h, NEW c, NEW dom, NEW boxes, NEW b, NEW i,
         NEW v, Usable(h, c, dom[b], v, b, i), NEW tag, NEW ix
  PROVE  InstrSound(h, c, dom, boxes, Field(v, tag, ix), b, i)
BY DEF InstrSound, Field, Operands, Targets

LEMMA BranchSound ==
  ASSUME NEW h, NEW c, NEW dom, NEW boxes, NEW b, NEW i,
         NEW t \in DOMAIN c.blocks, dom[t] \subseteq dom[b] \cup {t}
  PROVE  InstrSound(h, c, dom, boxes, Branch(t), b, i)
BY DEF InstrSound, Branch, Operands, Targets

LEMMA SwitchSound ==
  ASSUME NEW h, NEW c, NEW dom, NEW boxes, NEW b, NEW i,
         NEW v, Usable(h, c, dom[b], v, b, i), NEW ts,
         \A t \in ToSet(ts) : t \in DOMAIN c.blocks /\ dom[t] \subseteq dom[b] \cup {t}
  PROVE  InstrSound(h, c, dom, boxes, Switch(v, ts), b, i)
BY DEF InstrSound, Switch, Operands, Targets

LEMMA LeafSound ==
  ASSUME NEW h, NEW c, NEW dom, NEW boxes, NEW b, NEW i,
         NEW vs, \A v \in ToSet(vs) : Usable(h, c, dom[b], v, b, i), NEW x, NEW p
  PROVE  /\ InstrSound(h, c, dom, boxes, MakeTag(x, vs), b, i)
         /\ InstrSound(h, c, dom, boxes, Constant(x), b, i)
         /\ InstrSound(h, c, dom, boxes, Apply(x, vs, p), b, i)
         /\ InstrSound(h, c, dom, boxes, Return(vs), b, i)
<1>1. InstrSound(h, c, dom, boxes, MakeTag(x, vs), b, i)
  BY DEF InstrSound, MakeTag, Operands, Targets
<1>2. InstrSound(h, c, dom, boxes, Constant(x), b, i)
  BY DEF InstrSound, Constant, Operands, Targets
<1>3. InstrSound(h, c, dom, boxes, Apply(x, vs, p), b, i)
  BY DEF InstrSound, Apply, Operands, Targets
<1>4. InstrSound(h, c, dom, boxes, Return(vs), b, i)
  BY DEF InstrSound, Return, Operands, Targets
<1> QED BY <1>1, <1>2, <1>3, <1>4

-----------------------------------------------------------------------------
(* The operations on code.                                                 *)

LEMMA ReadSound ==
  ASSUME NEW h, NEW c, NEW dom, NEW boxes, CodeSound(h, c, dom, boxes),
         NEW row, IsSeq(row), ToSet(row) \subseteq boxes
  PROVE  Appended(h, c, Read(c, row), dom, boxes, Len(row))
<1> DEFINE instrs == [i \in DOMAIN row |-> Load(row[i])]
<1>1. Len(row) \in Nat /\ DOMAIN row = 1 .. Len(row)
  BY SeqFacts
<1>2. IsSeq(instrs) /\ Len(instrs) = Len(row)
  BY <1>1, FunSeq
<1>3. ASSUME NEW i \in 1 .. Len(row)
      PROVE  InstrSound(h, c, dom, boxes, instrs[i], c.pos, Len(c.blocks[c.pos]) + i)
  <2>1. row[i] \in boxes /\ instrs[i] = Load(row[i])
    BY <1>1 DEF ToSet
  <2> QED BY <2>1, LoadSound
<1>4. Read(c, row) = Build(c, instrs)
  BY DEF Read
<1> HIDE DEF instrs
<1>5. Follow(h, c, dom, boxes, instrs)
  BY <1>2, <1>3 DEF Follow
<1> QED BY <1>2, <1>4, <1>5, BuildSound

LEMMA WriteSound ==
  ASSUME NEW h, NEW c, NEW dom, NEW boxes, CodeSound(h, c, dom, boxes),
         NEW row, IsSeq(row), ToSet(row) \subseteq boxes, NEW vs,
         \A i \in 1 .. Len(row) : Available(h, c, dom[c.pos], vs[i])
  PROVE  Appended(h, c, Write(c, row, vs), dom, boxes, Len(row))
<1> DEFINE instrs == [i \in DOMAIN row |-> Store(row[i], vs[i])]
<1>1. Len(row) \in Nat /\ DOMAIN row = 1 .. Len(row)
  BY SeqFacts
<1>2. IsSeq(instrs) /\ Len(instrs) = Len(row)
  BY <1>1, FunSeq
<1>3. ASSUME NEW i \in 1 .. Len(row)
      PROVE  InstrSound(h, c, dom, boxes, instrs[i], c.pos, Len(c.blocks[c.pos]) + i)
  <2>1. row[i] \in boxes /\ instrs[i] = Store(row[i], vs[i])
    BY <1>1 DEF ToSet
  <2>2. Usable(h, c, dom[c.pos], vs[i], c.pos, Len(c.blocks[c.pos]) + i)
    <3>1. i \in Nat \ {0} /\ c.pos \in DOMAIN c.blocks
      BY <1>1, SoundSeqs
    <3>2. Available(h, c, dom[c.pos], vs[i])
      OBVIOUS
    <3> QED BY <3>1, <3>2, UsableNext
  <2> QED BY <2>1, <2>2, StoreSound
<1>4. Write(c, row, vs) = Build(c, instrs)
  BY DEF Write
<1> HIDE DEF instrs
<1>5. Follow(h, c, dom, boxes, instrs)
  BY <1>2, <1>3 DEF Follow
<1> QED BY <1>2, <1>4, <1>5, BuildSound

\* One more instruction.
LEMMA EndSound ==
  ASSUME NEW h, NEW c, NEW dom, NEW boxes, CodeSound(h, c, dom, boxes), NEW instr,
         InstrSound(h, c, dom, boxes, instr, c.pos, Len(c.blocks[c.pos]) + 1)
  PROVE  Appended(h, c, Build(c, <<instr>>), dom, boxes, 1)
<1> DEFINE instrs == <<instr>>
<1>1. IsSeq(instrs) /\ Len(instrs) = 1 /\ instrs[1] = instr
  BY OneSeq
<1> HIDE DEF instrs
<1>2. \A i \in 1 .. Len(instrs) : i = 1
  BY <1>1
<1>3. Follow(h, c, dom, boxes, instrs)
  BY <1>1, <1>2 DEF Follow
<1>4. Appended(h, c, Build(c, instrs), dom, boxes, 1)
  BY <1>1, <1>3, BuildSound
<1> QED BY <1>4 DEF instrs

LEMMA AtSound ==
  ASSUME NEW h, NEW c, NEW dom, NEW boxes, CodeSound(h, c, dom, boxes), NEW b \in DOMAIN c.blocks
  PROVE  /\ CodeSound(h, At(c, b), dom, boxes) /\ At(c, b).pos = b /\ At(c, b).blocks = c.blocks
         /\ Grown(c, At(c, b), dom, dom)
<1>1. At(c, b) = [blocks |-> c.blocks, pos |-> b]
  BY DEF At, CodeSound
<1> DEFINE d == At(c, b)
<1>2. d.pos = b /\ d.blocks = c.blocks /\ d = [blocks |-> d.blocks, pos |-> d.pos]
  BY <1>1
<1> HIDE DEF d
<1>3. Grown(c, d, dom, dom)
  BY <1>2 DEF Grown
<1>4. \A a \in DOMAIN d.blocks : \A i \in DOMAIN d.blocks[a] :
         InstrSound(h, d, dom, boxes, d.blocks[a][i], a, i)
  BY <1>2, <1>3, InstrStays DEF CodeSound
<1>5. CodeSound(h, d, dom, boxes)
  BY <1>2, <1>4 DEF CodeSound
<1> QED BY <1>2, <1>3, <1>5 DEF d

\* More mailboxes do no harm.
LEMMA BoxesSound ==
  ASSUME NEW h, NEW c, NEW dom, NEW boxes, NEW more, boxes \subseteq more, CodeSound(h, c, dom, boxes)
  PROVE  CodeSound(h, c, dom, more)
<1>1. Grown(c, c, dom, dom)
  BY DEF Grown
<1>2. \A a \in DOMAIN c.blocks : \A i \in DOMAIN c.blocks[a] :
         InstrSound(h, c, dom, more, c.blocks[a][i], a, i)
  BY <1>1, InstrStays DEF CodeSound
<1> QED BY <1>2 DEF CodeSound

\* New blocks, with what every path to them passes.
LEMMA ExtendSound ==
  ASSUME NEW h, NEW c, NEW dom, NEW boxes, CodeSound(h, c, dom, boxes),
         NEW new, IsSeq(new), \A i \in 1 .. Len(new) : IsSeq(new[i]),
         NEW more, Grown(c, Extend(c, new), dom, more),
         \A i \in 1 .. Len(new) :
           /\ Len(c.blocks) + i \in more[Len(c.blocks) + i]
           /\ more[Len(c.blocks) + i] \subseteq 1 .. Len(c.blocks) + Len(new)
           /\ \A j \in DOMAIN new[i] :
                InstrSound(h, Extend(c, new), more, boxes, new[i][j], Len(c.blocks) + i, j)
  PROVE  CodeSound(h, Extend(c, new), more, boxes)
<1> DEFINE n == Len(c.blocks)
           d == Extend(c, new)
<1>1. /\ d.pos = c.pos /\ d.blocks = c.blocks \o new
      /\ d = [blocks |-> d.blocks, pos |-> d.pos]
  BY DEF Extend
<1> HIDE DEF d
<1>2. IsSeq(c.blocks) /\ n \in Nat /\ DOMAIN c.blocks = 1 .. n /\ Len(new) \in Nat
  BY SeqFacts DEF CodeSound
<1>3. /\ IsSeq(d.blocks) /\ Len(d.blocks) = n + Len(new) /\ DOMAIN d.blocks = 1 .. n + Len(new)
      /\ \A b \in 1 .. n : d.blocks[b] = c.blocks[b]
      /\ \A i \in 1 .. Len(new) : d.blocks[n + i] = new[i]
  BY <1>1, <1>2, ConcatSeq
<1>4. ASSUME NEW b \in DOMAIN d.blocks
      PROVE  b \in 1 .. n \/ (b - n \in 1 .. Len(new) /\ b = n + (b - n))
  <2>1. b \in 1 .. n + Len(new)
    BY <1>3
  <2> HIDE DEF n
  <2> QED BY <1>2, <2>1
<1>5. Grown(c, d, dom, more) /\ \A b \in 1 .. n : more[b] = dom[b]
  BY <1>2 DEF Grown, d
<1>6. ASSUME NEW b \in DOMAIN d.blocks
      PROVE  /\ IsSeq(d.blocks[b]) /\ b \in more[b] /\ more[b] \subseteq DOMAIN d.blocks
             /\ \A i \in DOMAIN d.blocks[b] : InstrSound(h, d, more, boxes, d.blocks[b][i], b, i)
  <2>1. CASE b \in 1 .. n
    <3>1. /\ IsSeq(c.blocks[b]) /\ b \in dom[b] /\ dom[b] \subseteq DOMAIN c.blocks
          /\ \A i \in DOMAIN c.blocks[b] : InstrSound(h, c, dom, boxes, c.blocks[b][i], b, i)
      BY <1>2, <2>1 DEF CodeSound
    <3>2. d.blocks[b] = c.blocks[b] /\ more[b] = dom[b] /\ DOMAIN c.blocks \subseteq DOMAIN d.blocks
      BY <1>2, <1>3, <1>5, <2>1
    <3>3. ASSUME NEW i \in DOMAIN d.blocks[b] PROVE InstrSound(h, d, more, boxes, d.blocks[b][i], b, i)
      BY <1>2, <1>5, <2>1, <3>1, <3>2, InstrStays
    <3> QED BY <3>1, <3>2, <3>3
  <2>2. CASE b - n \in 1 .. Len(new) /\ b = n + (b - n)
    <3> DEFINE i == b - n
    <3>1. /\ n + i \in more[n + i] /\ more[n + i] \subseteq 1 .. n + Len(new)
          /\ d.blocks[n + i] = new[i] /\ IsSeq(new[i])
          /\ \A j \in DOMAIN new[i] : InstrSound(h, d, more, boxes, new[i][j], n + i, j)
      BY <1>3, <2>2 DEF d
    <3> HIDE DEF n, d
    <3> QED BY <1>3, <2>2, <3>1
  <2> QED BY <1>4, <2>1, <2>2
<1>7. /\ 1 \in DOMAIN d.blocks /\ more[1] = {1} /\ 2 \in DOMAIN d.blocks /\ more[2] = {1, 2}
      /\ d.pos \in DOMAIN d.blocks
  BY <1>1, <1>2, <1>3, <1>5 DEF CodeSound
<1> QED BY <1>1, <1>3, <1>6, <1>7 DEF CodeSound, d

\* The k blocks to come after those of c are passed by way of the blocks S.
ComeBy(c, k, S, more) ==
    \A i \in 1 .. k : more[Len(c.blocks) + i] = S \cup {Len(c.blocks) + i}

\* new_basic_block
LEMMA AddSound ==
  ASSUME NEW h, NEW c, NEW dom, NEW boxes, CodeSound(h, c, dom, boxes), NEW k \in Nat,
         NEW S, S \subseteq DOMAIN c.blocks
  PROVE  /\ AddBlocks(c, k).pos = c.pos /\ Len(AddBlocks(c, k).blocks) = Len(c.blocks) + k
         /\ \E more : /\ CodeSound(h, AddBlocks(c, k), more, boxes)
                      /\ Grown(c, AddBlocks(c, k), dom, more) /\ ComeBy(c, k, S, more)
<1> DEFINE n == Len(c.blocks)
           new == [i \in 1 .. k |-> <<>>]
           d == AddBlocks(c, k)
           more == [b \in 1 .. n + k |-> IF b \in 1 .. n THEN dom[b] ELSE S \cup {b}]
<1>1. IsSeq(new) /\ Len(new) = k /\ \A i \in 1 .. k : new[i] = <<>>
  BY FunSeq
<1>2. IsSeq(<<>>) /\ DOMAIN <<>> = {}
  BY DEF IsSeq, ToSet
<1>3. d = Extend(c, new) /\ d.pos = c.pos /\ d.blocks = c.blocks \o new
  BY DEF AddBlocks, Extend
<1> HIDE DEF new, d
<1>4. n \in Nat /\ DOMAIN c.blocks = 1 .. n /\ IsSeq(c.blocks)
  BY SoundSeqs DEF CodeSound
<1>5. /\ Len(d.blocks) = n + k /\ DOMAIN d.blocks = 1 .. n + k
      /\ \A b \in 1 .. n : d.blocks[b] = c.blocks[b]
      /\ \A i \in 1 .. k : d.blocks[n + i] = <<>>
  <2>1. /\ Len(c.blocks \o new) = n + k /\ DOMAIN (c.blocks \o new) = 1 .. n + k
        /\ \A b \in 1 .. n : (c.blocks \o new)[b] = c.blocks[b]
        /\ \A i \in 1 .. k : (c.blocks \o new)[n + i] = new[i]
    BY <1>1, <1>4, ConcatSeq
  <2> QED BY <1>1, <1>3, <2>1
<1> HIDE DEF n
<1>6. /\ \A b \in 1 .. n : more[b] = dom[b]
      /\ \A i \in 1 .. k : more[n + i] = S \cup {n + i} /\ S \subseteq 1 .. n + k
  <2>1. ASSUME NEW i \in 1 .. k PROVE n + i \in 1 .. n + k /\ n + i \notin 1 .. n
    BY <1>4
  <2>2. 1 .. n \subseteq 1 .. n + k
    BY <1>4
  <2> QED BY <1>4, <2>1, <2>2
<1> HIDE DEF more
<1>7. Grown(c, d, dom, more)
  <2>1. 1 .. n \subseteq 1 .. n + k
    BY <1>4
  <2> QED BY <1>4, <1>5, <1>6, <2>1 DEF Grown
<1>8. \A i \in 1 .. k : n + i \in 1 .. n + k
  BY <1>4
<1>9. CodeSound(h, d, more, boxes)
  <2>1. ASSUME NEW i \in 1 .. k
        PROVE  /\ IsSeq(new[i]) /\ n + i \in more[n + i] /\ more[n + i] \subseteq 1 .. n + k
               /\ \A j \in DOMAIN new[i] : InstrSound(h, d, more, boxes, new[i][j], n + i, j)
    BY <1>1, <1>2, <1>6, <1>8
  <2> QED BY <1>1, <1>3, <1>7, <2>1, ExtendSound DEF n
<1>10. ComeBy(c, k, S, more)
  BY <1>6 DEF ComeBy, n
<1> QED BY <1>3, <1>4, <1>5, <1>7, <1>9, <1>10 DEF d, n

\* The block of one variant: fields, stores, and a branch.
LEMMA VariantSound ==
  ASSUME NEW h, NEW d, NEW dom, NEW boxes, NEW b, NEW sum, NEW i, NEW fields \in Nat,
         NEW row, IsSeq(row), ToSet(row) \subseteq boxes,
         NEW rest, IsSeq(rest), Len(row) = fields + Len(rest),
         NEW target \in DOMAIN d.blocks, dom[target] \subseteq dom[b] \cup {target},
         \A k \in Nat : Usable(h, d, dom[b], sum, b, k),
         \A j \in 1 .. Len(rest) : \A k \in Nat : Usable(h, d, dom[b], rest[j], b, k)
  PROVE  LET block == VariantBlock(b, sum, i, fields, row, rest, target)
         IN  /\ IsSeq(block)
             /\ \A j \in DOMAIN block : InstrSound(h, d, dom, boxes, block[j], b, j)
<1> DEFINE first == [j \in 1 .. fields |-> Field(sum, i, j)]
           value(j) == IF j <= fields THEN <<b, j>> ELSE rest[j - fields]
           second == [j \in DOMAIN row |-> Store(row[j], value(j))]
           block == VariantBlock(b, sum, i, fields, row, rest, target)
           s == first \o second
           end == Branch(target)
<1>1. IsSeq(first) /\ Len(first) = fields
  BY FunSeq
<1>2. IsSeq(second) /\ Len(second) = Len(row) /\ Len(row) \in Nat /\ DOMAIN row = 1 .. Len(row)
  <2>1. Len(row) \in Nat /\ DOMAIN row = 1 .. Len(row)
    BY SeqFacts
  <2>2. second = [j \in 1 .. Len(row) |-> second[j]]
    BY <2>1
  <2> HIDE DEF second
  <2> QED BY <2>1, <2>2, FunSeq
<1>3. \A j \in 1 .. fields : first[j] = Field(sum, i, j)
  OBVIOUS
<1>4. \A j \in 1 .. Len(row) : second[j] = Store(row[j], value(j)) /\ row[j] \in boxes
  BY <1>2 DEF ToSet
<1>5. block = s \o <<end>>
  BY DEF VariantBlock
<1>6. Len(rest) \in Nat
  BY SeqFacts
<1>7. ASSUME NEW j \in 1 .. Len(row) PROVE Usable(h, d, dom[b], value(j), b, fields + j)
  <2>1. fields + j \in Nat
    BY <1>2
  <2>2. CASE j <= fields
    <3>1. value(j) = <<b, j>> /\ j < fields + j
      BY <2>2
    <3> HIDE DEF value
    <3> QED BY <3>1 DEF Usable
  <2>3. CASE ~(j <= fields)
    <3>1. value(j) = rest[j - fields] /\ j - fields \in 1 .. Len(rest)
      BY <1>2, <1>6, <2>3
    <3> HIDE DEF value
    <3> QED BY <2>1, <3>1
  <2> QED BY <2>2, <2>3
<1> HIDE DEF first, second, value, block, end
<1>8. /\ IsSeq(s) /\ Len(s) = fields + Len(row)
      /\ \A j \in 1 .. fields : s[j] = first[j]
      /\ \A j \in 1 .. Len(row) : s[fields + j] = second[j]
  <2>1. /\ IsSeq(s) /\ Len(s) = Len(first) + Len(second)
        /\ \A j \in 1 .. Len(first) : s[j] = first[j]
        /\ \A j \in 1 .. Len(second) : s[Len(first) + j] = second[j]
    BY <1>1, <1>2, ConcatSeq
  <2> HIDE DEF s
  <2> QED BY <1>1, <1>2, <2>1
<1> HIDE DEF s
<1>9. /\ IsSeq(block) /\ DOMAIN block = 1 .. Len(s) + 1
      /\ \A j \in 1 .. Len(s) : block[j] = s[j]
      /\ block[Len(s) + 1] = end
  <2>1. IsSeq(s)
    BY <1>8
  <2>2. /\ IsSeq(s \o <<end>>) /\ DOMAIN (s \o <<end>>) = 1 .. Len(s) + 1
        /\ \A j \in 1 .. Len(s) : (s \o <<end>>)[j] = s[j]
        /\ (s \o <<end>>)[Len(s) + 1] = end
    BY <2>1, SnocSeq
  <2> QED BY <1>5, <2>2
<1>10. ASSUME NEW j \in DOMAIN block PROVE InstrSound(h, d, dom, boxes, block[j], b, j)
  <2>1. CASE j \in 1 .. fields
    <3>1. block[j] = Field(sum, i, j) /\ j \in Nat
      BY <1>2, <1>3, <1>8, <1>9, <2>1
    <3> QED BY <3>1, FieldSound
  <2>2. CASE j - fields \in 1 .. Len(row) /\ j = fields + (j - fields)
    <3>1. block[j] = Store(row[j - fields], value(j - fields)) /\ row[j - fields] \in boxes
      BY <1>2, <1>4, <1>8, <1>9, <2>2
    <3>2. Usable(h, d, dom[b], value(j - fields), b, j)
      BY <1>7, <2>2
    <3> QED BY <3>1, <3>2, StoreSound
  <2>3. CASE j = Len(s) + 1
    BY <1>9, <2>3, BranchSound DEF end
  <2>4. j \in 1 .. fields \/ (j - fields \in 1 .. Len(row) /\ j = fields + (j - fields)) \/ j = Len(s) + 1
    BY <1>2, <1>8, <1>9
  <2> QED BY <2>1, <2>2, <2>3, <2>4
<1> QED BY <1>9, <1>10 DEF block

LEMMA SameSeq ==
  ASSUME NEW s, NEW t, IsSeq(s), IsSeq(t), Len(s) = Len(t), \A i \in 1 .. Len(s) : s[i] = t[i]
  PROVE  s = t
<1>1. s \in [1 .. Len(s) -> ToSet(s)] /\ t \in [1 .. Len(t) -> ToSet(t)]
  BY DEF IsSeq
<1> QED BY <1>1

\* It does not matter which comes first, instructions or new blocks.
LEMMA BuildExtend ==
  ASSUME NEW c, IsSeq(c.blocks), c.pos \in DOMAIN c.blocks, NEW new, IsSeq(new), NEW instrs
  PROVE  Extend(Build(c, instrs), new) = Build(Extend(c, new), instrs)
<1> DEFINE n == Len(c.blocks)
           old == c.blocks
           both == old \o new
           s == [old EXCEPT ![c.pos] = @ \o instrs]
           left == s \o new
           right == [both EXCEPT ![c.pos] = @ \o instrs]
<1>1. n \in Nat /\ DOMAIN old = 1 .. n /\ c.pos \in 1 .. n /\ Len(new) \in Nat
  BY SeqFacts
<1>2. /\ Extend(Build(c, instrs), new) = [blocks |-> left, pos |-> c.pos]
      /\ Build(Extend(c, new), instrs) = [blocks |-> right, pos |-> c.pos]
  BY DEF Extend, Build
<1>3. IsSeq(old)
  OBVIOUS
<1>4. /\ DOMAIN s = 1 .. n /\ s[c.pos] = old[c.pos] \o instrs
      /\ \A i \in 1 .. n : i # c.pos => s[i] = old[i]
      /\ s = [i \in 1 .. n |-> s[i]]
  BY <1>1, <1>3
<1>5. IsSeq(s) /\ Len(s) = n
  <2> HIDE DEF s, n
  <2> QED BY <1>1, <1>4, FunSeq
<1>6. /\ IsSeq(both) /\ Len(both) = n + Len(new) /\ DOMAIN both = 1 .. n + Len(new)
      /\ \A i \in 1 .. n : both[i] = old[i]
      /\ \A i \in 1 .. Len(new) : both[n + i] = new[i]
  BY <1>1, <1>3, ConcatSeq
<1> HIDE DEF s, old, n
<1>7. /\ IsSeq(left) /\ Len(left) = n + Len(new)
      /\ \A i \in 1 .. n : left[i] = s[i]
      /\ \A i \in 1 .. Len(new) : left[n + i] = new[i]
  <2>1. /\ IsSeq(s \o new) /\ Len(s \o new) = Len(s) + Len(new)
        /\ \A i \in 1 .. Len(s) : (s \o new)[i] = s[i]
        /\ \A i \in 1 .. Len(new) : (s \o new)[Len(s) + i] = new[i]
    BY <1>5, ConcatSeq
  <2> QED BY <1>5, <2>1
<1> HIDE DEF both
<1>8. /\ DOMAIN right = 1 .. n + Len(new) /\ right[c.pos] = both[c.pos] \o instrs
      /\ \A i \in 1 .. n + Len(new) : i # c.pos => right[i] = both[i]
      /\ right = [i \in 1 .. n + Len(new) |-> right[i]]
  <2>1. c.pos \in 1 .. n + Len(new)
    BY <1>1
  <2>2. both \in [1 .. n + Len(new) -> ToSet(both)]
    BY <1>1, <1>6 DEF IsSeq
  <2> QED BY <2>1, <2>2
<1>9. IsSeq(right) /\ Len(right) = n + Len(new)
  <2>1. n + Len(new) \in Nat
    BY <1>1
  <2> HIDE DEF right
  <2> QED BY <1>8, <2>1, FunSeq
<1> HIDE DEF left, right
<1>10. ASSUME NEW i \in 1 .. n + Len(new) PROVE left[i] = right[i]
  <2>1. CASE i \in 1 .. n
    BY <1>1, <1>4, <1>6, <1>7, <1>8, <2>1
  <2>2. CASE i \notin 1 .. n
    <3>1. i - n \in 1 .. Len(new) /\ i = n + (i - n)
      BY <1>1, <2>2
    <3>2. left[n + (i - n)] = new[i - n] /\ both[n + (i - n)] = new[i - n]
      BY <1>6, <1>7, <3>1
    <3> QED BY <1>1, <1>8, <2>2, <3>1, <3>2
  <2> QED BY <2>1, <2>2
<1>11. left = right
  BY <1>7, <1>9, <1>10, SameSeq
<1> QED BY <1>2, <1>11

\* Each variant has somewhere to put its fields and what comes with them, and
\* somewhere to go on.
Splits(c, dom, boxes, widths, rows, rest, targets) == \A i \in 1 .. Len(widths) :
    /\ IsSeq(rows[i]) /\ ToSet(rows[i]) \subseteq boxes
    /\ Len(rows[i]) = widths[i] + Len(rest)
    /\ targets[i] \in DOMAIN c.blocks
    /\ dom[targets[i]] \subseteq dom[c.pos] \cup {targets[i]}

\* k new blocks that are reached by way of where the builder is.
Forked(c, dom, k) == [b \in 1 .. Len(c.blocks) + k |->
    IF b \in 1 .. Len(c.blocks) THEN dom[b] ELSE dom[c.pos] \cup {b}]

LEMMA ForkFacts ==
  ASSUME NEW h, NEW c, NEW dom, NEW boxes, CodeSound(h, c, dom, boxes),
         NEW new, IsSeq(new)
  PROVE  LET n == Len(c.blocks)
             k == Len(new)
             e == Extend(c, new)
             more == Forked(c, dom, k)
         IN  /\ e.pos = c.pos /\ DOMAIN e.blocks = 1 .. n + k
             /\ \A b \in 1 .. n : more[b] = dom[b] /\ b \in 1 .. n + k
             /\ \A i \in 1 .. k : /\ more[n + i] = dom[c.pos] \cup {n + i}
                                  /\ n + i \in 1 .. n + k
             /\ dom[c.pos] \subseteq 1 .. n + k
             /\ Grown(c, e, dom, more)
             /\ \A v : Available(h, c, dom[c.pos], v) =>
                  \A i \in 1 .. k : \A j \in Nat : Usable(h, e, more[n + i], v, n + i, j)
<1> DEFINE n == Len(c.blocks)
           k == Len(new)
           at == c.pos
           e == Extend(c, new)
           more == Forked(c, dom, k)
<1>1. /\ k \in Nat /\ n \in Nat /\ DOMAIN c.blocks = 1 .. n /\ at \in 1 .. n
      /\ IsSeq(c.blocks) /\ dom[at] \subseteq 1 .. n
  BY SoundSeqs, SeqFacts DEF CodeSound
<1>2. e.pos = at /\ e.blocks = c.blocks \o new
  BY DEF Extend
<1> HIDE DEF e
<1>3. DOMAIN e.blocks = 1 .. n + k /\ \A b \in 1 .. n : e.blocks[b] = c.blocks[b]
  BY <1>1, <1>2, ConcatSeq
<1>4. more = [b \in 1 .. n + k |-> IF b \in 1 .. n THEN dom[b] ELSE dom[at] \cup {b}]
  BY DEF Forked
<1> HIDE DEF n, k, at, more
<1>5. /\ \A b \in 1 .. n : more[b] = dom[b] /\ b \in 1 .. n + k
      /\ \A i \in 1 .. k : /\ more[n + i] = dom[at] \cup {n + i} /\ n + i \notin 1 .. n
                           /\ n + i \in 1 .. n + k
      /\ dom[at] \subseteq 1 .. n + k
  <2>1. ASSUME NEW i \in 1 .. k PROVE n + i \in 1 .. n + k /\ n + i \notin 1 .. n
    BY <1>1
  <2>2. 1 .. n \subseteq 1 .. n + k
    BY <1>1
  <2> QED BY <1>1, <1>4, <2>1, <2>2
<1>6. Grown(c, e, dom, more)
  BY <1>1, <1>3, <1>5 DEF Grown
<1>7. ASSUME NEW v, Available(h, c, dom[at], v), NEW i \in 1 .. k, NEW j \in Nat
      PROVE  Usable(h, e, more[n + i], v, n + i, j)
  <2>1. Available(h, e, dom[at], v)
    BY <1>1, <1>6, <1>7, AvailableStays
  <2>2. \A b \in dom[at] : b \in more[n + i] \ {n + i}
    BY <1>1, <1>5
  <2> QED BY <2>1, <2>2 DEF Available, Usable
<1> QED BY <1>2, <1>3, <1>5, <1>6, <1>7 DEF n, k, at, e, more

\* A switch to new blocks.
LEMMA ForkSound ==
  ASSUME NEW h, NEW c, NEW dom, NEW boxes, CodeSound(h, c, dom, boxes),
         NEW v, Available(h, c, dom[c.pos], v), NEW new, IsSeq(new),
         NEW ts, ToSet(ts) \subseteq {Len(c.blocks) + i : i \in 1 .. Len(new)},
         \A i \in 1 .. Len(new) :
           /\ IsSeq(new[i])
           /\ \A j \in DOMAIN new[i] :
                InstrSound(h, Extend(c, new), Forked(c, dom, Len(new)), boxes,
                           new[i][j], Len(c.blocks) + i, j)
  PROVE  LET d == Extend(Build(c, <<Switch(v, ts)>>), new)
             more == Forked(c, dom, Len(new))
         IN  CodeSound(h, d, more, boxes) /\ Grown(c, d, dom, more) /\ d.pos = c.pos
<1> DEFINE n == Len(c.blocks)
           k == Len(new)
           at == c.pos
           t == Switch(v, ts)
           e == Extend(c, new)
           d == Extend(Build(c, <<t>>), new)
           more == Forked(c, dom, k)
<1>1. /\ DOMAIN c.blocks = 1 .. n /\ at \in 1 .. n /\ IsSeq(c.blocks) /\ dom[at] \subseteq DOMAIN c.blocks
  BY SoundSeqs DEF CodeSound
<1>2. /\ e.pos = at /\ DOMAIN e.blocks = 1 .. n + k
      /\ \A b \in 1 .. n : more[b] = dom[b] /\ b \in 1 .. n + k
      /\ \A i \in 1 .. k : more[n + i] = dom[at] \cup {n + i} /\ n + i \in 1 .. n + k
      /\ dom[at] \subseteq 1 .. n + k /\ Grown(c, e, dom, more)
  BY ForkFacts
<1> HIDE DEF t
<1>3. d = Build(e, <<t>>)
  BY <1>1, BuildExtend
<1> HIDE DEF d, more
<1>4. CodeSound(h, e, more, boxes)
  <2>1. \A i \in 1 .. Len(new) : IsSeq(new[i])
    OBVIOUS
  <2>2. \A i \in 1 .. Len(new) :
           /\ n + i \in more[n + i] /\ more[n + i] \subseteq 1 .. n + Len(new)
           /\ \A j \in DOMAIN new[i] : InstrSound(h, e, more, boxes, new[i][j], n + i, j)
    <3>1. ASSUME NEW i \in 1 .. k
          PROVE  n + i \in more[n + i] /\ more[n + i] \subseteq 1 .. n + k
      <4> HIDE DEF n, k, e, at
      <4> QED BY <1>2
    <3> QED BY <3>1 DEF more
  <2> QED BY <1>2, <2>1, <2>2, ExtendSound
<1> HIDE DEF n, k, e, at
<1>5. InstrSound(h, e, more, boxes, t, e.pos, Len(e.blocks[e.pos]) + 1)
  <2>1. Available(h, e, more[at], v)
    <3>1. Available(h, c, dom[at], v)
      BY DEF at
    <3>2. more[at] = dom[at] /\ dom[at] \subseteq DOMAIN c.blocks
      BY <1>1, <1>2
    <3> QED BY <1>2, <3>1, <3>2, AvailableStays
  <2>2. Usable(h, e, more[at], v, at, Len(e.blocks[at]) + 1)
    <3>1. at \in DOMAIN e.blocks /\ 1 \in Nat \ {0}
      BY <1>1, <1>2
    <3> QED BY <1>4, <2>1, <3>1, UsableNext
  <2>3. ASSUME NEW b \in ToSet(ts) PROVE b \in DOMAIN e.blocks /\ more[b] \subseteq more[at] \cup {b}
    <3>1. PICK i \in 1 .. k : b = n + i
      BY DEF k, n
    <3>2. more[at] = dom[at] /\ more[n + i] = dom[at] \cup {n + i} /\ n + i \in 1 .. n + k
      BY <1>1, <1>2
    <3> QED BY <1>2, <3>1, <3>2
  <2> QED BY <1>2, <2>2, <2>3, SwitchSound DEF t
<1>6. Appended(h, e, Build(e, <<t>>), more, boxes, 1)
  BY <1>4, <1>5, EndSound
<1>7. CodeSound(h, d, more, boxes) /\ Grown(e, d, more, more) /\ d.pos = at
  BY <1>2, <1>3, <1>6 DEF Appended
<1>8. Grown(c, d, dom, more)
  BY <1>2, <1>7 DEF Grown
<1> QED BY <1>7, <1>8 DEF d, more, k, at, t

\* build_destructure: every path to a variant passes where the sum was taken apart.
LEMMA DestructureSound ==
  ASSUME NEW h, NEW c, NEW dom, NEW boxes, CodeSound(h, c, dom, boxes),
         NEW sum, Available(h, c, dom[c.pos], sum), NEW widths \in Seq(Nat),
         NEW rest, IsSeq(rest), \A j \in 1 .. Len(rest) : Available(h, c, dom[c.pos], rest[j]),
         NEW rows, NEW targets, Splits(c, dom, boxes, widths, rows, rest, targets)
  PROVE  LET d == Destructure(c, sum, widths, rows, rest, targets)
         IN  \E more : CodeSound(h, d, more, boxes) /\ Grown(c, d, dom, more)
<1> DEFINE n == Len(c.blocks)
           k == Len(widths)
           at == c.pos
           ts == [i \in DOMAIN widths |-> n + i]
           new == [i \in DOMAIN widths |->
              VariantBlock(n + i, sum, i, widths[i], rows[i], rest, targets[i])]
           e == Extend(c, new)
           d == Destructure(c, sum, widths, rows, rest, targets)
           more == Forked(c, dom, k)
<1>1. d = Extend(Build(c, <<Switch(sum, ts)>>), new)
  BY DEF Destructure
<1>2. /\ k \in Nat /\ DOMAIN widths = 1 .. k /\ \A i \in 1 .. k : widths[i] \in Nat
      /\ n \in Nat /\ DOMAIN c.blocks = 1 .. n /\ at \in 1 .. n
      /\ IsSeq(c.blocks) /\ dom[at] \subseteq 1 .. n
  BY SoundSeqs DEF CodeSound
<1>3. /\ Len(new) = k /\ IsSeq(new)
      /\ \A i \in 1 .. k : new[i] = VariantBlock(n + i, sum, i, widths[i], rows[i], rest, targets[i])
  <2>1. new = [i \in 1 .. k |-> new[i]]
    BY <1>2
  <2>2. Len(new) = k /\ IsSeq(new)
    <3> HIDE DEF new, k
    <3> QED BY <1>2, <2>1, FunSeq
  <2> QED BY <1>2, <2>2
<1>4. ToSet(ts) = {n + i : i \in 1 .. k}
  BY <1>2 DEF ToSet
<1> HIDE DEF new, d, ts
<1>5. /\ e.pos = at /\ DOMAIN e.blocks = 1 .. n + k
      /\ \A b \in 1 .. n : more[b] = dom[b] /\ b \in 1 .. n + k
      /\ \A i \in 1 .. k : more[n + i] = dom[at] \cup {n + i} /\ n + i \in 1 .. n + k
      /\ \A v : Available(h, c, dom[at], v) =>
           \A i \in 1 .. k : \A j \in Nat : Usable(h, e, more[n + i], v, n + i, j)
  <2>1. more = Forked(c, dom, Len(new))
    BY <1>3
  <2> DEFINE l == Len(new)
             m == Forked(c, dom, l)
  <2>2. /\ e.pos = at /\ DOMAIN e.blocks = 1 .. n + l
        /\ \A b \in 1 .. n : m[b] = dom[b] /\ b \in 1 .. n + l
        /\ \A i \in 1 .. l : m[n + i] = dom[at] \cup {n + i} /\ n + i \in 1 .. n + l
        /\ \A v : Available(h, c, dom[at], v) =>
             \A i \in 1 .. l : \A j \in Nat : Usable(h, e, m[n + i], v, n + i, j)
    BY <1>3, ForkFacts
  <2>3. l = k /\ m = more
    BY <1>3, <2>1
  <2> HIDE DEF k, more, l, m, e, at, n
  <2> QED BY <2>2, <2>3
<1> HIDE DEF e, n, k, at, more
<1>6. ASSUME NEW i \in 1 .. k
      PROVE  /\ IsSeq(new[i])
             /\ \A j \in DOMAIN new[i] : InstrSound(h, e, more, boxes, new[i][j], n + i, j)
  <2>1. /\ IsSeq(rows[i]) /\ ToSet(rows[i]) \subseteq boxes
        /\ Len(rows[i]) = widths[i] + Len(rest)
        /\ targets[i] \in 1 .. n /\ dom[targets[i]] \subseteq dom[at] \cup {targets[i]}
        /\ widths[i] \in Nat
    BY <1>2 DEF k, at, Splits
  <2>2. targets[i] \in DOMAIN e.blocks /\ more[targets[i]] \subseteq more[n + i] \cup {targets[i]}
    <3>1. more[targets[i]] = dom[targets[i]] /\ targets[i] \in 1 .. n + k
      BY <1>5, <2>1
    <3>2. more[n + i] = dom[at] \cup {n + i}
      BY <1>5
    <3> QED BY <1>5, <2>1, <3>1, <3>2
  <2>3. \A j \in Nat : Usable(h, e, more[n + i], sum, n + i, j)
    BY <1>5 DEF at
  <2>4. \A l \in 1 .. Len(rest) : \A j \in Nat : Usable(h, e, more[n + i], rest[l], n + i, j)
    BY <1>5 DEF at
  <2>5. new[i] = VariantBlock(n + i, sum, i, widths[i], rows[i], rest, targets[i])
    BY <1>3
  <2> DEFINE b == n + i
             w == widths[i]
             row == rows[i]
             target == targets[i]
  <2> HIDE DEF b, w, row, target
  <2>6. LET block == VariantBlock(b, sum, i, w, row, rest, target)
        IN  /\ IsSeq(block)
            /\ \A j \in DOMAIN block : InstrSound(h, e, more, boxes, block[j], b, j)
    BY <2>1, <2>2, <2>3, <2>4, VariantSound DEF b, w, row, target
  <2> QED BY <2>5, <2>6 DEF b, w, row, target
<1>7. CodeSound(h, d, more, boxes) /\ Grown(c, d, dom, more)
  <2>1. \A i \in 1 .. Len(new) :
           /\ IsSeq(new[i])
           /\ \A j \in DOMAIN new[i] :
                InstrSound(h, Extend(c, new), Forked(c, dom, Len(new)), boxes,
                           new[i][j], Len(c.blocks) + i, j)
    BY <1>3, <1>6 DEF e, n, more
  <2>2. ToSet(ts) \subseteq {Len(c.blocks) + i : i \in 1 .. Len(new)}
    BY <1>3, <1>4 DEF n
  <2>3. more = Forked(c, dom, Len(new))
    BY <1>3 DEF more
  <2> QED BY <1>1, <1>3, <2>1, <2>2, <2>3, ForkSound
<1> QED BY <1>7 DEF d

-----------------------------------------------------------------------------
(* Activations.  base is a set of blocks that every path to what an        *)
(* activation emits passes.                                                *)

InsOf(h, n) == [i \in DOMAIN h.ins[n] |-> WireBox(h.ins[n][i])]
OutsOf(h, n) == [p \in 1 .. h.nout[n] |-> WireBox(<<n, p>>)]
CaseRowOf(h, n) == AnonymousRow("case", n, Entering(h, n))
BlockRowOf(h, n, m) == IF m = h.kids[n][2] THEN AnonymousRow("exit", n, h.nout[n])
                       ELSE OutsOf(h, TheChild(h, m, "Input"))

AllAvailable(h, c, base, vs) == \A i \in 1 .. Len(vs) : Available(h, c, base, vs[i])

\* Every path to the block b passes the blocks base.
Behind(c, dom, base, b) == b \in DOMAIN c.blocks /\ dom[b] = base \cup {b}

DataflowSound(h, c, base, f) ==
    /\ Len(f.inputs) = Entering(h, f.node) /\ AllAvailable(h, c, base, f.inputs)
    /\ Len(f.outputs) = Leaving(h, f.node)
    /\ h.kind[f.node] = "DataflowBlock" => f.outputs = InsOf(h, TheChild(h, f.node, "Output"))

ConditionalSound(h, c, dom, base, boxes, f) ==
    /\ Len(f.inputs) = Len(h.ins[f.node]) /\ AllAvailable(h, c, base, f.inputs)
    /\ f.home \in DOMAIN c.blocks /\ base \subseteq dom[f.home]
    /\ Behind(c, dom, base, f.exit)
    /\ \A i \in 1 .. Len(f.cases) : /\ Behind(c, dom, base, f.cases[i])
                                    /\ ToSet(CaseRowOf(h, h.kids[f.node][i])) \subseteq boxes

CfgSound(h, c, dom, base, boxes, f) ==
    /\ Len(f.outputs) = h.nout[f.node]
    /\ \A m \in CfgBlocks(h, f.node) : /\ Behind(c, dom, base, f.bb[m])
                                      /\ ToSet(BlockRowOf(h, f.node, m)) \subseteq boxes

FrameSound(h, c, dom, base, boxes, f) ==
    /\ base \subseteq DOMAIN c.blocks
    /\ f.is = "dataflow" => DataflowSound(h, c, base, f)
    /\ f.is = "conditional" => ConditionalSound(h, c, dom, base, boxes, f)
    /\ f.is = "cfg" => CfgSound(h, c, dom, base, boxes, f)

StackSound(h, c, dom, bases, boxes, s) ==
    /\ \A k \in 1 .. Len(s) : FrameSound(h, c, dom, bases[k], boxes, s[k])
    /\ \A k \in 1 .. Len(s) - 1 : bases[k] \subseteq bases[k + 1]
    /\ Len(s) > 0 /\ s[Len(s)].is = "dataflow" => bases[Len(s)] \subseteq dom[c.pos]

Certified(h, c, boxes, s) ==
    \E dom, bases : CodeSound(h, c, dom, boxes) /\ StackSound(h, c, dom, bases, boxes, s)

LEMMA AllAvailableStay ==
  ASSUME NEW h, NEW c, NEW d, NEW dom, NEW more, Grown(c, d, dom, more),
         NEW S, NEW T, S \subseteq DOMAIN c.blocks, S \subseteq T,
         NEW vs, AllAvailable(h, c, S, vs)
  PROVE  AllAvailable(h, d, T, vs)
BY AvailableStays DEF AllAvailable

LEMMA FrameStays ==
  ASSUME NEW h, NEW c, NEW d, NEW dom, NEW more, Grown(c, d, dom, more),
         NEW boxes, NEW larger, boxes \subseteq larger,
         NEW base, NEW f, FrameSound(h, c, dom, base, boxes, f)
  PROVE  FrameSound(h, d, more, base, larger, f)
<1>1. base \subseteq DOMAIN d.blocks
  BY DEF FrameSound, Grown
<1>2. \A vs : AllAvailable(h, c, base, vs) => AllAvailable(h, d, base, vs)
  BY AllAvailableStay DEF FrameSound
<1>3. \A b : Behind(c, dom, base, b) => Behind(d, more, base, b)
  BY DEF Behind, Grown
<1>4. f.is = "dataflow" => DataflowSound(h, d, base, f)
  BY <1>2 DEF FrameSound, DataflowSound
<1>5. ASSUME f.is = "conditional" PROVE ConditionalSound(h, d, more, base, larger, f)
  <2>1. ConditionalSound(h, c, dom, base, boxes, f)
    BY <1>5 DEF FrameSound
  <2>2. f.home \in DOMAIN d.blocks /\ base \subseteq more[f.home]
    BY <2>1 DEF ConditionalSound, Grown
  <2> QED BY <1>2, <1>3, <2>1, <2>2 DEF ConditionalSound
<1>6. ASSUME f.is = "cfg" PROVE CfgSound(h, d, more, base, larger, f)
  BY <1>3, <1>6 DEF FrameSound, CfgSound
<1> QED BY <1>1, <1>4, <1>5, <1>6 DEF FrameSound

LEMMA NextStack ==
  ASSUME NEW h, NEW c, NEW d, NEW dom, NEW more, Grown(c, d, dom, more),
         NEW boxes, NEW larger, boxes \subseteq larger,
         NEW s, NEW t, IsSeq(s), s # <<>>, Same(s, t),
         NEW bases, NEW next, \A k \in 1 .. Len(s) - 1 : next[k] = bases[k],
         StackSound(h, c, dom, bases, boxes, s),
         \A k \in Len(s) .. Len(t) : FrameSound(h, d, more, next[k], larger, t[k]),
         \A k \in Len(s) .. Len(t) - 1 : next[k] \subseteq next[k + 1],
         Len(t) >= Len(s) => bases[Len(s)] \subseteq next[Len(s)],
         Len(t) > 0 /\ t[Len(t)].is = "dataflow" => next[Len(t)] \subseteq more[d.pos]
  PROVE  StackSound(h, d, more, next, larger, t)
<1> DEFINE n == Len(s)
<1>1. n \in Nat \ {0} /\ Len(t) \in Nat /\ n - 1 <= Len(t)
      /\ \A k \in 1 .. n - 1 : t[k] = s[k] /\ k \in 1 .. n
  BY SeqFacts DEF Same
<1>2. ASSUME NEW k \in 1 .. Len(t) PROVE FrameSound(h, d, more, next[k], larger, t[k])
  <2>1. CASE k \in n .. Len(t)
    BY <2>1
  <2>2. CASE k \in 1 .. n - 1
    <3>1. FrameSound(h, c, dom, bases[k], boxes, s[k]) /\ t[k] = s[k] /\ next[k] = bases[k]
      BY <1>1, <2>2 DEF StackSound
    <3> QED BY <3>1, FrameStays
  <2> QED BY <1>1, <2>1, <2>2
<1>3. ASSUME NEW k \in 1 .. Len(t) - 1 PROVE next[k] \subseteq next[k + 1]
  <2>1. CASE k \in n .. Len(t) - 1
    BY <2>1
  <2>2. CASE k = n - 1
    <3>1. k \in 1 .. n - 1 /\ k + 1 = n /\ Len(t) >= n
      BY <1>1, <2>2
    <3>2. bases[k] \subseteq bases[k + 1]
      BY <3>1 DEF StackSound
    <3> QED BY <3>1, <3>2
  <2>3. CASE k \in 1 .. n - 2
    <3>1. k \in 1 .. n - 1 /\ k + 1 \in 1 .. n - 1
      BY <1>1, <2>3
    <3> QED BY <3>1 DEF StackSound
  <2> QED BY <1>1, <2>1, <2>2, <2>3
<1> QED BY <1>2, <1>3 DEF StackSound

\* The innermost activation goes on.
LEMMA ReplaceCertified ==
  ASSUME NEW h, NEW c, NEW d, NEW dom, NEW more, Grown(c, d, dom, more),
         NEW boxes, NEW larger, boxes \subseteq larger,
         NEW s, IsSeq(s), s # <<>>, NEW bases, StackSound(h, c, dom, bases, boxes, s),
         CodeSound(h, d, more, larger),
         NEW f, FrameSound(h, d, more, bases[Len(s)], larger, f),
         f.is = "dataflow" => bases[Len(s)] \subseteq more[d.pos]
  PROVE  Certified(h, d, larger, Append(Front(s), f))
<1> DEFINE n == Len(s)
           t == Append(Front(s), f)
<1>1. Same(s, t) /\ Len(t) = n /\ t[n] = f /\ n \in Nat \ {0}
  BY ReplaceFacts, SeqFacts
<1> HIDE DEF t
<1>2. n .. Len(t) = {n} /\ n .. Len(t) - 1 = {}
  BY <1>1
<1>3. StackSound(h, d, more, bases, larger, t)
  BY <1>1, <1>2, NextStack
<1> QED BY <1>3 DEF Certified, t

\* It calls another.
LEMMA PushCertified ==
  ASSUME NEW h, NEW c, NEW d, NEW dom, NEW more, Grown(c, d, dom, more),
         NEW boxes, NEW larger, boxes \subseteq larger,
         NEW s, IsSeq(s), s # <<>>, NEW bases, StackSound(h, c, dom, bases, boxes, s),
         CodeSound(h, d, more, larger),
         NEW f, FrameSound(h, d, more, bases[Len(s)], larger, f),
         NEW g, NEW base, FrameSound(h, d, more, base, larger, g),
         bases[Len(s)] \subseteq base, g.is = "dataflow" => base \subseteq more[d.pos]
  PROVE  Certified(h, d, larger, Append(Append(Front(s), f), g))
<1> DEFINE n == Len(s)
           t == Append(Append(Front(s), f), g)
           next == [k \in 1 .. n + 1 |-> IF k = n + 1 THEN base ELSE bases[k]]
<1>1. Same(s, t) /\ Len(t) = n + 1 /\ t[n] = f /\ t[n + 1] = g /\ n \in Nat \ {0}
  BY PushFacts, SeqFacts
<1> HIDE DEF t, n
<1>2. n .. Len(t) = {n, n + 1} /\ n .. Len(t) - 1 = {n} /\ Len(t) = n + 1
  BY <1>1
<1>3. (\A k \in 1 .. n : next[k] = bases[k]) /\ next[n + 1] = base /\ n \in 1 .. n
  BY <1>1
<1> HIDE DEF next
<1>4. \A k \in n .. Len(t) : FrameSound(h, d, more, next[k], larger, t[k])
  BY <1>1, <1>2, <1>3 DEF n
<1>5. \A k \in n .. Len(t) - 1 : next[k] \subseteq next[k + 1]
  BY <1>2, <1>3 DEF n
<1>6. \A k \in 1 .. n - 1 : next[k] = bases[k]
  BY <1>1, <1>3
<1>7. bases[n] \subseteq next[n]
  BY <1>3
<1>8. t[Len(t)].is = "dataflow" => next[Len(t)] \subseteq more[d.pos]
  BY <1>1, <1>3
<1>9. StackSound(h, d, more, next, larger, t)
  BY <1>1, <1>4, <1>5, <1>6, <1>7, <1>8, NextStack DEF n
<1> QED BY <1>9 DEF Certified, t

\* It returns.
LEMMA PopCertified ==
  ASSUME NEW h, NEW c, NEW d, NEW dom, NEW more, Grown(c, d, dom, more),
         NEW boxes, NEW s, IsSeq(s), s # <<>>, NEW bases, StackSound(h, c, dom, bases, boxes, s),
         CodeSound(h, d, more, boxes),
         Len(s) > 1 /\ s[Len(s) - 1].is = "dataflow" => bases[Len(s)] \subseteq more[d.pos]
  PROVE  Certified(h, d, boxes, Front(s))
<1> DEFINE n == Len(s)
           t == Front(s)
<1>1. Same(s, t) /\ Len(t) = n - 1 /\ n \in Nat \ {0}
  BY FrontFacts
<1> HIDE DEF t
<1>2. n .. Len(t) = {} /\ n .. Len(t) - 1 = {} /\ ~(Len(t) >= n)
  BY <1>1
<1>3. ASSUME Len(t) > 0, t[Len(t)].is = "dataflow" PROVE bases[Len(t)] \subseteq more[d.pos]
  <2>1. n > 1 /\ Len(t) = n - 1 /\ n - 1 \in 1 .. n - 1 /\ n - 1 + 1 = n
    BY <1>1, <1>3
  <2>2. t[n - 1] = s[n - 1] /\ bases[n - 1] \subseteq bases[n]
    <3>1. bases[n - 1] \subseteq bases[n - 1 + 1]
      BY <2>1 DEF StackSound
    <3> QED BY <1>1, <2>1, <3>1 DEF Same
  <2> QED BY <1>3, <2>1, <2>2
<1>4. StackSound(h, d, more, bases, boxes, t)
  BY <1>1, <1>2, <1>3, NextStack
<1> QED BY <1>4 DEF Certified, t

-----------------------------------------------------------------------------
(* The state has a certificate.                                            *)

DInv == Certified(hugr, Code, mailboxes, stack)

LEMMA Recertified ==
  ASSUME hugr' = hugr, NEW d, SetCode(d), Certified(hugr, d, mailboxes', stack')
  PROVE  DInv'
<1>1. d = [blocks |-> d.blocks, pos |-> d.pos]
  BY DEF Certified, CodeSound
<1>2. Code' = d
  BY <1>1 DEF SetCode, Code
<1> QED BY <1>2 DEF DInv

LEMMA RowsAre ==
  /\ \A n : /\ InsRow(n) = InsOf(hugr, n) /\ OutsRow(n) = OutsOf(hugr, n)
           /\ CaseRow(n) = CaseRowOf(hugr, n)
  /\ \A n, m : InputRow(n, m) = BlockRowOf(hugr, n, m)
BY DEF InsRow, InsOf, OutsRow, OutsOf, CaseRow, CaseRowOf, Entering, InputRow, BlockRowOf, ExitRow, Exit

LEMMA TheChildIs ==
  ASSUME NEW h \in Hugrs, NEW p \in NodesOf(h), IsRegion(h, p), NEW kind \in {"Input", "Output"},
         NEW n \in ChildrenOf(h, p), h.kind[n] = kind
  PROVE  TheChild(h, p, kind) = n
<1>1. HasOne(h, p, kind)
  BY KidsFacts DEF ChildrenFit
<1>2. PICK m \in ChildrenOf(h, p) : \A k \in ChildrenOf(h, p) : h.kind[k] = kind <=> k = m
  BY <1>1 DEF HasOne
<1>3. \A k \in ChildrenOf(h, p) : h.kind[k] = kind <=> k = n
  BY <1>2
<1>4. TheChild(h, p, kind) \in ChildrenOf(h, p) /\ h.kind[TheChild(h, p, kind)] = kind
  BY DEF TheChild
<1> QED BY <1>3, <1>4

LEMMA Fits ==
  ASSUME NEW h \in Hugrs, NEW n \in NodesOf(h)
  PROVE  RowsFit(h, n)
BY HugrAssumption

LEMMA AllocatesAll ==
  ASSUME NEW rows, Allocate(rows)
  PROVE  mailboxes \subseteq mailboxes' /\ \A row \in rows : ToSet(row) \subseteq mailboxes'
BY DEF Allocate

\* What is available stays so in the same code, to larger sets of blocks.
LEMMA AvailableWider ==
  ASSUME NEW h, NEW c, NEW S, NEW T, S \subseteq T, NEW vs, AllAvailable(h, c, S, vs)
  PROVE  AllAvailable(h, c, T, vs)
BY DEF AllAvailable, Available

LEMMA VisitCertified ==
  ASSUME IInv, DInv, NEW n, Visit(n)
  PROVE  /\ hugr \in Hugrs /\ n \in NodesOf(hugr) /\ IsSeq(stack) /\ stack # <<>>
         /\ Code.pos = pos /\ Code.blocks = blocks
         /\ Top.node \in NodesOf(hugr) /\ IsRegion(hugr, Top.node) /\ n \in ChildrenOf(hugr, Top.node)
         /\ IsSeq(Top.outputs) /\ ToSet(Top.outputs) \subseteq mailboxes
         /\ \E dom, bases :
              /\ CodeSound(hugr, Code, dom, mailboxes)
              /\ StackSound(hugr, Code, dom, bases, mailboxes, stack)
              /\ FrameSound(hugr, Code, dom, bases[Len(stack)], mailboxes, Visited(n))
              /\ bases[Len(stack)] \subseteq dom[pos]
              /\ AllAvailable(hugr, Code, dom[pos], Top.inputs)
              /\ Len(Top.inputs) = Entering(hugr, Top.node)
              /\ Len(Top.outputs) = Leaving(hugr, Top.node)
<1> DEFINE v == Visited(n)
<1>1. /\ n \in NodesOf(hugr) /\ n \in ChildrenOf(hugr, Top.node)
      /\ v.is = "dataflow" /\ v.node = Top.node
      /\ v.inputs = Top.inputs /\ v.outputs = Top.outputs
      /\ IsDataflow(hugr, Top, Len(blocks), mailboxes)
  BY VisitFacts
<1> HIDE DEF v
<1>2. /\ hugr \in Hugrs /\ IsSeq(stack) /\ stack # <<>> /\ Top = stack[Len(stack)]
      /\ Top.is = "dataflow" /\ Len(stack) \in 1 .. Len(stack) /\ Len(stack) > 0
      /\ Code.pos = pos /\ Code.blocks = blocks
  BY TopFacts DEF Visit
<1>3. PICK dom, bases : /\ CodeSound(hugr, Code, dom, mailboxes)
                        /\ StackSound(hugr, Code, dom, bases, mailboxes, stack)
  BY DEF DInv, Certified
<1> DEFINE base == bases[Len(stack)]
<1>4. FrameSound(hugr, Code, dom, base, mailboxes, Top) /\ base \subseteq dom[pos]
  BY <1>2, <1>3 DEF StackSound
<1> HIDE DEF base
<1>5. base \subseteq DOMAIN blocks /\ DataflowSound(hugr, Code, base, Top)
  BY <1>2, <1>4 DEF FrameSound
<1>6. DataflowSound(hugr, Code, base, v)
  BY <1>1, <1>5 DEF DataflowSound
<1>7. FrameSound(hugr, Code, dom, base, mailboxes, v)
  BY <1>1, <1>2, <1>5, <1>6 DEF FrameSound
<1>8. AllAvailable(hugr, Code, dom[pos], Top.inputs)
  BY <1>4, <1>5, AvailableWider DEF DataflowSound
<1>9. Len(Top.inputs) = Entering(hugr, Top.node) /\ Len(Top.outputs) = Leaving(hugr, Top.node)
  BY <1>5 DEF DataflowSound
<1> QED BY <1>1, <1>2, <1>3, <1>4, <1>7, <1>8, <1>9 DEF base, v, IsDataflow

\* The inputs of a node, once they are read.
LEMMA ArgsSound ==
  ASSUME IInv, NEW n \in NodesOf(hugr), NEW dom, NEW boxes, CodeSound(hugr, Code, dom, boxes),
         ToSet(InsRow(n)) \subseteq boxes
  PROVE  /\ Appended(hugr, Code, ArgsRead(n), dom, boxes, Len(hugr.ins[n]))
         /\ IsSeq(Args(n)) /\ Len(Args(n)) = Len(hugr.ins[n])
         /\ AllAvailable(hugr, ArgsRead(n), dom[pos], Args(n))
<1> DEFINE k == Len(hugr.ins[n])
           c == Read(Code, InsRow(n))
<1>1. IsSeq(InsRow(n)) /\ Len(InsRow(n)) = k /\ k \in Nat
  BY RowFacts DEF IInv
<1> HIDE DEF k
<1>2. Appended(hugr, Code, c, dom, boxes, k)
  BY <1>1, ReadSound
<1>3. Code.pos = pos
  BY DEF Code
<1>4. pos \in dom[pos]
  BY <1>3, SoundSeqs
<1> HIDE DEF c
<1>5. DOMAIN c.blocks[Code.pos] = 1 .. Len(Code.blocks[Code.pos]) + k
  BY <1>2 DEF Appended
<1>6. /\ IsSeq(Upcoming(Code, k)) /\ Len(Upcoming(Code, k)) = k
      /\ \A i \in 1 .. k : Available(hugr, c, dom[pos], Upcoming(Code, k)[i])
  BY <1>1, <1>3, <1>4, <1>5, UpcomingAvailable
<1>7. AllAvailable(hugr, c, dom[pos], Upcoming(Code, k))
  BY <1>6 DEF AllAvailable
<1> QED BY <1>2, <1>6, <1>7 DEF Args, ArgsRead, k, c

\* A child that calls no other emitter leaves the certificate as it is.
LEMMA VisitStraight ==
  ASSUME IInv, NEW n, Visit(n), hugr' = hugr, NEW dom, NEW bases,
         StackSound(hugr, Code, dom, bases, mailboxes, stack),
         FrameSound(hugr, Code, dom, bases[Len(stack)], mailboxes, Visited(n)),
         bases[Len(stack)] \subseteq dom[pos], mailboxes \subseteq mailboxes',
         NEW d, SetCode(d), CodeSound(hugr, d, dom, mailboxes'), Grown(Code, d, dom, dom), d.pos = pos,
         stack' = ReplaceTop(Visited(n))
  PROVE  DInv'
<1> DEFINE v == Visited(n)
<1>1. IsSeq(stack) /\ stack # <<>> /\ stack' = Append(Front(stack), v)
  BY TopFacts DEF Visit, ReplaceTop
<1> HIDE DEF v
<1>2. FrameSound(hugr, d, dom, bases[Len(stack)], mailboxes', v)
  BY FrameStays DEF v
<1>3. Certified(hugr, d, mailboxes', Append(Front(stack), v))
  BY <1>1, <1>2, ReplaceCertified
<1> QED BY <1>1, <1>3, Recertified

LEMMA InputCertified ==
  ASSUME IInv, DInv, NEW n, EmitInput(n)
  PROVE  DInv'
<1> DEFINE d == Write(Code, OutsRow(n), Top.inputs)
<1>1. /\ Visit(n) /\ hugr.kind[n] = "Input" /\ SetCode(d) /\ Touches(n)
      /\ stack' = ReplaceTop(Visited(n)) /\ hugr' = hugr
  BY DEF EmitInput
<1>2. /\ hugr \in Hugrs /\ n \in NodesOf(hugr) /\ Code.pos = pos
      /\ Top.node \in NodesOf(hugr) /\ IsRegion(hugr, Top.node) /\ n \in ChildrenOf(hugr, Top.node)
  BY <1>1, VisitCertified
<1>3. PICK dom, bases :
              /\ CodeSound(hugr, Code, dom, mailboxes)
              /\ StackSound(hugr, Code, dom, bases, mailboxes, stack)
              /\ FrameSound(hugr, Code, dom, bases[Len(stack)], mailboxes, Visited(n))
              /\ bases[Len(stack)] \subseteq dom[pos]
              /\ AllAvailable(hugr, Code, dom[pos], Top.inputs)
              /\ Len(Top.inputs) = Entering(hugr, Top.node)
  BY <1>1, VisitCertified
<1>4. mailboxes \subseteq mailboxes' /\ ToSet(OutsRow(n)) \subseteq mailboxes'
  BY <1>1, AllocatesAll DEF Touches
<1>5. CodeSound(hugr, Code, dom, mailboxes')
  BY <1>3, <1>4, BoxesSound
<1>6. IsSeq(OutsRow(n)) /\ Len(OutsRow(n)) = hugr.nout[n]
  BY <1>2, RowFacts
<1>7. Len(Top.inputs) = hugr.nout[n]
  <2>1. TheChild(hugr, Top.node, "Input") = n
    BY <1>1, <1>2, TheChildIs
  <2> QED BY <1>3, <2>1 DEF Entering
<1>8. Appended(hugr, Code, d, dom, mailboxes', Len(OutsRow(n)))
  <2>1. \A i \in 1 .. Len(OutsRow(n)) : Available(hugr, Code, dom[Code.pos], Top.inputs[i])
    BY <1>2, <1>3, <1>6, <1>7 DEF AllAvailable
  <2> QED BY <1>4, <1>5, <1>6, <2>1, WriteSound
<1> HIDE DEF d
<1>9. CodeSound(hugr, d, dom, mailboxes') /\ Grown(Code, d, dom, dom) /\ d.pos = pos
  BY <1>2, <1>8 DEF Appended
<1> QED BY <1>1, <1>3, <1>4, <1>9, VisitStraight

LEMMA OutputCertified ==
  ASSUME IInv, DInv, NEW n, EmitOutput(n)
  PROVE  DInv'
<1> DEFINE c == ArgsRead(n)
           d == Write(c, Top.outputs, Args(n))
<1>1. /\ Visit(n) /\ hugr.kind[n] = "Output" /\ SetCode(d) /\ Touches(n)
      /\ stack' = ReplaceTop(Visited(n)) /\ hugr' = hugr
  BY DEF EmitOutput
<1>2. /\ hugr \in Hugrs /\ n \in NodesOf(hugr) /\ Code.pos = pos
      /\ Top.node \in NodesOf(hugr) /\ IsRegion(hugr, Top.node) /\ n \in ChildrenOf(hugr, Top.node)
      /\ IsSeq(Top.outputs) /\ ToSet(Top.outputs) \subseteq mailboxes
  BY <1>1, VisitCertified
<1>3. PICK dom, bases :
              /\ CodeSound(hugr, Code, dom, mailboxes)
              /\ StackSound(hugr, Code, dom, bases, mailboxes, stack)
              /\ FrameSound(hugr, Code, dom, bases[Len(stack)], mailboxes, Visited(n))
              /\ bases[Len(stack)] \subseteq dom[pos]
              /\ Len(Top.outputs) = Leaving(hugr, Top.node)
  BY <1>1, VisitCertified
<1>4. mailboxes \subseteq mailboxes' /\ ToSet(InsRow(n)) \subseteq mailboxes'
  BY <1>1, AllocatesAll DEF Touches
<1>5. CodeSound(hugr, Code, dom, mailboxes')
  BY <1>3, <1>4, BoxesSound
<1>6. /\ Appended(hugr, Code, c, dom, mailboxes', Len(hugr.ins[n]))
      /\ Len(Args(n)) = Len(hugr.ins[n]) /\ AllAvailable(hugr, c, dom[pos], Args(n))
  BY <1>2, <1>4, <1>5, ArgsSound
<1>7. Len(Top.outputs) = Len(hugr.ins[n])
  <2>1. TheChild(hugr, Top.node, "Output") = n
    BY <1>1, <1>2, TheChildIs
  <2> QED BY <1>3, <2>1 DEF Leaving
<1> HIDE DEF c
<1>8. CodeSound(hugr, c, dom, mailboxes') /\ Grown(Code, c, dom, dom) /\ c.pos = pos
  BY <1>2, <1>6 DEF Appended
<1>9. Appended(hugr, c, d, dom, mailboxes', Len(Top.outputs))
  <2>1. \A i \in 1 .. Len(Top.outputs) : Available(hugr, c, dom[c.pos], Args(n)[i])
    BY <1>6, <1>7, <1>8 DEF AllAvailable
  <2>2. ToSet(Top.outputs) \subseteq mailboxes'
    BY <1>2, <1>4
  <2> QED BY <1>2, <1>8, <2>1, <2>2, WriteSound
<1> HIDE DEF d
<1>10. CodeSound(hugr, d, dom, mailboxes') /\ Grown(Code, d, dom, dom) /\ d.pos = pos
  BY <1>8, <1>9 DEF Appended, Grown
<1> QED BY <1>1, <1>3, <1>4, <1>10, VisitStraight

LEMMA LeafCertified ==
  ASSUME IInv, DInv, NEW n, EmitLeaf(n)
  PROVE  DInv'
<1> DEFINE c == ArgsRead(n)
           args == Args(n)
           instrs == LeafInstrs(n, args)
           k == hugr.nout[n]
           e == Build(c, instrs)
           vs == Upcoming(c, Len(instrs))
           d == Write(e, OutsRow(n), vs)
<1>1. /\ Visit(n) /\ hugr.kind[n] \in Leaf /\ SetCode(d) /\ Touches(n)
      /\ stack' = ReplaceTop(Visited(n)) /\ hugr' = hugr
  BY DEF EmitLeaf
<1>2. /\ hugr \in Hugrs /\ n \in NodesOf(hugr) /\ Code.pos = pos
  BY <1>1, VisitCertified
<1>3. PICK dom, bases :
              /\ CodeSound(hugr, Code, dom, mailboxes)
              /\ StackSound(hugr, Code, dom, bases, mailboxes, stack)
              /\ FrameSound(hugr, Code, dom, bases[Len(stack)], mailboxes, Visited(n))
              /\ bases[Len(stack)] \subseteq dom[pos]
  BY <1>1, VisitCertified
<1>4. /\ mailboxes \subseteq mailboxes' /\ ToSet(InsRow(n)) \subseteq mailboxes'
      /\ ToSet(OutsRow(n)) \subseteq mailboxes'
  BY <1>1, AllocatesAll DEF Touches
<1>5. CodeSound(hugr, Code, dom, mailboxes')
  BY <1>3, <1>4, BoxesSound
<1>6. /\ Appended(hugr, Code, c, dom, mailboxes', Len(hugr.ins[n]))
      /\ IsSeq(args) /\ AllAvailable(hugr, c, dom[pos], args)
  BY <1>2, <1>4, <1>5, ArgsSound
<1> HIDE DEF c, args
<1>7. CodeSound(hugr, c, dom, mailboxes') /\ Grown(Code, c, dom, dom) /\ c.pos = pos
  BY <1>2, <1>6 DEF Appended
<1>8. c.pos \in DOMAIN c.blocks /\ pos \in dom[pos]
  BY <1>7, SoundSeqs
<1>9. IsSeq(OutsRow(n)) /\ Len(OutsRow(n)) = k /\ k \in Nat
  BY <1>2, RowFacts
<1>10. ASSUME NEW i \in Nat \ {0}
       PROVE  \A x, p : LET at == Len(c.blocks[c.pos]) + i IN
                /\ InstrSound(hugr, c, dom, mailboxes', MakeTag(x, args), c.pos, at)
                /\ InstrSound(hugr, c, dom, mailboxes', Constant(x), c.pos, at)
                /\ InstrSound(hugr, c, dom, mailboxes', Apply(x, args, p), c.pos, at)
  <2> DEFINE at == Len(c.blocks[c.pos]) + i
  <2>1. ASSUME NEW v \in ToSet(args) PROVE Usable(hugr, c, dom[c.pos], v, c.pos, at)
    <3>1. PICK j \in 1 .. Len(args) : v = args[j]
      BY <1>6, SeqFacts DEF ToSet
    <3>2. Available(hugr, c, dom[c.pos], v)
      BY <1>6, <1>7, <3>1 DEF AllAvailable
    <3> QED BY <1>7, <1>8, <3>2, UsableNext
  <2> HIDE DEF at
  <2> QED BY <2>1, LeafSound DEF at
<1>11. IsSeq(instrs) /\ Len(instrs) = k /\ Follow(hugr, c, dom, mailboxes', instrs)
  <2>1. \A i \in 1 .. k : i \in Nat \ {0}
    BY <1>9
  <2>2. \A x : LET at == Len(c.blocks[c.pos]) + 1 IN
          /\ InstrSound(hugr, c, dom, mailboxes', MakeTag(x, args), c.pos, at)
          /\ InstrSound(hugr, c, dom, mailboxes', Constant(x), c.pos, at)
    <3>1. 1 \in Nat \ {0}
      OBVIOUS
    <3> QED BY <1>10, <3>1
  <2>3. ASSUME NEW x, instrs = <<x>>, k = 1,
               InstrSound(hugr, c, dom, mailboxes', x, c.pos, Len(c.blocks[c.pos]) + 1)
        PROVE  IsSeq(instrs) /\ Len(instrs) = k /\ Follow(hugr, c, dom, mailboxes', instrs)
    <3>1. IsSeq(instrs) /\ Len(instrs) = 1 /\ instrs[1] = x
      BY <2>3, OneSeq
    <3> HIDE DEF instrs
    <3>2. \A i \in 1 .. Len(instrs) : i = 1
      BY <3>1
    <3> QED BY <2>3, <3>1, <3>2 DEF Follow
  <2>4. CASE hugr.kind[n] = "Tag"
    <3>1. instrs = <<MakeTag(hugr.tag[n], args)>> /\ k = 1
      BY <1>2, <2>4, Fits DEF LeafInstrs, TagInstrs, RowsFit
    <3> HIDE DEF instrs, k
    <3> QED BY <2>2, <2>3, <3>1
  <2>5. CASE hugr.kind[n] = "LoadConstant"
    <3>1. instrs = <<Constant(hugr.const[n])>> /\ k = 1
      BY <1>2, <2>5, Fits DEF LeafInstrs, ConstantInstrs, RowsFit
    <3> HIDE DEF instrs, k
    <3> QED BY <2>2, <2>3, <3>1
  <2>6. CASE hugr.kind[n] = "Op"
    <3>1. instrs = [p \in 1 .. k |-> Apply(hugr.fn[n], args, p)]
      BY <2>6 DEF LeafInstrs, Applied
    <3> HIDE DEF instrs, k
    <3>2. IsSeq(instrs) /\ Len(instrs) = k
      BY <1>9, <3>1, FunSeq
    <3>3. ASSUME NEW i \in 1 .. Len(instrs)
          PROVE  InstrSound(hugr, c, dom, mailboxes', instrs[i], c.pos, Len(c.blocks[c.pos]) + i)
      <4>1. i \in Nat \ {0} /\ instrs[i] = Apply(hugr.fn[n], args, i)
        BY <2>1, <3>1, <3>2
      <4> QED BY <1>10, <4>1
    <3> QED BY <3>2, <3>3 DEF Follow
  <2> QED BY <1>1, <2>4, <2>5, <2>6 DEF Leaf
<1> HIDE DEF instrs, k
<1>12. Appended(hugr, c, e, dom, mailboxes', k)
  BY <1>7, <1>11, BuildSound
<1> HIDE DEF e
<1>13. /\ CodeSound(hugr, e, dom, mailboxes') /\ Grown(c, e, dom, dom) /\ e.pos = pos
       /\ DOMAIN e.blocks[c.pos] = 1 .. Len(c.blocks[c.pos]) + k
  BY <1>7, <1>12 DEF Appended
<1>14. \A i \in 1 .. k : Available(hugr, e, dom[pos], vs[i])
  <2>1. vs = Upcoming(c, k)
    BY <1>11
  <2> HIDE DEF vs
  <2> QED BY <1>7, <1>8, <1>9, <1>13, <2>1, UpcomingAvailable
<1> HIDE DEF vs
<1>15. Appended(hugr, e, d, dom, mailboxes', k)
  BY <1>4, <1>9, <1>13, <1>14, WriteSound
<1> HIDE DEF d
<1>16. CodeSound(hugr, d, dom, mailboxes') /\ Grown(Code, d, dom, dom) /\ d.pos = pos
  BY <1>7, <1>13, <1>15 DEF Appended, Grown
<1> QED BY <1>1, <1>3, <1>4, <1>16, VisitStraight

LEMMA SilentCertified ==
  ASSUME IInv, DInv, NEW n, EmitSilent(n)
  PROVE  DInv'
<1>1. /\ Visit(n) /\ SetCode(Code) /\ stack' = ReplaceTop(Visited(n)) /\ hugr' = hugr
      /\ mailboxes' = mailboxes
  BY DEF EmitSilent, SetCode, Code
<1>2. Code.pos = pos
  BY DEF Code
<1>3. PICK dom, bases :
              /\ CodeSound(hugr, Code, dom, mailboxes)
              /\ StackSound(hugr, Code, dom, bases, mailboxes, stack)
              /\ FrameSound(hugr, Code, dom, bases[Len(stack)], mailboxes, Visited(n))
              /\ bases[Len(stack)] \subseteq dom[pos]
  BY <1>1, VisitCertified
<1>4. Grown(Code, Code, dom, dom)
  BY DEF Grown
<1> QED BY <1>1, <1>2, <1>3, <1>4, VisitStraight

LEMMA DfgCertified ==
  ASSUME IInv, DInv, NEW n, EnterDfg(n)
  PROVE  DInv'
<1> DEFINE d == ArgsRead(n)
           g == DataflowFrame(n, Args(n), OutsRow(n))
           v == Visited(n)
<1>1. /\ Visit(n) /\ hugr.kind[n] = "DFG" /\ SetCode(d) /\ Touches(n)
      /\ stack' = Append(Append(Front(stack), v), g) /\ hugr' = hugr
  BY DEF EnterDfg, ReplaceTop
<1>2. /\ hugr \in Hugrs /\ n \in NodesOf(hugr) /\ Code.pos = pos /\ IsSeq(stack) /\ stack # <<>>
  BY <1>1, VisitCertified
<1>3. PICK dom, bases :
              /\ CodeSound(hugr, Code, dom, mailboxes)
              /\ StackSound(hugr, Code, dom, bases, mailboxes, stack)
              /\ FrameSound(hugr, Code, dom, bases[Len(stack)], mailboxes, v)
              /\ bases[Len(stack)] \subseteq dom[pos]
  BY <1>1, VisitCertified
<1>4. mailboxes \subseteq mailboxes' /\ ToSet(InsRow(n)) \subseteq mailboxes'
  BY <1>1, AllocatesAll DEF Touches
<1>5. CodeSound(hugr, Code, dom, mailboxes')
  BY <1>3, <1>4, BoxesSound
<1>6. /\ Appended(hugr, Code, d, dom, mailboxes', Len(hugr.ins[n]))
      /\ Len(Args(n)) = Len(hugr.ins[n]) /\ AllAvailable(hugr, d, dom[pos], Args(n))
  BY <1>2, <1>4, <1>5, ArgsSound
<1>7. Len(OutsRow(n)) = hugr.nout[n]
  BY <1>2, RowFacts
<1>8. g.is = "dataflow" /\ g.node = n /\ g.inputs = Args(n) /\ g.outputs = OutsRow(n)
  BY DEF DataflowFrame
<1> HIDE DEF d, g, v
<1>9. CodeSound(hugr, d, dom, mailboxes') /\ Grown(Code, d, dom, dom) /\ d.pos = pos
  BY <1>2, <1>6 DEF Appended
<1>10. DataflowSound(hugr, d, dom[pos], g)
  <2>1. Entering(hugr, n) = Len(hugr.ins[n]) /\ Leaving(hugr, n) = hugr.nout[n]
    BY <1>1, <1>2, Fits DEF RowsFit
  <2> QED BY <1>1, <1>6, <1>7, <1>8, <2>1 DEF DataflowSound
<1>11. FrameSound(hugr, d, dom, dom[pos], mailboxes', g)
  <2>1. dom[pos] \subseteq DOMAIN d.blocks
    BY <1>9, SoundSeqs
  <2> QED BY <1>8, <1>10, <2>1 DEF FrameSound
<1>12. FrameSound(hugr, d, dom, bases[Len(stack)], mailboxes', v)
  BY <1>3, <1>4, <1>9, FrameStays
<1>13. Certified(hugr, d, mailboxes', Append(Append(Front(stack), v), g))
  BY <1>2, <1>3, <1>4, <1>9, <1>11, <1>12, PushCertified
<1> QED BY <1>1, <1>13, Recertified

LEMMA GrownFurther ==
  ASSUME NEW a, NEW b, NEW c, NEW d1, NEW d2, NEW d3, Grown(a, b, d1, d2), Grown(b, c, d2, d3)
  PROVE  Grown(a, c, d1, d3)
BY DEF Grown

LEMMA TailFacts ==
  ASSUME NEW s, IsSeq(s), s # <<>>
  PROVE  /\ IsSeq(Tail(s)) /\ Len(Tail(s)) = Len(s) - 1 /\ 1 \in 1 .. Len(s)
         /\ \A i \in 1 .. Len(Tail(s)) : Tail(s)[i] = s[i + 1] /\ i + 1 \in 1 .. Len(s)
<1>1. s \in Seq(ToSet(s)) /\ Len(s) \in Nat \ {0}
  BY SeqFacts DEF IsSeq
<1>2. Tail(s) \in Seq(ToSet(s)) /\ Len(Tail(s)) = Len(s) - 1
  BY <1>1
<1>3. IsSeq(Tail(s))
  BY <1>2, KnownSeq
<1>4. \A i \in 1 .. Len(s) - 1 : Tail(s)[i] = s[i + 1] /\ i + 1 \in 1 .. Len(s)
  BY <1>1
<1> QED BY <1>1, <1>2, <1>3, <1>4

\* The mailboxes from are emptied into the mailboxes to.
LEMMA MoveSound ==
  ASSUME NEW h, NEW c, NEW dom, NEW boxes, CodeSound(h, c, dom, boxes),
         NEW from, IsSeq(from), ToSet(from) \subseteq boxes,
         NEW to, IsSeq(to), ToSet(to) \subseteq boxes, Len(to) = Len(from)
  PROVE  LET d == Write(Read(c, from), to, Upcoming(c, Len(from)))
         IN  CodeSound(h, d, dom, boxes) /\ Grown(c, d, dom, dom) /\ d.pos = c.pos
<1> DEFINE r == Read(c, from)
           k == Len(from)
           vs == Upcoming(c, k)
           d == Write(r, to, vs)
<1>1. Appended(h, c, r, dom, boxes, k)
  BY ReadSound
<1> HIDE DEF r
<1>2. /\ CodeSound(h, r, dom, boxes) /\ Grown(c, r, dom, dom) /\ r.pos = c.pos
      /\ DOMAIN r.blocks[c.pos] = 1 .. Len(c.blocks[c.pos]) + k
  BY <1>1 DEF Appended
<1>3. k \in Nat /\ c.pos \in dom[c.pos]
  BY SeqFacts, SoundSeqs
<1>4. \A i \in 1 .. k : Available(h, r, dom[c.pos], vs[i])
  <2> HIDE DEF k
  <2> QED BY <1>2, <1>3, UpcomingAvailable
<1> HIDE DEF vs
<1>5. Appended(h, r, d, dom, boxes, k)
  BY <1>2, <1>4, WriteSound
<1> HIDE DEF d
<1>6. CodeSound(h, d, dom, boxes) /\ Grown(c, d, dom, dom) /\ d.pos = c.pos
  BY <1>2, <1>5, GrownFurther DEF Appended
<1> QED BY <1>6 DEF d, vs, r, k

\* Every path to the exit passes where the builder was.
ExitAdded(c, n, dom, boxes, more) ==
    /\ CodeSound(hugr, WithExit(c, n), more, boxes)
    /\ Grown(c, WithExit(c, n), dom, more)
    /\ WithExit(c, n).pos = c.pos
    /\ NewBlock(c) \in DOMAIN WithExit(c, n).blocks
    /\ more[NewBlock(c)] = dom[c.pos] \cup {NewBlock(c)}
    /\ more[c.pos] = dom[c.pos]

LEMMA WithExitSound ==
  ASSUME hugr \in Hugrs, NEW n \in NodesOf(hugr), NEW c, NEW dom, NEW boxes,
         CodeSound(hugr, c, dom, boxes),
         ToSet(OutsRow(n)) \subseteq boxes, ToSet(ExitRow(n)) \subseteq boxes
  PROVE  /\ c.pos \in DOMAIN c.blocks /\ dom[c.pos] \subseteq DOMAIN c.blocks
         /\ NewBlock(c) = Len(c.blocks) + 1 /\ Len(c.blocks) \in Nat
         /\ \E more : ExitAdded(c, n, dom, boxes, more)
<1> DEFINE exit == NewBlock(c)
           at == c.pos
           a == AddBlocks(c, 1)
           e == At(a, exit)
           moved == Write(Read(e, ExitRow(n)), OutsRow(n), Upcoming(e, hugr.nout[n]))
           d == At(moved, at)
<1>1. d = WithExit(c, n)
  BY DEF WithExit
<1>2. at \in DOMAIN c.blocks /\ dom[at] \subseteq DOMAIN c.blocks
      /\ exit = Len(c.blocks) + 1 /\ Len(c.blocks) \in Nat
  BY SoundSeqs DEF NewBlock
<1>3. /\ IsSeq(OutsRow(n)) /\ Len(OutsRow(n)) = hugr.nout[n]
      /\ IsSeq(ExitRow(n)) /\ Len(ExitRow(n)) = hugr.nout[n]
  BY RowFacts, ExitRowFacts
<1> HIDE DEF exit, at
<1>4. PICK more : /\ CodeSound(hugr, a, more, boxes) /\ Grown(c, a, dom, more)
                  /\ ComeBy(c, 1, dom[at], more)
  <2>1. 1 \in Nat
    OBVIOUS
  <2> QED BY <1>2, <2>1, AddSound
<1>5. more[exit] = dom[at] \cup {exit} /\ more[at] = dom[at] /\ Len(a.blocks) = Len(c.blocks) + 1
  <2>1. more[Len(c.blocks) + 1] = dom[at] \cup {Len(c.blocks) + 1}
    BY <1>4 DEF ComeBy
  <2>2. Len(a.blocks) = Len(c.blocks) + 1
    BY <1>2, AddSound
  <2> QED BY <1>2, <1>4, <2>1, <2>2 DEF Grown
<1> HIDE DEF a
<1>6. exit \in DOMAIN a.blocks /\ at \in DOMAIN a.blocks
  BY <1>2, <1>4, <1>5, SoundSeqs DEF Grown
<1>7. CodeSound(hugr, e, more, boxes) /\ Grown(a, e, more, more)
  BY <1>4, <1>6, AtSound
<1> HIDE DEF e
<1>8. CodeSound(hugr, moved, more, boxes) /\ Grown(e, moved, more, more)
  BY <1>3, <1>7, MoveSound
<1> HIDE DEF moved
<1>9. /\ CodeSound(hugr, d, more, boxes) /\ d.pos = at /\ Grown(moved, d, more, more)
  <2>1. at \in DOMAIN moved.blocks
    BY <1>6, <1>7, <1>8 DEF Grown
  <2> QED BY <1>8, <2>1, AtSound
<1> HIDE DEF d
<1>10. Grown(a, d, more, more) /\ Grown(c, d, dom, more)
  BY <1>4, <1>7, <1>8, <1>9, GrownFurther
<1>11. exit \in DOMAIN d.blocks
  BY <1>6, <1>10 DEF Grown
<1>12. ExitAdded(c, n, dom, boxes, more)
  BY <1>1, <1>5, <1>9, <1>10, <1>11 DEF exit, at, ExitAdded
<1> QED BY <1>2, <1>12 DEF exit, at

\* The block of a handler: what it does, stores, and a branch.
LEMMA AlternativeSound ==
  ASSUME hugr \in Hugrs, NEW n \in NodesOf(hugr), NEW d, NEW dom, NEW boxes, NEW b, NEW f,
         NEW args, \A v \in ToSet(args) : \A k \in Nat : Usable(hugr, d, dom[b], v, b, k),
         ToSet(ExitRow(n)) \subseteq boxes,
         NEW exit \in DOMAIN d.blocks, dom[exit] \subseteq dom[b] \cup {exit}
  PROVE  LET block == Alternative(b, f, n, args, exit)
         IN  /\ IsSeq(block)
             /\ \A j \in DOMAIN block : InstrSound(hugr, d, dom, boxes, block[j], b, j)
<1> DEFINE k == hugr.nout[n]
           row == ExitRow(n)
           first == Applied(f, args, n)
           second == [p \in DOMAIN row |-> Store(row[p], <<b, p>>)]
           block == Alternative(b, f, n, args, exit)
           s == first \o second
           end == Branch(exit)
<1>1. k \in Nat /\ IsSeq(row) /\ Len(row) = k /\ DOMAIN row = 1 .. k
  BY RowFacts, ExitRowFacts, SeqFacts
<1>2. block = s \o <<end>>
  BY DEF Alternative
<1>3. first = [p \in 1 .. k |-> Apply(f, args, p)]
  BY DEF Applied
<1> HIDE DEF row, k
<1>4. second = [p \in 1 .. k |-> Store(row[p], <<b, p>>)]
  BY <1>1
<1> HIDE DEF first, second, block, end
<1>5. IsSeq(first) /\ Len(first) = k /\ \A p \in 1 .. k : first[p] = Apply(f, args, p)
  BY <1>1, <1>3, FunSeq
<1>6. /\ IsSeq(second) /\ Len(second) = k
      /\ \A p \in 1 .. k : second[p] = Store(row[p], <<b, p>>) /\ row[p] \in boxes
  <2>1. \A p \in 1 .. k : row[p] \in boxes
    BY <1>1 DEF ToSet, row
  <2> QED BY <1>1, <1>4, <2>1, FunSeq
<1>7. /\ IsSeq(s) /\ Len(s) = k + k
      /\ \A j \in 1 .. k : s[j] = first[j]
      /\ \A j \in 1 .. k : s[k + j] = second[j]
  BY <1>5, <1>6, ConcatSeq
<1> HIDE DEF s
<1>8. /\ IsSeq(block) /\ DOMAIN block = 1 .. k + k + 1
      /\ \A j \in 1 .. k + k : block[j] = s[j]
      /\ block[k + k + 1] = end
  BY <1>2, <1>7, SnocSeq
<1>9. ASSUME NEW j \in DOMAIN block PROVE InstrSound(hugr, d, dom, boxes, block[j], b, j)
  <2>1. CASE j \in 1 .. k
    <3>1. block[j] = Apply(f, args, j) /\ j \in Nat
      BY <1>1, <1>5, <1>7, <1>8, <2>1
    <3> QED BY <3>1, LeafSound
  <2>2. CASE j - k \in 1 .. k /\ j = k + (j - k)
    <3>1. block[j] = Store(row[j - k], <<b, j - k>>) /\ row[j - k] \in boxes
      BY <1>1, <1>6, <1>7, <1>8, <2>2
    <3>2. j - k < j
      BY <1>1, <2>2
    <3>3. Usable(hugr, d, dom[b], <<b, j - k>>, b, j)
      BY <3>2 DEF Usable
    <3> QED BY <3>1, <3>3, StoreSound
  <2>3. CASE j = k + k + 1
    BY <1>8, <2>3, BranchSound DEF end
  <2>4. j \in 1 .. k \/ (j - k \in 1 .. k /\ j = k + (j - k)) \/ j = k + k + 1
    BY <1>1, <1>8
  <2> QED BY <2>1, <2>2, <2>3, <2>4
<1> QED BY <1>8, <1>9 DEF block

LEMMA GuardedSound ==
  ASSUME hugr \in Hugrs, NEW n \in NodesOf(hugr), NEW c, CodeOK(c), NEW dom, NEW boxes,
         CodeSound(hugr, c, dom, boxes),
         ToSet(OutsRow(n)) \subseteq boxes, ToSet(ExitRow(n)) \subseteq boxes,
         NEW args, IsSeq(args), AllAvailable(hugr, c, dom[c.pos], args)
  PROVE  LET d == GuardedCode(c, n, args)
         IN  \E more : /\ CodeSound(hugr, d, more, boxes) /\ Grown(c, d, dom, more)
                       /\ NewBlock(c) \in DOMAIN d.blocks
                       /\ dom[c.pos] \subseteq more[NewBlock(c)]
<1> DEFINE exit == NewBlock(c)
           at == c.pos
           f == hugr.fn[n]
           m == WithExit(c, n)
           test == Apply(f.test, args, 1)
           v == Upcoming(m, 1)[1]
           ts == <<exit + 2, exit + 1>>
           t == Build(m, <<test>>)
           ok == Alternative(exit + 1, f.ok, n, args, exit)
           bad == Alternative(exit + 2, f.bad, n, args, exit)
           new == <<ok, bad>>
           e == Extend(t, new)
           d == GuardedCode(c, n, args)
<1>1. d = Extend(Build(t, <<Switch(v, ts)>>), new)
  BY DEF GuardedCode
<1>2. /\ at \in DOMAIN c.blocks /\ dom[at] \subseteq DOMAIN c.blocks
      /\ exit = Len(c.blocks) + 1 /\ Len(c.blocks) \in Nat
  BY WithExitSound
<1>3. Len(m.blocks) = exit
  BY <1>2, WithExitCode
<1>17. PICK mid : ExitAdded(c, n, dom, boxes, mid)
  BY WithExitSound
<1>4. /\ CodeSound(hugr, m, mid, boxes) /\ Grown(c, m, dom, mid) /\ m.pos = at
      /\ exit \in DOMAIN m.blocks
      /\ mid[exit] = dom[at] \cup {exit} /\ mid[at] = dom[at]
  BY <1>17 DEF ExitAdded
<1> HIDE DEF d, m, ok, bad, exit, at
<1>5. ASSUME NEW x \in ToSet(args) PROVE Available(hugr, m, mid[at], x)
  <2>1. PICK j \in 1 .. Len(args) : x = args[j]
    BY SeqFacts DEF ToSet
  <2>2. Available(hugr, c, dom[at], x)
    BY <2>1 DEF AllAvailable, at
  <2> QED BY <1>2, <1>4, <2>2, AvailableStays
<1>6. Appended(hugr, m, t, mid, boxes, 1)
  <2>1. ASSUME NEW x \in ToSet(args)
        PROVE  Usable(hugr, m, mid[at], x, at, Len(m.blocks[at]) + 1)
    <3>1. at \in DOMAIN m.blocks /\ 1 \in Nat \ {0}
      BY <1>2, <1>4 DEF Grown
    <3> QED BY <1>4, <1>5, <3>1, UsableNext
  <2>2. InstrSound(hugr, m, mid, boxes, test, m.pos, Len(m.blocks[m.pos]) + 1)
    BY <1>4, <2>1, LeafSound
  <2> HIDE DEF test
  <2> QED BY <1>4, <2>2, EndSound
<1> HIDE DEF t
<1>7. /\ CodeSound(hugr, t, mid, boxes) /\ Grown(m, t, mid, mid) /\ t.pos = at
      /\ Len(t.blocks) = exit /\ DOMAIN t.blocks[m.pos] = 1 .. Len(m.blocks[m.pos]) + 1
      /\ Grown(c, t, dom, mid)
  BY <1>3, <1>4, <1>6, GrownFurther DEF Appended
<1>8. Available(hugr, t, mid[at], v)
  <2>1. at \in mid[at] /\ 1 \in Nat /\ 1 \in 1 .. 1
    BY <1>4, SoundSeqs
  <2> QED BY <1>4, <1>7, <2>1, UpcomingAvailable
<1> HIDE DEF v
<1>9. /\ \A x \in ToSet(args) : Available(hugr, t, mid[at], x)
      /\ mid[at] \subseteq DOMAIN t.blocks /\ exit \in DOMAIN t.blocks
  <2>1. mid[at] \subseteq DOMAIN m.blocks
    BY <1>4, SoundSeqs
  <2>2. mid[at] \subseteq DOMAIN t.blocks /\ exit \in DOMAIN t.blocks
    BY <1>4, <1>7, <2>1 DEF Grown
  <2> QED BY <1>5, <1>7, <2>1, <2>2, AvailableStays
<1> DEFINE more == Forked(t, mid, 2)
<1>10. IsSeq(new) /\ Len(new) = 2 /\ new[1] = ok /\ new[2] = bad
  <2>1. <<ok, bad>> \in Seq({ok, bad}) /\ Len(<<ok, bad>>) = 2
        /\ <<ok, bad>>[1] = ok /\ <<ok, bad>>[2] = bad
    OBVIOUS
  <2> QED BY <2>1, KnownSeq
<1> HIDE DEF new
<1>11. /\ DOMAIN e.blocks = 1 .. exit + 2
       /\ \A b \in 1 .. exit : more[b] = mid[b] /\ b \in 1 .. exit + 2
       /\ \A i \in 1 .. 2 : more[exit + i] = mid[at] \cup {exit + i}
       /\ \A x : Available(hugr, t, mid[at], x) =>
            \A i \in 1 .. 2 : \A j \in Nat : Usable(hugr, e, more[exit + i], x, exit + i, j)
  <2> DEFINE l == Len(t.blocks)
             k == Len(new)
             w == Forked(t, mid, k)
  <2>1. CodeSound(hugr, t, mid, boxes) /\ IsSeq(new)
    BY <1>7, <1>10
  <2>2. /\ e.pos = t.pos /\ DOMAIN e.blocks = 1 .. l + k
        /\ \A b \in 1 .. l : w[b] = mid[b] /\ b \in 1 .. l + k
        /\ \A i \in 1 .. k : w[l + i] = mid[t.pos] \cup {l + i} /\ l + i \in 1 .. l + k
        /\ mid[t.pos] \subseteq 1 .. l + k
        /\ Grown(t, e, mid, w)
        /\ \A x : Available(hugr, t, mid[t.pos], x) =>
             \A i \in 1 .. k : \A j \in Nat : Usable(hugr, e, w[l + i], x, l + i, j)
    BY <2>1, ForkFacts, Zenon
  <2>3. l = exit /\ k = 2
    BY <1>7, <1>10
  <2> HIDE DEF k
  <2>4. w = more
    BY <2>3
  <2> HIDE DEF l, w, e, more
  <2> QED BY <1>7, <2>2, <2>3, <2>4
<1> HIDE DEF e, more
<1>12. exit \in 1 .. exit /\ exit \in DOMAIN e.blocks /\ more[exit] = dom[at] \cup {exit}
  BY <1>2, <1>4, <1>11
<1>13. ASSUME NEW i \in 1 .. 2
       PROVE  /\ IsSeq(new[i])
              /\ \A j \in DOMAIN new[i] : InstrSound(hugr, e, more, boxes, new[i][j], exit + i, j)
  <2>1. more[exit] \subseteq more[exit + i] \cup {exit}
    BY <1>4, <1>11, <1>12
  <2>2. \A x \in ToSet(args) : \A k \in Nat : Usable(hugr, e, more[exit + i], x, exit + i, k)
    BY <1>9, <1>11
  <2>3. \A g : LET block == Alternative(exit + i, g, n, args, exit)
               IN  /\ IsSeq(block)
                   /\ \A j \in DOMAIN block : InstrSound(hugr, e, more, boxes, block[j], exit + i, j)
    BY <1>12, <2>1, <2>2, AlternativeSound
  <2>4. CASE i = 1
    BY <1>10, <2>3, <2>4 DEF ok
  <2>5. CASE i = 2
    BY <1>10, <2>3, <2>5 DEF bad
  <2> QED BY <2>4, <2>5
<1>14. CodeSound(hugr, d, more, boxes) /\ Grown(t, d, mid, more)
  <2>1. ToSet(ts) \subseteq {Len(t.blocks) + i : i \in 1 .. Len(new)}
    <3>1. ToSet(ts) = {exit + 1, exit + 2}
      BY DEF ToSet
    <3>2. 1 \in 1 .. 2 /\ 2 \in 1 .. 2
      OBVIOUS
    <3> HIDE DEF ts
    <3> QED BY <1>7, <1>10, <3>1, <3>2
  <2>2. \A i \in 1 .. Len(new) :
           /\ IsSeq(new[i])
           /\ \A j \in DOMAIN new[i] :
                InstrSound(hugr, Extend(t, new), Forked(t, mid, Len(new)), boxes,
                           new[i][j], Len(t.blocks) + i, j)
    BY <1>7, <1>10, <1>13 DEF e, more
  <2>3. Available(hugr, t, mid[t.pos], v)
    BY <1>7, <1>8
  <2>4. more = Forked(t, mid, Len(new))
    BY <1>10 DEF more
  <2> HIDE DEF ts
  <2> QED BY <1>1, <1>7, <1>10, <2>1, <2>2, <2>3, <2>4, ForkSound
<1>15. Grown(c, d, dom, more)
  BY <1>7, <1>14, GrownFurther
<1>16. exit \in DOMAIN d.blocks
  BY <1>9, <1>14 DEF Grown
<1> QED BY <1>12, <1>14, <1>15, <1>16 DEF d, exit, at

LEMMA GuardedCertified ==
  ASSUME IInv, DInv, NEW n, EmitGuarded(n)
  PROVE  DInv'
<1> DEFINE c == ArgsRead(n)
           e == GuardedCode(c, n, Args(n))
           exit == NewBlock(c)
           d == At(e, exit)
           v == Visited(n)
           rows == {InsRow(n), OutsRow(n), ExitRow(n)}
<1>1. /\ Visit(n) /\ SetCode(d) /\ Allocate(rows)
      /\ stack' = Append(Front(stack), v) /\ hugr' = hugr
  BY DEF EmitGuarded, ReplaceTop
<1>2. /\ hugr \in Hugrs /\ n \in NodesOf(hugr) /\ Code.pos = pos /\ IsSeq(stack) /\ stack # <<>>
  BY <1>1, VisitCertified
<1>3. PICK dom, bases :
              /\ CodeSound(hugr, Code, dom, mailboxes)
              /\ StackSound(hugr, Code, dom, bases, mailboxes, stack)
              /\ FrameSound(hugr, Code, dom, bases[Len(stack)], mailboxes, v)
              /\ bases[Len(stack)] \subseteq dom[pos]
  BY <1>1, VisitCertified
<1>4. /\ mailboxes \subseteq mailboxes' /\ ToSet(InsRow(n)) \subseteq mailboxes'
      /\ ToSet(OutsRow(n)) \subseteq mailboxes' /\ ToSet(ExitRow(n)) \subseteq mailboxes'
  <2>1. InsRow(n) \in rows /\ OutsRow(n) \in rows /\ ExitRow(n) \in rows
    OBVIOUS
  <2> HIDE DEF rows
  <2> QED BY <1>1, <2>1, AllocatesAll
<1>5. CodeSound(hugr, Code, dom, mailboxes')
  BY <1>3, <1>4, BoxesSound
<1>6. /\ Appended(hugr, Code, c, dom, mailboxes', Len(hugr.ins[n]))
      /\ IsSeq(Args(n)) /\ AllAvailable(hugr, c, dom[pos], Args(n))
  BY <1>2, <1>4, <1>5, ArgsSound
<1>7. CodeOK(c)
  BY <1>1, ArgsFacts
<1> HIDE DEF c, v
<1>8. CodeSound(hugr, c, dom, mailboxes') /\ Grown(Code, c, dom, dom) /\ c.pos = pos
  BY <1>2, <1>6 DEF Appended
<1>9. PICK more : /\ CodeSound(hugr, e, more, mailboxes') /\ Grown(c, e, dom, more)
                  /\ exit \in DOMAIN e.blocks /\ dom[pos] \subseteq more[exit]
  BY <1>2, <1>4, <1>6, <1>7, <1>8, GuardedSound
<1> HIDE DEF e, exit
<1>10. CodeSound(hugr, d, more, mailboxes') /\ d.pos = exit /\ Grown(e, d, more, more)
  BY <1>9, AtSound
<1> HIDE DEF d
<1>11. Grown(Code, d, dom, more)
  BY <1>8, <1>9, <1>10, GrownFurther
<1>12. FrameSound(hugr, d, more, bases[Len(stack)], mailboxes', v)
  BY <1>3, <1>4, <1>11, FrameStays
<1>13. bases[Len(stack)] \subseteq more[d.pos]
  BY <1>3, <1>9, <1>10
<1>14. Certified(hugr, d, mailboxes', Append(Front(stack), v))
  BY <1>2, <1>3, <1>4, <1>10, <1>11, <1>12, <1>13, ReplaceCertified
<1> QED BY <1>1, <1>14, Recertified

LEMMA ConditionalCertified ==
  ASSUME IInv, DInv, NEW n, EnterConditional(n)
  PROVE  DInv'
<1> DEFINE c == ArgsRead(n)
           exit == NewBlock(c)
           d == WithExit(c, n)
           g == ConditionalFrame(n, Args(n), exit)
           v == Visited(n)
           rows == {InsRow(n), OutsRow(n), ExitRow(n)}
<1>1. /\ Visit(n) /\ hugr.kind[n] = "Conditional" /\ SetCode(d) /\ Allocate(rows)
      /\ stack' = Append(Append(Front(stack), v), g) /\ hugr' = hugr
  BY DEF EnterConditional, ReplaceTop
<1>2. /\ hugr \in Hugrs /\ n \in NodesOf(hugr) /\ Code.pos = pos /\ IsSeq(stack) /\ stack # <<>>
  BY <1>1, VisitCertified
<1>3. PICK dom, bases :
              /\ CodeSound(hugr, Code, dom, mailboxes)
              /\ StackSound(hugr, Code, dom, bases, mailboxes, stack)
              /\ FrameSound(hugr, Code, dom, bases[Len(stack)], mailboxes, v)
              /\ bases[Len(stack)] \subseteq dom[pos]
  BY <1>1, VisitCertified
<1>4. /\ mailboxes \subseteq mailboxes' /\ ToSet(InsRow(n)) \subseteq mailboxes'
      /\ ToSet(OutsRow(n)) \subseteq mailboxes' /\ ToSet(ExitRow(n)) \subseteq mailboxes'
  <2>1. InsRow(n) \in rows /\ OutsRow(n) \in rows /\ ExitRow(n) \in rows
    OBVIOUS
  <2> HIDE DEF rows
  <2> QED BY <1>1, <2>1, AllocatesAll
<1>5. CodeSound(hugr, Code, dom, mailboxes')
  BY <1>3, <1>4, BoxesSound
<1>6. /\ Appended(hugr, Code, c, dom, mailboxes', Len(hugr.ins[n]))
      /\ Len(Args(n)) = Len(hugr.ins[n]) /\ AllAvailable(hugr, c, dom[pos], Args(n))
  BY <1>2, <1>4, <1>5, ArgsSound
<1>8. /\ g.is = "conditional" /\ g.node = n /\ g.inputs = Args(n) /\ g.exit = exit
      /\ g.cases = <<>> /\ g.home = pos
  BY DEF ConditionalFrame
<1> HIDE DEF c, g, v
<1>9. CodeSound(hugr, c, dom, mailboxes') /\ Grown(Code, c, dom, dom) /\ c.pos = pos
  BY <1>2, <1>6 DEF Appended
<1>10. pos \in DOMAIN c.blocks /\ dom[pos] \subseteq DOMAIN c.blocks
  BY <1>9, SoundSeqs
<1>11. PICK more : ExitAdded(c, n, dom, mailboxes', more)
  BY <1>2, <1>4, <1>9, WithExitSound
<1>16. /\ CodeSound(hugr, d, more, mailboxes') /\ d.pos = pos /\ Grown(c, d, dom, more)
       /\ exit \in DOMAIN d.blocks
       /\ more[exit] = dom[pos] \cup {exit} /\ more[pos] = dom[pos]
  BY <1>9, <1>11 DEF ExitAdded
<1> HIDE DEF d, exit
<1>18. Grown(Code, d, dom, more)
  BY <1>9, <1>16, GrownFurther
<1>19. ConditionalSound(hugr, d, more, dom[pos], mailboxes', g)
  <2>1. AllAvailable(hugr, d, dom[pos], Args(n))
    BY <1>6, <1>10, <1>16, AllAvailableStay
  <2>2. pos \in DOMAIN d.blocks
    BY <1>10, <1>16 DEF Grown
  <2>3. Behind(d, more, dom[pos], exit)
    BY <1>16 DEF Behind
  <2>4. 1 .. Len(g.cases) = {}
    BY <1>8
  <2> QED BY <1>6, <1>8, <1>16, <2>1, <2>2, <2>3, <2>4 DEF ConditionalSound
<1>20. FrameSound(hugr, d, more, dom[pos], mailboxes', g)
  <2>1. dom[pos] \subseteq DOMAIN d.blocks
    BY <1>10, <1>16 DEF Grown
  <2> QED BY <1>8, <1>19, <2>1 DEF FrameSound
<1>21. FrameSound(hugr, d, more, bases[Len(stack)], mailboxes', v)
  BY <1>3, <1>4, <1>18, FrameStays
<1>22. Certified(hugr, d, mailboxes', Append(Append(Front(stack), v), g))
  <2>1. ~(g.is = "dataflow")
    BY <1>8
  <2> QED BY <1>2, <1>3, <1>4, <1>16, <1>18, <1>20, <1>21, <2>1, PushCertified
<1> QED BY <1>1, <1>22, Recertified

LEMMA CfgCertified ==
  ASSUME IInv, DInv, NEW n, EnterCfg(n)
  PROVE  DInv'
<1> DEFINE c == ArgsRead(n)
           dfbs == SetToSeq(DataflowBlocks(n))
           K == Len(dfbs)
           bb == [m \in ToSet(dfbs) \cup {Exit(n)} |->
                    IF m = Exit(n) THEN NewBlock(c)
                    ELSE NewBlock(c) + CHOOSE i \in DOMAIN dfbs : dfbs[i] = m]
           ready == AddBlocks(c, 1 + K)
           row == InputRow(n, Entry(n))
           written == Write(ready, row, Args(n))
           br == Branch(bb[Entry(n)])
           d == Build(written, <<br>>)
           g == CfgFrame(n, bb, OutsRow(n))
           v == Visited(n)
           rows == {InsRow(n), OutsRow(n)} \cup {InputRow(n, m) : m \in DOMAIN bb}
<1>1. /\ Visit(n) /\ hugr.kind[n] = "CFG" /\ SetCode(d) /\ Allocate(rows)
      /\ stack' = Append(Append(Front(stack), v), g) /\ hugr' = hugr
  BY DEF EnterCfg, ReplaceTop
<1>2. /\ hugr \in Hugrs /\ n \in NodesOf(hugr) /\ Code.pos = pos /\ IsSeq(stack) /\ stack # <<>>
  BY <1>1, VisitCertified
<1>3. PICK dom, bases :
              /\ CodeSound(hugr, Code, dom, mailboxes)
              /\ StackSound(hugr, Code, dom, bases, mailboxes, stack)
              /\ FrameSound(hugr, Code, dom, bases[Len(stack)], mailboxes, v)
              /\ bases[Len(stack)] \subseteq dom[pos]
  BY <1>1, VisitCertified
<1>4. /\ ToSet(dfbs) = DataflowBlocks(n) /\ K \in Nat /\ DOMAIN dfbs = 1 .. K
  <2>1. IsFiniteSet(DataflowBlocks(n))
    BY <1>1, <1>2, CfgFacts
  <2> QED BY <2>1, SetToSeqFacts
<1>5. /\ Exit(n) \in CfgBlocks(hugr, n) /\ Entry(n) \in CfgBlocks(hugr, n)
      /\ CfgBlocks(hugr, n) = ToSet(dfbs) \cup {Exit(n)} /\ hugr.kind[Entry(n)] = "DataflowBlock"
      /\ Entry(n) # Exit(n) /\ DOMAIN bb = CfgBlocks(hugr, n)
  <2>1. DOMAIN bb = ToSet(dfbs) \cup {Exit(n)}
    OBVIOUS
  <2> HIDE DEF bb, dfbs
  <2>2. /\ Exit(n) \in CfgBlocks(hugr, n) /\ Entry(n) \in CfgBlocks(hugr, n)
        /\ CfgBlocks(hugr, n) = DataflowBlocks(n) \cup {Exit(n)} /\ hugr.kind[Entry(n)] = "DataflowBlock"
        /\ \A m \in CfgBlocks(hugr, n) : hugr.kind[m] = "ExitBlock" <=> m = Exit(n)
    BY <1>1, <1>2, CfgFacts
  <2> QED BY <1>4, <2>1, <2>2
<1>6. /\ mailboxes \subseteq mailboxes' /\ ToSet(InsRow(n)) \subseteq mailboxes'
      /\ \A m \in CfgBlocks(hugr, n) : ToSet(InputRow(n, m)) \subseteq mailboxes'
  <2>1. InsRow(n) \in rows /\ \A m \in CfgBlocks(hugr, n) : InputRow(n, m) \in rows
    <3> HIDE DEF bb
    <3> QED BY <1>5
  <2> HIDE DEF rows
  <2> QED BY <1>1, <2>1, AllocatesAll
<1>7. CodeSound(hugr, Code, dom, mailboxes')
  BY <1>3, <1>6, BoxesSound
<1>8. /\ Appended(hugr, Code, c, dom, mailboxes', Len(hugr.ins[n]))
      /\ Len(Args(n)) = Len(hugr.ins[n]) /\ AllAvailable(hugr, c, dom[pos], Args(n))
  BY <1>2, <1>6, <1>7, ArgsSound
<1>9. Len(OutsRow(n)) = hugr.nout[n]
  BY <1>2, RowFacts
<1>10. IsSeq(row) /\ ToSet(row) \subseteq mailboxes' /\ Len(row) = Len(hugr.ins[n])
  <2>1. IsSeq(row) /\ ToSet(row) \subseteq mailboxes'
    BY <1>1, <1>2, <1>5, <1>6, InputRowFacts
  <2>2. row = OutsRow(TheChild(hugr, Entry(n), "Input"))
    BY <1>5 DEF InputRow
  <2>3. Entry(n) \in NodesOf(hugr) /\ IsRegion(hugr, Entry(n))
    BY <1>2, <1>5, KidsFacts DEF CfgBlocks, IsRegion
  <2>4. TheChild(hugr, Entry(n), "Input") \in NodesOf(hugr)
    BY <1>2, <2>3, RegionFacts
  <2>5. Len(row) = Entering(hugr, Entry(n))
    BY <1>2, <2>2, <2>4, RowFacts DEF Entering
  <2>6. Entering(hugr, Entry(n)) = Len(hugr.ins[n])
    BY <1>1, <1>2, Fits DEF RowsFit, Entry
  <2> QED BY <2>1, <2>5, <2>6
<1>11. g.is = "cfg" /\ g.node = n /\ g.outputs = OutsRow(n) /\ g.bb = bb
  <2> HIDE DEF bb
  <2> QED BY DEF CfgFrame
<1> HIDE DEF c, g, v, row, rows, d
<1>12. CodeSound(hugr, c, dom, mailboxes') /\ Grown(Code, c, dom, dom) /\ c.pos = pos
  BY <1>2, <1>8 DEF Appended
<1> DEFINE L == Len(c.blocks)
<1>13. pos \in DOMAIN c.blocks /\ dom[pos] \subseteq DOMAIN c.blocks /\ L \in Nat
  BY <1>12, SoundSeqs
<1>14. ASSUME NEW m \in CfgBlocks(hugr, n) PROVE \E i \in 1 .. 1 + K : bb[m] = L + i
  <2>1. CASE m = Exit(n)
    <3>1. bb[m] = L + 1 /\ 1 \in 1 .. 1 + K
      BY <1>4, <1>5, <2>1 DEF NewBlock
    <3> HIDE DEF bb, L, K
    <3> QED BY <3>1
  <2>2. CASE m # Exit(n)
    <3> DEFINE i == CHOOSE i \in DOMAIN dfbs : dfbs[i] = m
    <3>1. \E j \in DOMAIN dfbs : dfbs[j] = m
      BY <1>5, <2>2 DEF ToSet
    <3>2. i \in DOMAIN dfbs
      BY <3>1
    <3>3. m \in ToSet(dfbs) \cup {Exit(n)}
      BY <1>5
    <3>4. bb[m] = L + 1 + i
      BY <2>2, <3>3 DEF NewBlock
    <3> HIDE DEF bb, L, K, i
    <3>5. 1 + i \in 1 .. 1 + K /\ bb[m] = L + (1 + i)
      BY <1>4, <1>13, <3>2, <3>4
    <3> QED BY <3>5
  <2> QED BY <2>1, <2>2
<1> HIDE DEF bb, K, dfbs
<1>15. 1 + K \in Nat
  BY <1>4
<1>16. PICK more : /\ CodeSound(hugr, ready, more, mailboxes') /\ Grown(c, ready, dom, more)
                   /\ ComeBy(c, 1 + K, dom[pos], more)
  BY <1>12, <1>13, <1>15, AddSound
<1>17. Len(ready.blocks) = L + (1 + K) /\ ready.pos = pos
  BY <1>12, <1>13, <1>15, AddSound
<1> HIDE DEF ready
<1>18. \A m \in CfgBlocks(hugr, n) : Behind(ready, more, dom[pos], bb[m])
  <2>1. DOMAIN ready.blocks = 1 .. L + (1 + K)
    BY <1>16, <1>17, SoundSeqs
  <2>2. ASSUME NEW m \in CfgBlocks(hugr, n) PROVE Behind(ready, more, dom[pos], bb[m])
    <3>1. PICK i \in 1 .. 1 + K : bb[m] = L + i
      BY <1>14
    <3>2. L + i \in 1 .. L + (1 + K)
      <4>1. L \in Nat /\ K \in Nat /\ i \in 1 .. 1 + K
        BY <1>4, <1>13
      <4> HIDE DEF L
      <4> QED BY <4>1
    <3> QED BY <1>16, <2>1, <3>1, <3>2 DEF Behind, ComeBy, L
  <2> QED BY <2>2
<1> HIDE DEF L
<1>19. more[pos] = dom[pos]
  BY <1>13, <1>16 DEF Grown
<1>20. Appended(hugr, ready, written, more, mailboxes', Len(row))
  <2>1. AllAvailable(hugr, ready, more[ready.pos], Args(n))
    BY <1>8, <1>13, <1>16, <1>17, <1>19, AllAvailableStay
  <2>2. \A i \in 1 .. Len(row) : Available(hugr, ready, more[ready.pos], Args(n)[i])
    BY <1>8, <1>10, <2>1 DEF AllAvailable
  <2> QED BY <1>10, <1>16, <2>2, WriteSound
<1> HIDE DEF written
<1>21. CodeSound(hugr, written, more, mailboxes') /\ Grown(ready, written, more, more) /\ written.pos = pos
  BY <1>17, <1>20 DEF Appended
<1>22. \A m \in CfgBlocks(hugr, n) : Behind(written, more, dom[pos], bb[m])
  BY <1>18, <1>21 DEF Behind, Grown
<1>23. Appended(hugr, written, d, more, mailboxes', 1)
  <2>1. Behind(written, more, dom[pos], bb[Entry(n)])
    BY <1>5, <1>22
  <2>2. InstrSound(hugr, written, more, mailboxes', br, written.pos, Len(written.blocks[written.pos]) + 1)
    BY <1>19, <1>21, <2>1, BranchSound DEF Behind
  <2> HIDE DEF br
  <2> QED BY <1>21, <2>2, EndSound DEF d
<1>24. CodeSound(hugr, d, more, mailboxes') /\ Grown(written, d, more, more)
  BY <1>23 DEF Appended
<1>25. Grown(ready, d, more, more)
  BY <1>21, <1>24, GrownFurther
<1>26. Grown(c, d, dom, more)
  BY <1>16, <1>25, GrownFurther
<1>27. Grown(Code, d, dom, more)
  BY <1>12, <1>26, GrownFurther
<1>28. CfgSound(hugr, d, more, dom[pos], mailboxes', g)
  <2>1. \A m \in CfgBlocks(hugr, n) : Behind(d, more, dom[pos], bb[m])
    BY <1>22, <1>24 DEF Behind, Grown
  <2>2. \A m \in CfgBlocks(hugr, n) : ToSet(BlockRowOf(hugr, n, m)) \subseteq mailboxes'
    BY <1>6, RowsAre
  <2> QED BY <1>9, <1>11, <2>1, <2>2 DEF CfgSound
<1>29. FrameSound(hugr, d, more, dom[pos], mailboxes', g)
  <2>1. dom[pos] \subseteq DOMAIN d.blocks
    BY <1>13, <1>26 DEF Grown
  <2> QED BY <1>11, <1>28, <2>1 DEF FrameSound
<1>30. FrameSound(hugr, d, more, bases[Len(stack)], mailboxes', v)
  BY <1>3, <1>6, <1>27, FrameStays
<1>31. Certified(hugr, d, mailboxes', Append(Append(Front(stack), v), g))
  <2>1. ~(g.is = "dataflow")
    BY <1>11
  <2> QED BY <1>2, <1>3, <1>6, <1>24, <1>27, <1>29, <1>30, <2>1, PushCertified
<1> QED BY <1>1, <1>31, Recertified

LEMMA TopCertified ==
  ASSUME IInv, DInv, NEW is, Running(is)
  PROVE  /\ hugr \in Hugrs /\ IsSeq(stack) /\ stack # <<>> /\ Len(stack) \in Nat \ {0}
         /\ Code.pos = pos /\ Code.blocks = blocks /\ Len(blocks) \in Nat
         /\ DOMAIN blocks = 1 .. Len(blocks) /\ pos \in DOMAIN blocks
         /\ \E dom, bases :
              /\ CodeSound(hugr, Code, dom, mailboxes)
              /\ StackSound(hugr, Code, dom, bases, mailboxes, stack)
              /\ FrameSound(hugr, Code, dom, bases[Len(stack)], mailboxes, Top)
              /\ is = "dataflow" => bases[Len(stack)] \subseteq dom[pos]
<1>1. /\ hugr \in Hugrs /\ IsSeq(stack) /\ stack # <<>> /\ Len(stack) \in Nat \ {0}
      /\ Code.pos = pos /\ Code.blocks = blocks /\ Len(blocks) \in Nat
      /\ DOMAIN blocks = 1 .. Len(blocks) /\ pos \in DOMAIN blocks
      /\ Top = stack[Len(stack)] /\ Top.is = is
  BY TopFacts
<1>2. PICK dom, bases : /\ CodeSound(hugr, Code, dom, mailboxes)
                        /\ StackSound(hugr, Code, dom, bases, mailboxes, stack)
  BY DEF DInv, Certified
<1>3. Len(stack) \in 1 .. Len(stack) /\ Len(stack) > 0
  BY <1>1
<1>4. /\ FrameSound(hugr, Code, dom, bases[Len(stack)], mailboxes, Top)
      /\ is = "dataflow" => bases[Len(stack)] \subseteq dom[pos]
  BY <1>1, <1>2, <1>3 DEF StackSound
<1> QED BY <1>1, <1>2, <1>4

LEMMA CaseCertified ==
  ASSUME IInv, DInv, EnterCase
  PROVE  DInv'
<1> DEFINE n == Top.node
           kids == hugr.kids[n]
           k == Len(Top.cases)
           case == kids[k + 1]
           b == NewBlock(Code)
           a == AddBlocks(Code, 1)
           c == At(a, b)
           row == CaseRow(case)
           d == Read(c, row)
           f == [Top EXCEPT !.cases = Append(@, b), !.home = pos]
           g == DataflowFrame(case, Upcoming(c, Len(row)), ExitRow(n))
<1>1. /\ Running("conditional") /\ k < Len(kids) /\ SetCode(d) /\ Allocate({row})
      /\ stack' = Append(Append(Front(stack), f), g) /\ hugr' = hugr
  BY DEF EnterCase, ReplaceTop
<1>2. /\ hugr \in Hugrs /\ IsSeq(stack) /\ stack # <<>> /\ Code.pos = pos /\ Code.blocks = blocks
      /\ Len(blocks) \in Nat /\ DOMAIN blocks = 1 .. Len(blocks) /\ pos \in DOMAIN blocks
  BY <1>1, TopCertified
<1>3. PICK dom, bases :
              /\ CodeSound(hugr, Code, dom, mailboxes)
              /\ StackSound(hugr, Code, dom, bases, mailboxes, stack)
              /\ FrameSound(hugr, Code, dom, bases[Len(stack)], mailboxes, Top)
  BY <1>1, TopCertified
<1>4. /\ IsConditional(hugr, Top, Len(blocks), mailboxes) /\ Top.is = "conditional"
      /\ n \in NodesOf(hugr) /\ hugr.kind[n] = "Conditional" /\ pos = Top.home
      /\ \A m \in ChildrenOf(hugr, n) : IsRegion(hugr, m) /\ hugr.kind[m] = "Case"
  BY <1>1, ConditionalFacts
<1>5. IsSeq(Top.cases) /\ k \in Nat
  BY <1>4, SeqFacts DEF IsConditional
<1>6. /\ Len(kids) \in Nat /\ ChildrenOf(hugr, n) \subseteq NodesOf(hugr) /\ DOMAIN kids = 1 .. Len(kids)
      /\ \A i \in 1 .. Len(kids) : kids[i] \in ChildrenOf(hugr, n)
  BY <1>2, <1>4, KidsFacts
<1>7. k + 1 \in 1 .. Len(kids)
  BY <1>1, <1>5, <1>6
<1>8. case \in NodesOf(hugr) /\ IsRegion(hugr, case) /\ hugr.kind[case] = "Case"
  BY <1>4, <1>6, <1>7
<1>9. Leaving(hugr, case) = hugr.nout[n]
  <2>1. RowsFit(hugr, n)
    BY <1>2, <1>4, Fits
  <2>2. \A i \in DOMAIN kids : Leaving(hugr, kids[i]) = hugr.nout[n]
    BY <1>4, <2>1 DEF RowsFit
  <2> QED BY <1>6, <1>7, <2>2
<1>10. /\ IsSeq(row) /\ Len(row) = Entering(hugr, case) /\ Len(row) \in Nat
       /\ Len(ExitRow(n)) = hugr.nout[n]
  <2>1. IsSeq(row) /\ Len(row) \in Nat
    BY <1>2, <1>8, CaseRowFacts
  <2>2. Entering(hugr, case) \in Nat
    <3>1. TheChild(hugr, case, "Input") \in NodesOf(hugr)
      BY <1>2, <1>8, RegionFacts
    <3> QED BY <1>2, <3>1, RowFacts DEF Entering
  <2>3. Len(row) = Entering(hugr, case)
    BY <2>2, AnonymousFacts DEF CaseRow, Entering
  <2> QED BY <1>2, <1>4, <2>1, <2>3, ExitRowFacts
<1>11. mailboxes \subseteq mailboxes' /\ ToSet(row) \subseteq mailboxes'
  BY <1>1, AllocatesAll
<1>12. /\ f.is = "conditional" /\ f.node = n /\ f.inputs = Top.inputs /\ f.exit = Top.exit
       /\ f.cases = Append(Top.cases, b) /\ f.home = pos
  <2>1. Top = [is |-> Top.is, node |-> n, inputs |-> Top.inputs, exit |-> Top.exit,
               cases |-> Top.cases, home |-> Top.home]
    BY <1>4 DEF IsConditional
  <2> DEFINE x == Append(Top.cases, b)
  <2>2. f = [Top EXCEPT !.cases = x, !.home = pos]
    OBVIOUS
  <2> HIDE DEF f, x, n, b
  <2>3. [Top EXCEPT !.cases = x, !.home = pos]
          = [is |-> Top.is, node |-> Top.node, inputs |-> Top.inputs, exit |-> Top.exit,
             cases |-> x, home |-> pos]
    BY <2>1, CaseFrame DEF n
  <2> QED BY <1>4, <2>2, <2>3 DEF x, n
<1>13. /\ g.is = "dataflow" /\ g.node = case /\ g.outputs = ExitRow(n)
       /\ g.inputs = Upcoming(c, Len(row))
  <2> HIDE DEF c, row, case
  <2> QED BY DEF DataflowFrame
<1>14. b = Len(blocks) + 1
  BY <1>2 DEF NewBlock
<1> HIDE DEF f, g, b, case
<1> DEFINE base == bases[Len(stack)]
           boxes == mailboxes'
<1>15. base \subseteq DOMAIN blocks /\ CodeSound(hugr, Code, dom, boxes)
  BY <1>2, <1>3, <1>11, BoxesSound DEF FrameSound
<1> HIDE DEF base, boxes
<1>16. PICK more : /\ CodeSound(hugr, a, more, boxes) /\ Grown(Code, a, dom, more)
                   /\ ComeBy(Code, 1, base, more)
  <2>1. 1 \in Nat
    OBVIOUS
  <2> QED BY <1>2, <1>15, <2>1, AddSound
<1>17. more[b] = base \cup {b} /\ b \in DOMAIN a.blocks
  <2>1. more[Len(blocks) + 1] = base \cup {Len(blocks) + 1}
    BY <1>2, <1>16 DEF ComeBy
  <2>2. Len(a.blocks) = Len(blocks) + 1
    <3>1. 1 \in Nat /\ base \subseteq DOMAIN Code.blocks
      BY <1>2, <1>15
    <3>2. Len(AddBlocks(Code, 1).blocks) = Len(Code.blocks) + 1
      BY <1>15, <3>1, AddSound
    <3> QED BY <1>2, <3>2
  <2>3. DOMAIN a.blocks = 1 .. Len(blocks) + 1
    BY <1>16, <2>2, SoundSeqs
  <2> QED BY <1>2, <1>14, <2>1, <2>3
<1> HIDE DEF a
<1>18. CodeSound(hugr, c, more, boxes) /\ c.pos = b /\ Grown(a, c, more, more)
  BY <1>16, <1>17, AtSound
<1> HIDE DEF c
<1>19. Appended(hugr, c, d, more, boxes, Len(row))
  BY <1>10, <1>11, <1>18, ReadSound DEF boxes
<1> HIDE DEF row
<1>20. /\ CodeSound(hugr, d, more, boxes) /\ d.pos = b /\ Grown(c, d, more, more)
       /\ DOMAIN d.blocks[c.pos] = 1 .. Len(c.blocks[c.pos]) + Len(row)
  BY <1>18, <1>19 DEF Appended
<1> HIDE DEF d
<1>21. Grown(a, d, more, more)
  BY <1>18, <1>20, GrownFurther
<1>22. Grown(Code, d, dom, more)
  BY <1>16, <1>21, GrownFurther
<1> DEFINE inner == base \cup {b}
<1>23. FrameSound(hugr, d, more, inner, boxes, g)
  <2>1. /\ Len(Upcoming(c, Len(row))) = Len(row)
        /\ \A i \in 1 .. Len(row) : Available(hugr, d, inner, Upcoming(c, Len(row))[i])
    <3>1. c.pos \in inner
      BY <1>18
    <3> HIDE DEF inner
    <3> QED BY <1>10, <1>18, <1>20, <3>1, UpcomingAvailable
  <2>2. inner \subseteq DOMAIN d.blocks
    BY <1>15, <1>2, <1>17, <1>21, <1>22 DEF Grown
  <2> HIDE DEF inner
  <2>3. DataflowSound(hugr, d, inner, g)
    BY <1>8, <1>9, <1>10, <1>13, <2>1 DEF DataflowSound, AllAvailable
  <2> QED BY <1>13, <2>2, <2>3 DEF FrameSound
<1>24. FrameSound(hugr, d, more, base, boxes, f)
  <2>1. FrameSound(hugr, d, more, base, boxes, Top)
    BY <1>3, <1>11, <1>22, FrameStays DEF base, boxes
  <2>2. ConditionalSound(hugr, d, more, base, boxes, Top) /\ base \subseteq DOMAIN d.blocks
    BY <1>4, <2>1 DEF FrameSound
  <2>3. Behind(d, more, base, b)
    BY <1>17, <1>21 DEF Behind, Grown
  <2>4. ASSUME NEW i \in 1 .. Len(f.cases)
        PROVE  Behind(d, more, base, f.cases[i]) /\ ToSet(CaseRowOf(hugr, kids[i])) \subseteq boxes
    <3>1. /\ Len(f.cases) = k + 1 /\ f.cases[k + 1] = b
          /\ \A j \in 1 .. k : f.cases[j] = Top.cases[j]
      BY <1>5, <1>12, AppendSeq
    <3>2. CASE i \in 1 .. k
      BY <2>2, <3>1, <3>2 DEF ConditionalSound
    <3>3. CASE i = k + 1
      <4>1. ToSet(CaseRow(case)) \subseteq boxes
        BY <1>11 DEF boxes, row
      <4> QED BY <2>3, <3>1, <3>3, <4>1, RowsAre DEF case
    <3>4. i \in 1 .. k \/ i = k + 1
      BY <1>5, <3>1
    <3> QED BY <3>2, <3>3, <3>4
  <2>5. ConditionalSound(hugr, d, more, base, boxes, f)
    BY <1>4, <1>12, <2>2, <2>4 DEF ConditionalSound
  <2> QED BY <1>12, <2>2, <2>5 DEF FrameSound
<1>25. Certified(hugr, d, boxes, Append(Append(Front(stack), f), g))
  <2>1. base \subseteq inner /\ inner \subseteq more[d.pos]
    BY <1>17, <1>20
  <2>2. mailboxes \subseteq boxes
    BY <1>11 DEF boxes
  <2> HIDE DEF inner
  <2> QED BY <1>2, <1>3, <1>20, <1>22, <1>23, <1>24, <2>1, <2>2, PushCertified DEF base
<1> QED BY <1>1, <1>25, Recertified DEF boxes

LEMMA BlockCertified ==
  ASSUME IInv, DInv, EnterBlock
  PROVE  DInv'
<1> DEFINE n == Top.node
           kids == hugr.kids[n]
           block == kids[Top.next]
           row == InputRow(n, block)
           out == TheChild(hugr, block, "Output")
           b == Top.bb[block]
           c == At(Code, b)
           d == Read(c, row)
           x == Top.next + 1
           f == [Top EXCEPT !.next = x, !.home = pos]
           g == DataflowFrame(block, Upcoming(c, Len(row)), InsRow(out))
<1>1. /\ Running("cfg") /\ Top.next <= Len(kids) /\ hugr.kind[block] = "DataflowBlock"
      /\ SetCode(d) /\ Allocate({InsRow(out)})
      /\ stack' = Append(Append(Front(stack), f), g) /\ hugr' = hugr
  BY DEF EnterBlock, CfgChild, ReplaceTop
<1>2. /\ hugr \in Hugrs /\ IsSeq(stack) /\ stack # <<>> /\ Code.pos = pos /\ Code.blocks = blocks
  BY <1>1, TopCertified
<1>3. PICK dom, bases :
              /\ CodeSound(hugr, Code, dom, mailboxes)
              /\ StackSound(hugr, Code, dom, bases, mailboxes, stack)
              /\ FrameSound(hugr, Code, dom, bases[Len(stack)], mailboxes, Top)
  BY <1>1, TopCertified
<1>4. /\ Top.is = "cfg" /\ n \in NodesOf(hugr) /\ hugr.kind[n] = "CFG"
      /\ Top = [is |-> Top.is, node |-> n, bb |-> Top.bb, outputs |-> Top.outputs,
                next |-> Top.next, home |-> Top.home]
      /\ Top.next \in 1 .. Len(kids) + 1
  BY <1>1, CfgTopFacts
<1>5. /\ f.is = "cfg" /\ f.node = n /\ f.bb = Top.bb /\ f.outputs = Top.outputs
  <2> HIDE DEF x
  <2>1. [Top EXCEPT !.next = x, !.home = pos]
          = [is |-> Top.is, node |-> Top.node, bb |-> Top.bb, outputs |-> Top.outputs,
             next |-> x, home |-> pos]
    BY <1>4, NextFrame
  <2>2. f = [Top EXCEPT !.next = x, !.home = pos]
    OBVIOUS
  <2> HIDE DEF f
  <2> QED BY <1>4, <2>1, <2>2
<1>6. /\ g.is = "dataflow" /\ g.node = block /\ g.outputs = InsRow(out)
      /\ g.inputs = Upcoming(c, Len(row))
  <2> HIDE DEF c, row, block, out
  <2> QED BY DEF DataflowFrame
<1> HIDE DEF f, g
<1>7. block \in ChildrenOf(hugr, n) /\ block \in NodesOf(hugr) /\ block \in CfgBlocks(hugr, n)
  <2>1. Top.next \in 1 .. Len(kids)
    BY <1>1, <1>2, <1>4, KidsFacts
  <2> QED BY <1>1, <1>2, <1>4, <2>1, KidsFacts DEF CfgBlocks
<1> HIDE DEF block
<1>8. IsRegion(hugr, block) /\ block # Exit(n)
  BY <1>1, <1>2, <1>4, <1>7, CfgFacts DEF IsRegion
<1>9. IsSeq(row) /\ Len(row) = Entering(hugr, block) /\ Len(row) \in Nat
  <2>1. row = OutsRow(TheChild(hugr, block, "Input"))
    BY <1>8 DEF InputRow
  <2>2. TheChild(hugr, block, "Input") \in NodesOf(hugr)
    BY <1>2, <1>7, <1>8, RegionFacts
  <2> QED BY <1>2, <2>1, <2>2, RowFacts DEF Entering
<1>10. Len(InsRow(out)) = Leaving(hugr, block) /\ InsRow(out) = InsOf(hugr, out)
  <2>1. out \in NodesOf(hugr)
    BY <1>2, <1>7, <1>8, RegionFacts
  <2> QED BY <1>2, <2>1, RowFacts, RowsAre DEF Leaving
<1> DEFINE base == bases[Len(stack)]
           boxes == mailboxes'
<1>11. mailboxes \subseteq boxes
  BY <1>1, AllocatesAll
<1>12. base \subseteq DOMAIN blocks /\ CfgSound(hugr, Code, dom, base, mailboxes, Top)
  BY <1>2, <1>3, <1>4 DEF FrameSound
<1>13. Behind(Code, dom, base, b) /\ ToSet(row) \subseteq mailboxes
  BY <1>7, <1>12, RowsAre DEF CfgSound
<1> HIDE DEF base, boxes, row, b
<1>14. CodeSound(hugr, Code, dom, boxes)
  BY <1>3, <1>11, BoxesSound
<1>15. b \in DOMAIN blocks /\ dom[b] = base \cup {b}
  BY <1>2, <1>13 DEF Behind
<1>16. CodeSound(hugr, c, dom, boxes) /\ c.pos = b /\ Grown(Code, c, dom, dom)
  BY <1>2, <1>14, <1>15, AtSound
<1> HIDE DEF c
<1>17. Appended(hugr, c, d, dom, boxes, Len(row))
  <2>1. ToSet(row) \subseteq boxes
    BY <1>11, <1>13
  <2> QED BY <1>9, <1>16, <2>1, ReadSound
<1>18. /\ CodeSound(hugr, d, dom, boxes) /\ d.pos = b /\ Grown(c, d, dom, dom)
       /\ DOMAIN d.blocks[c.pos] = 1 .. Len(c.blocks[c.pos]) + Len(row)
  BY <1>16, <1>17 DEF Appended
<1> HIDE DEF d
<1>19. Grown(Code, d, dom, dom)
  BY <1>16, <1>18, GrownFurther
<1> DEFINE inner == base \cup {b}
<1>20. FrameSound(hugr, d, dom, inner, boxes, g)
  <2>1. /\ Len(Upcoming(c, Len(row))) = Len(row)
        /\ \A i \in 1 .. Len(row) : Available(hugr, d, inner, Upcoming(c, Len(row))[i])
    <3>1. c.pos \in inner
      BY <1>16
    <3> HIDE DEF inner
    <3> QED BY <1>9, <1>16, <1>18, <3>1, UpcomingAvailable
  <2>2. inner \subseteq DOMAIN d.blocks
    BY <1>2, <1>12, <1>15, <1>19 DEF Grown
  <2> HIDE DEF inner
  <2>3. DataflowSound(hugr, d, inner, g)
    BY <1>6, <1>9, <1>10, <2>1 DEF DataflowSound, AllAvailable, out
  <2> QED BY <1>6, <2>2, <2>3 DEF FrameSound
<1>21. FrameSound(hugr, d, dom, base, boxes, f)
  <2>1. FrameSound(hugr, d, dom, base, boxes, Top)
    BY <1>3, <1>11, <1>19, FrameStays DEF base
  <2> QED BY <1>4, <1>5, <2>1 DEF FrameSound, CfgSound
<1>22. Certified(hugr, d, boxes, Append(Append(Front(stack), f), g))
  <2>1. base \subseteq inner /\ inner \subseteq dom[d.pos]
    BY <1>15, <1>18
  <2> HIDE DEF inner
  <2> QED BY <1>2, <1>3, <1>11, <1>18, <1>19, <1>20, <1>21, <2>1, PushCertified DEF base
<1> QED BY <1>1, <1>22, Recertified DEF boxes

\* The exit block passes on what arrives there.
LEMMA ExitBlockCertified ==
  ASSUME IInv, DInv, EmitExitBlock
  PROVE  DInv'
<1> DEFINE n == Top.node
           b == Top.bb[Exit(n)]
           row == ExitRow(n)
           c == At(Code, b)
           m == Write(Read(c, row), Top.outputs, Upcoming(c, Len(row)))
           d == At(m, pos)
           x == Top.next + 1
           f == [Top EXCEPT !.next = x]
<1>1. /\ Running("cfg") /\ SetCode(d) /\ stack' = Append(Front(stack), f)
      /\ hugr' = hugr /\ mailboxes' = mailboxes
  BY DEF EmitExitBlock, CfgChild, ReplaceTop
<1>2. /\ hugr \in Hugrs /\ IsSeq(stack) /\ stack # <<>> /\ Code.pos = pos /\ Code.blocks = blocks
      /\ pos \in DOMAIN blocks
  BY <1>1, TopCertified
<1>3. PICK dom, bases :
              /\ CodeSound(hugr, Code, dom, mailboxes)
              /\ StackSound(hugr, Code, dom, bases, mailboxes, stack)
              /\ FrameSound(hugr, Code, dom, bases[Len(stack)], mailboxes, Top)
  BY <1>1, TopCertified
<1>4. /\ Top.is = "cfg" /\ n \in NodesOf(hugr) /\ hugr.kind[n] = "CFG"
      /\ Top = [is |-> Top.is, node |-> n, bb |-> Top.bb, outputs |-> Top.outputs,
                next |-> Top.next, home |-> Top.home]
      /\ IsSeq(Top.outputs) /\ ToSet(Top.outputs) \subseteq mailboxes
  BY <1>1, CfgTopFacts DEF IsCfg
<1>5. /\ f.is = "cfg" /\ f.node = n /\ f.bb = Top.bb /\ f.outputs = Top.outputs
  <2> HIDE DEF x
  <2>1. [Top EXCEPT !.next = x]
          = [is |-> Top.is, node |-> Top.node, bb |-> Top.bb, outputs |-> Top.outputs,
             next |-> x, home |-> Top.home]
    BY <1>4, NextFrame
  <2>2. f = [Top EXCEPT !.next = x]
    OBVIOUS
  <2> HIDE DEF f
  <2> QED BY <1>4, <2>1, <2>2
<1> HIDE DEF f
<1> DEFINE base == bases[Len(stack)]
<1>6. base \subseteq DOMAIN blocks /\ CfgSound(hugr, Code, dom, base, mailboxes, Top)
  BY <1>2, <1>3, <1>4 DEF FrameSound
<1> HIDE DEF base
<1>7. /\ IsSeq(row) /\ ToSet(row) \subseteq mailboxes /\ Len(Top.outputs) = Len(row)
      /\ b \in DOMAIN blocks
  <2>1. Exit(n) \in CfgBlocks(hugr, n) /\ InputRow(n, Exit(n)) = row
    BY <1>2, <1>4, CfgFacts DEF InputRow
  <2>2. Behind(Code, dom, base, b) /\ ToSet(row) \subseteq mailboxes
    BY <1>6, <2>1, RowsAre DEF CfgSound
  <2>3. IsSeq(row) /\ Len(row) = hugr.nout[n]
    BY <1>2, <1>4, ExitRowFacts
  <2> QED BY <1>2, <1>6, <2>2, <2>3 DEF CfgSound, Behind
<1> HIDE DEF b, row
<1>8. CodeSound(hugr, c, dom, mailboxes) /\ Grown(Code, c, dom, dom)
  BY <1>2, <1>3, <1>7, AtSound
<1> HIDE DEF c
<1>9. CodeSound(hugr, m, dom, mailboxes) /\ Grown(c, m, dom, dom)
  BY <1>4, <1>7, <1>8, MoveSound
<1> HIDE DEF m
<1>10. Grown(Code, m, dom, dom) /\ pos \in DOMAIN m.blocks
  <2>1. Grown(Code, m, dom, dom)
    BY <1>8, <1>9, GrownFurther
  <2> QED BY <1>2, <2>1 DEF Grown
<1>11. CodeSound(hugr, d, dom, mailboxes) /\ Grown(m, d, dom, dom)
  BY <1>9, <1>10, AtSound
<1> HIDE DEF d
<1>12. Grown(Code, d, dom, dom)
  BY <1>10, <1>11, GrownFurther
<1>13. FrameSound(hugr, d, dom, base, mailboxes, f)
  <2>1. FrameSound(hugr, d, dom, base, mailboxes, Top)
    BY <1>3, <1>12, FrameStays DEF base
  <2> QED BY <1>4, <1>5, <2>1 DEF FrameSound, CfgSound
<1>14. Certified(hugr, d, mailboxes, Append(Front(stack), f))
  <2>1. ~(f.is = "dataflow")
    BY <1>5
  <2> QED BY <1>2, <1>3, <1>11, <1>12, <1>13, <2>1, ReplaceCertified DEF base
<1> QED BY <1>1, <1>14, Recertified

LEMMA CfgDefinitionCertified ==
  ASSUME IInv, DInv, EmitCfgDefinition
  PROVE  DInv'
<1> DEFINE n == Top.node
           x == Top.next + 1
           f == [Top EXCEPT !.next = x]
<1>1. /\ Running("cfg") /\ SetCode(Code) /\ stack' = Append(Front(stack), f)
      /\ hugr' = hugr /\ mailboxes' = mailboxes
  BY DEF EmitCfgDefinition, CfgChild, ReplaceTop, SetCode, Code
<1>2. /\ hugr \in Hugrs /\ IsSeq(stack) /\ stack # <<>>
  BY <1>1, TopCertified
<1>3. PICK dom, bases :
              /\ CodeSound(hugr, Code, dom, mailboxes)
              /\ StackSound(hugr, Code, dom, bases, mailboxes, stack)
              /\ FrameSound(hugr, Code, dom, bases[Len(stack)], mailboxes, Top)
  BY <1>1, TopCertified
<1>4. /\ Top.is = "cfg"
      /\ Top = [is |-> Top.is, node |-> n, bb |-> Top.bb, outputs |-> Top.outputs,
                next |-> Top.next, home |-> Top.home]
  BY <1>1, CfgTopFacts
<1>5. /\ f.is = "cfg" /\ f.node = n /\ f.bb = Top.bb /\ f.outputs = Top.outputs
  <2> HIDE DEF x
  <2>1. [Top EXCEPT !.next = x]
          = [is |-> Top.is, node |-> Top.node, bb |-> Top.bb, outputs |-> Top.outputs,
             next |-> x, home |-> Top.home]
    BY <1>4, NextFrame
  <2>2. f = [Top EXCEPT !.next = x]
    OBVIOUS
  <2> HIDE DEF f
  <2> QED BY <1>4, <2>1, <2>2
<1> HIDE DEF f
<1>6. FrameSound(hugr, Code, dom, bases[Len(stack)], mailboxes, f) /\ ~(f.is = "dataflow")
  BY <1>3, <1>4, <1>5 DEF FrameSound, CfgSound
<1>7. Grown(Code, Code, dom, dom)
  BY DEF Grown
<1>8. Certified(hugr, Code, mailboxes, Append(Front(stack), f))
  BY <1>2, <1>3, <1>6, <1>7, ReplaceCertified
<1> QED BY <1>1, <1>8, Recertified

-----------------------------------------------------------------------------
(* Returning.                                                              *)

\* An activation whose children have been visited, and the one below it.
LEMMA BelowCertified ==
  ASSUME IInv, DInv, NEW is, Completed(is)
  PROVE  /\ Running("dataflow") /\ Top.is = "dataflow" /\ Len(stack) > 1 /\ Below.is = is
         /\ IsDataflow(hugr, Top, Len(blocks), mailboxes)
         /\ FrameOK(hugr, Below, Len(blocks), mailboxes) /\ Calls(hugr, Below, Top)
         /\ \E dom, bases :
              /\ CodeSound(hugr, Code, dom, mailboxes)
              /\ StackSound(hugr, Code, dom, bases, mailboxes, stack)
              /\ DataflowSound(hugr, Code, bases[Len(stack)], Top)
              /\ FrameSound(hugr, Code, dom, bases[Len(stack) - 1], mailboxes, Below)
              /\ bases[Len(stack) - 1] \subseteq bases[Len(stack)]
              /\ bases[Len(stack)] \subseteq dom[pos]
<1>1. /\ Running("dataflow") /\ Len(stack) > 1 /\ Below.is = is
      /\ FrameOK(hugr, Below, Len(blocks), mailboxes) /\ Calls(hugr, Below, Top)
  BY DataflowDone
<1>2. /\ Len(stack) \in Nat /\ Top.is = "dataflow" /\ FrameOK(hugr, Top, Len(blocks), mailboxes)
  BY <1>1, TopFacts
<1>3. IsDataflow(hugr, Top, Len(blocks), mailboxes)
  BY <1>2 DEF FrameOK, IsConditional, IsCfg
<1>4. PICK dom, bases :
              /\ CodeSound(hugr, Code, dom, mailboxes)
              /\ StackSound(hugr, Code, dom, bases, mailboxes, stack)
              /\ FrameSound(hugr, Code, dom, bases[Len(stack)], mailboxes, Top)
              /\ bases[Len(stack)] \subseteq dom[pos]
  BY <1>1, TopCertified
<1> DEFINE k == Len(stack) - 1
<1>5. k \in 1 .. Len(stack) /\ k \in 1 .. Len(stack) - 1 /\ k + 1 = Len(stack) /\ Below = stack[k]
  BY <1>1, <1>2 DEF Below
<1> HIDE DEF k
<1>6. FrameSound(hugr, Code, dom, bases[k], mailboxes, Below)
  BY <1>4, <1>5 DEF StackSound
<1>7. bases[k] \subseteq bases[Len(stack)]
  <2>1. bases[k] \subseteq bases[k + 1]
    BY <1>4, <1>5 DEF StackSound
  <2> QED BY <1>5, <2>1
<1>8. DataflowSound(hugr, Code, bases[Len(stack)], Top)
  BY <1>2, <1>4 DEF FrameSound
<1> QED BY <1>1, <1>2, <1>3, <1>4, <1>6, <1>7, <1>8 DEF k

LEMMA Returns ==
  ASSUME IInv, NEW is, Running(is), hugr' = hugr, mailboxes' = mailboxes, stack' = Pop,
         NEW dom, NEW bases, StackSound(hugr, Code, dom, bases, mailboxes, stack),
         NEW d, SetCode(d), NEW more, CodeSound(hugr, d, more, mailboxes), Grown(Code, d, dom, more),
         Len(stack) > 1 /\ Below.is = "dataflow" => bases[Len(stack)] \subseteq more[d.pos]
  PROVE  DInv'
<1>1. IsSeq(stack) /\ stack # <<>>
  BY TopFacts
<1>2. Certified(hugr, d, mailboxes, Front(stack))
  BY <1>1, PopCertified DEF Below
<1> QED BY <1>2, Recertified DEF Pop

LEMMA LeaveDfgCertified ==
  ASSUME IInv, DInv, LeaveDfg
  PROVE  DInv'
<1>1. /\ Completed("dataflow") /\ stack' = Pop /\ SetCode(Code) /\ hugr' = hugr
      /\ mailboxes' = mailboxes /\ Code.pos = pos
  BY DEF LeaveDfg, SetCode, Code
<1>2. Running("dataflow")
  BY <1>1, BelowCertified
<1>3. PICK dom, bases :
              /\ CodeSound(hugr, Code, dom, mailboxes)
              /\ StackSound(hugr, Code, dom, bases, mailboxes, stack)
              /\ bases[Len(stack)] \subseteq dom[pos]
  BY <1>1, BelowCertified
<1>4. Grown(Code, Code, dom, dom)
  BY DEF Grown
<1> QED BY <1>1, <1>2, <1>3, <1>4, Returns

LEMMA LeaveCaseCertified ==
  ASSUME IInv, DInv, LeaveCase
  PROVE  DInv'
<1> DEFINE c == Build(Code, <<Branch(Below.exit)>>)
           d == At(c, Below.home)
<1>1. /\ Completed("conditional") /\ stack' = Pop /\ SetCode(d) /\ hugr' = hugr
      /\ mailboxes' = mailboxes /\ Code.pos = pos
  BY DEF LeaveCase, Code
<1>2. Running("dataflow") /\ Below.is = "conditional"
  BY <1>1, BelowCertified
<1>3. PICK dom, bases :
              /\ CodeSound(hugr, Code, dom, mailboxes)
              /\ StackSound(hugr, Code, dom, bases, mailboxes, stack)
              /\ FrameSound(hugr, Code, dom, bases[Len(stack) - 1], mailboxes, Below)
              /\ bases[Len(stack) - 1] \subseteq bases[Len(stack)]
              /\ bases[Len(stack)] \subseteq dom[pos]
  BY <1>1, BelowCertified
<1> DEFINE base == bases[Len(stack) - 1]
<1>4. ConditionalSound(hugr, Code, dom, base, mailboxes, Below) /\ base \subseteq dom[pos]
  BY <1>2, <1>3 DEF FrameSound
<1> HIDE DEF base
<1>5. Below.exit \in DOMAIN Code.blocks /\ dom[Below.exit] \subseteq dom[Code.pos] \cup {Below.exit}
  BY <1>1, <1>4 DEF ConditionalSound, Behind
<1>6. InstrSound(hugr, Code, dom, mailboxes, Branch(Below.exit), Code.pos, Len(Code.blocks[Code.pos]) + 1)
  BY <1>5, BranchSound
<1>7. CodeSound(hugr, c, dom, mailboxes) /\ Grown(Code, c, dom, dom)
  BY <1>3, <1>6, EndSound DEF Appended
<1> HIDE DEF c
<1>8. Below.home \in DOMAIN c.blocks
  BY <1>4, <1>7 DEF ConditionalSound, Grown
<1>9. CodeSound(hugr, d, dom, mailboxes) /\ Grown(c, d, dom, dom)
  BY <1>7, <1>8, AtSound
<1> HIDE DEF d
<1>10. Grown(Code, d, dom, dom)
  BY <1>7, <1>9, GrownFurther
<1> QED BY <1>1, <1>2, <1>3, <1>9, <1>10, Returns

LEMMA LeaveCfgCertified ==
  ASSUME IInv, DInv, LeaveCfg
  PROVE  DInv'
<1> DEFINE n == Top.node
           b == Top.bb[Exit(n)]
           d == At(Code, b)
<1>1. /\ Running("cfg") /\ stack' = Pop /\ pos' = b /\ blocks' = blocks /\ hugr' = hugr
      /\ mailboxes' = mailboxes
  BY DEF LeaveCfg
<1>2. hugr \in Hugrs /\ Code.blocks = blocks
  BY <1>1, TopCertified
<1>3. PICK dom, bases :
              /\ CodeSound(hugr, Code, dom, mailboxes)
              /\ StackSound(hugr, Code, dom, bases, mailboxes, stack)
              /\ FrameSound(hugr, Code, dom, bases[Len(stack)], mailboxes, Top)
  BY <1>1, TopCertified
<1>4. Top.is = "cfg" /\ n \in NodesOf(hugr) /\ hugr.kind[n] = "CFG"
  BY <1>1, CfgTopFacts
<1>5. Exit(n) \in CfgBlocks(hugr, n)
  BY <1>2, <1>4, CfgFacts
<1>6. Behind(Code, dom, bases[Len(stack)], b)
  BY <1>3, <1>4, <1>5 DEF FrameSound, CfgSound
<1> HIDE DEF b
<1>7. b \in DOMAIN Code.blocks /\ bases[Len(stack)] \subseteq dom[b]
  BY <1>6 DEF Behind
<1>8. /\ CodeSound(hugr, d, dom, mailboxes) /\ Grown(Code, d, dom, dom) /\ d.pos = b
      /\ d.blocks = blocks
  BY <1>2, <1>3, <1>7, AtSound
<1> HIDE DEF d
<1>9. SetCode(d)
  BY <1>1, <1>8 DEF SetCode
<1> QED BY <1>1, <1>3, <1>7, <1>8, <1>9, Returns

LEMMA Panics ==
  ASSUME DInv, phase' = "panicked", UNCHANGED <<hugr, blocks, pos, stack, mailboxes>>
  PROVE  DInv'
<1>1. Code' = Code
  BY DEF Code
<1> QED BY <1>1 DEF DInv

LEMMA LeaveConditionalCertified ==
  ASSUME IInv, DInv, LeaveConditional
  PROVE  DInv'
<1> DEFINE n == Top.node
           kids == hugr.kids[n]
           widths == hugr.rows[n]
           rows == [i \in DOMAIN widths |-> CaseRow(kids[i])]
           sum == Top.inputs[1]
           rest == Tail(Top.inputs)
           targets == Top.cases
           a == Destructure(Code, sum, widths, rows, rest, targets)
           d == At(a, Top.exit)
<1>1. /\ Running("conditional") /\ Len(Top.cases) = Len(kids) /\ hugr' = hugr /\ mailboxes' = mailboxes
      /\ \/ phase' = "panicked" /\ UNCHANGED <<blocks, pos, stack>>
         \/ SetCode(d) /\ stack' = Pop
  BY DEF LeaveConditional
<1>2. CASE phase' = "panicked" /\ UNCHANGED <<blocks, pos, stack>>
  BY <1>1, <1>2, Panics
<1>3. CASE SetCode(d) /\ stack' = Pop
  <2>1. hugr \in Hugrs /\ Code.pos = pos /\ Code.blocks = blocks
    BY <1>1, TopCertified
  <2>2. PICK dom, bases :
              /\ CodeSound(hugr, Code, dom, mailboxes)
              /\ StackSound(hugr, Code, dom, bases, mailboxes, stack)
              /\ FrameSound(hugr, Code, dom, bases[Len(stack)], mailboxes, Top)
    BY <1>1, TopCertified
  <2> DEFINE base == bases[Len(stack)]
  <2>3. /\ IsSeq(Top.inputs) /\ Top.is = "conditional" /\ n \in NodesOf(hugr)
        /\ hugr.kind[n] = "Conditional" /\ pos = Top.home
        /\ \A m \in ChildrenOf(hugr, n) : IsRegion(hugr, m)
        /\ Len(widths) = Len(kids)
    BY <1>1, ConditionalFacts DEF IsConditional
  <2>4. ConditionalSound(hugr, Code, dom, base, mailboxes, Top)
    BY <2>2, <2>3 DEF FrameSound
  <2> HIDE DEF base
  <2>5. /\ Len(Top.inputs) = Len(hugr.ins[n]) /\ AllAvailable(hugr, Code, base, Top.inputs)
        /\ base \subseteq dom[pos] /\ Behind(Code, dom, base, Top.exit)
    BY <2>3, <2>4 DEF ConditionalSound
  <2>6. RowsFit(hugr, n) /\ DOMAIN kids = 1 .. Len(kids) /\ hugr.ins[n] # <<>>
        /\ \A i \in 1 .. Len(kids) : kids[i] \in NodesOf(hugr) /\ IsRegion(hugr, kids[i])
    <3>1. RowsFit(hugr, n)
      BY <2>1, <2>3, Fits
    <3>2. /\ DOMAIN kids = 1 .. Len(kids) /\ ChildrenOf(hugr, n) \subseteq NodesOf(hugr)
          /\ \A i \in 1 .. Len(kids) : kids[i] \in ChildrenOf(hugr, n)
      BY <2>1, <2>3, KidsFacts
    <3> QED BY <2>3, <3>1, <3>2 DEF RowsFit
  <2>7. widths \in Seq(Nat) /\ DOMAIN widths = 1 .. Len(widths)
    <3>1. hugr.rows \in [NodesOf(hugr) -> Seq(Nat)]
      BY <2>1, HugrAssumption
    <3>2. widths \in Seq(Nat)
      BY <2>3, <3>1
    <3> QED BY <3>2
  <2>8. Top.inputs # <<>>
    <3>1. hugr.ins[n] \in Seq(NodesOf(hugr) \X Nat)
      <4>1. hugr.ins \in [NodesOf(hugr) -> Seq(NodesOf(hugr) \X Nat)]
        BY <2>1, HugrAssumption
      <4> QED BY <2>3, <4>1
    <3>2. Len(hugr.ins[n]) # 0
      BY <2>6, <3>1
    <3>3. Len(<<>>) = 0
      OBVIOUS
    <3> QED BY <2>5, <3>2, <3>3
  <2>9. /\ IsSeq(rest) /\ Len(rest) = Len(Top.inputs) - 1 /\ 1 \in 1 .. Len(Top.inputs)
        /\ \A i \in 1 .. Len(rest) : rest[i] = Top.inputs[i + 1] /\ i + 1 \in 1 .. Len(Top.inputs)
        /\ Len(Top.inputs) \in Nat
    BY <2>3, <2>8, TailFacts, SeqFacts
  <2>10. AllAvailable(hugr, Code, dom[pos], Top.inputs)
    BY <2>5, AvailableWider
  <2>11. /\ Available(hugr, Code, dom[Code.pos], sum)
         /\ \A j \in 1 .. Len(rest) : Available(hugr, Code, dom[Code.pos], rest[j])
    BY <2>1, <2>9, <2>10 DEF AllAvailable
  <2>12. ASSUME NEW i \in 1 .. Len(widths)
         PROVE  /\ IsSeq(rows[i]) /\ ToSet(rows[i]) \subseteq mailboxes
                /\ Len(rows[i]) = widths[i] + Len(rest)
                /\ targets[i] \in DOMAIN Code.blocks
                /\ dom[targets[i]] \subseteq dom[Code.pos] \cup {targets[i]}
    <3>1. rows[i] = CaseRow(kids[i]) /\ i \in 1 .. Len(kids) /\ i \in 1 .. Len(Top.cases)
      BY <1>1, <2>3, <2>7
    <3>2. /\ Behind(Code, dom, base, Top.cases[i])
          /\ ToSet(CaseRow(kids[i])) \subseteq mailboxes
      BY <2>4, <3>1, RowsAre DEF ConditionalSound
    <3>3. kids[i] \in NodesOf(hugr) /\ IsRegion(hugr, kids[i])
      BY <2>6, <3>1
    <3>4. IsSeq(CaseRow(kids[i])) /\ Len(CaseRow(kids[i])) = Entering(hugr, kids[i])
      <4>1. TheChild(hugr, kids[i], "Input") \in NodesOf(hugr)
        BY <2>1, <3>3, RegionFacts
      <4>2. Entering(hugr, kids[i]) \in Nat
        BY <2>1, <4>1, RowFacts DEF Entering
      <4> DEFINE m == kids[i]
      <4> HIDE DEF m, kids
      <4> QED BY <4>2, AnonymousFacts DEF CaseRow, Entering
    <3>5. Entering(hugr, kids[i]) = widths[i] + Len(hugr.ins[n]) - 1
      BY <2>3, <2>6, <3>1 DEF RowsFit
    <3>6. widths[i] \in Nat
      BY <2>7
    <3>7. Len(rows[i]) = widths[i] + Len(rest)
      <4> DEFINE w == widths[i]
                 l == Len(rows[i])
                 k == Len(Top.inputs)
                 j == Len(rest)
      <4>1. l = w + k - 1 /\ w \in Nat /\ k \in Nat /\ j = k - 1
        BY <2>5, <2>9, <3>1, <3>4, <3>5, <3>6
      <4> HIDE DEF w, l, k, j
      <4>2. l = w + j
        BY <4>1
      <4> QED BY <4>2 DEF w, l, j
    <3> QED BY <2>1, <2>5, <3>1, <3>2, <3>4, <3>7 DEF Behind
  <2>13. Splits(Code, dom, mailboxes, widths, rows, rest, targets)
    BY <2>12 DEF Splits
  <2> HIDE DEF sum, rows, rest, targets, widths
  <2>14. PICK more : CodeSound(hugr, a, more, mailboxes) /\ Grown(Code, a, dom, more)
    BY <2>2, <2>7, <2>9, <2>11, <2>13, DestructureSound
  <2> HIDE DEF a
  <2>15. Top.exit \in DOMAIN a.blocks /\ base \subseteq more[Top.exit]
    BY <2>5, <2>14 DEF Behind, Grown
  <2>16. CodeSound(hugr, d, more, mailboxes) /\ Grown(a, d, more, more) /\ d.pos = Top.exit
    BY <2>14, <2>15, AtSound
  <2> HIDE DEF d
  <2>17. Grown(Code, d, dom, more)
    BY <2>14, <2>16, GrownFurther
  <2>18. bases[Len(stack)] \subseteq more[d.pos]
    BY <2>15, <2>16 DEF base
  <2> QED BY <1>1, <1>3, <2>2, <2>16, <2>17, <2>18, Returns
<1> QED BY <1>1, <1>2, <1>3

LEMMA LeaveBlockCertified ==
  ASSUME IInv, DInv, LeaveBlock
  PROVE  DInv'
<1> DEFINE block == Top.node
           cfg == Below.node
           widths == hugr.rows[block]
           succ == hugr.succ[block]
           out == TheChild(hugr, block, "Output")
           results == InsRow(out)
           outs == Upcoming(Code, Len(results))
           rows == [i \in DOMAIN widths |-> InputRow(cfg, succ[i])]
           sum == outs[1]
           rest == Tail(outs)
           targets == [i \in DOMAIN widths |-> Below.bb[succ[i]]]
           r == Read(Code, results)
           a == Destructure(r, sum, widths, rows, rest, targets)
           d == At(a, Below.home)
<1>1. /\ Completed("cfg") /\ hugr' = hugr /\ mailboxes' = mailboxes
      /\ \/ phase' = "panicked" /\ UNCHANGED <<blocks, pos, stack>>
         \/ SetCode(d) /\ stack' = Pop
  BY DEF LeaveBlock
<1>2. CASE phase' = "panicked" /\ UNCHANGED <<blocks, pos, stack>>
  BY <1>1, <1>2, Panics
<1>3. CASE SetCode(d) /\ stack' = Pop
  <2>1. /\ Running("dataflow") /\ Below.is = "cfg"
        /\ IsDataflow(hugr, Top, Len(blocks), mailboxes)
        /\ FrameOK(hugr, Below, Len(blocks), mailboxes) /\ Calls(hugr, Below, Top)
    BY <1>1, BelowCertified
  <2>2. PICK dom, bases :
              /\ CodeSound(hugr, Code, dom, mailboxes)
              /\ StackSound(hugr, Code, dom, bases, mailboxes, stack)
              /\ DataflowSound(hugr, Code, bases[Len(stack)], Top)
              /\ FrameSound(hugr, Code, dom, bases[Len(stack) - 1], mailboxes, Below)
              /\ bases[Len(stack) - 1] \subseteq bases[Len(stack)]
              /\ bases[Len(stack)] \subseteq dom[pos]
    BY <1>1, BelowCertified
  <2>3. /\ hugr \in Hugrs /\ Code.pos = pos /\ Code.blocks = blocks
        /\ Len(blocks) \in Nat /\ DOMAIN blocks = 1 .. Len(blocks)
    BY <2>1, TopCertified
  <2>4. /\ Below.home \in DOMAIN blocks /\ cfg \in NodesOf(hugr) /\ hugr.kind[cfg] = "CFG"
    BY <2>1, <2>3 DEF FrameOK, IsDataflow, IsConditional, IsCfg
  <2>5. /\ block \in ChildrenOf(hugr, cfg) /\ hugr.kind[block] = "DataflowBlock"
        /\ block \in NodesOf(hugr) /\ IsRegion(hugr, block)
    BY <2>1 DEF Calls, IsDataflow
  <2>6. \A i \in DOMAIN widths : succ[i] \in CfgBlocks(hugr, cfg)
    <3>1. ChildrenFit(hugr, cfg)
      BY <2>3, <2>4, KidsFacts
    <3> QED BY <2>4, <2>5, <3>1 DEF ChildrenFit
  <2>7. /\ Leaving(hugr, block) > 0
        /\ \A i \in DOMAIN widths :
             BlockTakes(hugr, cfg, succ[i]) = widths[i] + Leaving(hugr, block) - 1
    <3>1. RowsFit(hugr, cfg)
      BY <2>3, <2>4, Fits
    <3> QED BY <2>4, <2>5, <3>1 DEF RowsFit
  <2>8. widths \in Seq(Nat) /\ DOMAIN widths = 1 .. Len(widths)
    <3>1. hugr.rows \in [NodesOf(hugr) -> Seq(Nat)]
      BY <2>3, HugrAssumption
    <3>2. widths \in Seq(Nat)
      BY <2>5, <3>1
    <3> QED BY <3>2
  <2> DEFINE k == Len(results)
  <2>9. /\ IsSeq(results) /\ ToSet(results) \subseteq mailboxes
        /\ k = Leaving(hugr, block) /\ k \in Nat
    <3>1. out \in NodesOf(hugr)
      BY <2>3, <2>5, RegionFacts
    <3>2. results = Top.outputs
      BY <2>2, <2>5, RowsAre DEF DataflowSound
    <3>3. ToSet(Top.outputs) \subseteq mailboxes
      BY <2>1 DEF IsDataflow
    <3> QED BY <2>3, <3>1, <3>2, <3>3, RowFacts DEF Leaving
  <2> DEFINE base == bases[Len(stack) - 1]
  <2>10. CfgSound(hugr, Code, dom, base, mailboxes, Below) /\ base \subseteq dom[pos]
    BY <2>1, <2>2 DEF FrameSound
  <2> HIDE DEF base, results, widths, succ, cfg, block
  <2>11. Appended(hugr, Code, r, dom, mailboxes, k)
    BY <2>2, <2>9, ReadSound
  <2> HIDE DEF r, k
  <2>12. /\ CodeSound(hugr, r, dom, mailboxes) /\ Grown(Code, r, dom, dom) /\ r.pos = pos
         /\ DOMAIN r.blocks[Code.pos] = 1 .. Len(Code.blocks[Code.pos]) + k
    BY <2>3, <2>11 DEF Appended
  <2>13. outs = Upcoming(Code, k)
    BY DEF k
  <2>14. /\ IsSeq(outs) /\ Len(outs) = k
         /\ \A i \in 1 .. k : Available(hugr, r, dom[pos], outs[i])
    <3>1. Code.pos \in dom[pos]
      BY <2>2, <2>3, SoundSeqs
    <3>2. /\ IsSeq(Upcoming(Code, k)) /\ Len(Upcoming(Code, k)) = k
          /\ \A i \in 1 .. k : Available(hugr, r, dom[pos], Upcoming(Code, k)[i])
      BY <2>2, <2>9, <2>12, <3>1, UpcomingAvailable
    <3> QED BY <2>13, <3>2
  <2>15. outs # <<>>
    <3>1. Len(<<>>) = 0
      OBVIOUS
    <3> QED BY <2>7, <2>9, <2>14, <3>1
  <2> HIDE DEF outs
  <2>16. /\ IsSeq(rest) /\ Len(rest) = k - 1 /\ 1 \in 1 .. k
         /\ \A i \in 1 .. Len(rest) : rest[i] = outs[i + 1] /\ i + 1 \in 1 .. k
    BY <2>14, <2>15, TailFacts
  <2>17. /\ Available(hugr, r, dom[r.pos], sum)
         /\ \A j \in 1 .. Len(rest) : Available(hugr, r, dom[r.pos], rest[j])
    BY <2>12, <2>14, <2>16
  <2>18. ASSUME NEW i \in 1 .. Len(widths)
         PROVE  /\ IsSeq(rows[i]) /\ ToSet(rows[i]) \subseteq mailboxes
                /\ Len(rows[i]) = widths[i] + Len(rest)
                /\ targets[i] \in DOMAIN r.blocks
                /\ dom[targets[i]] \subseteq dom[r.pos] \cup {targets[i]}
    <3> DEFINE m == succ[i]
    <3>1. rows[i] = InputRow(cfg, m) /\ targets[i] = Below.bb[m] /\ m \in CfgBlocks(hugr, cfg)
      BY <2>6, <2>8
    <3>2. Behind(Code, dom, base, Below.bb[m]) /\ ToSet(InputRow(cfg, m)) \subseteq mailboxes
      BY <2>10, <3>1, RowsAre DEF CfgSound, cfg
    <3>3. BlockTakes(hugr, cfg, m) = widths[i] + k - 1 /\ widths[i] \in Nat
      BY <2>7, <2>8, <2>9
    <3> HIDE DEF m
    <3>4. IsSeq(InputRow(cfg, m)) /\ Len(InputRow(cfg, m)) = BlockTakes(hugr, cfg, m)
      <4>1. CASE m = Exit(cfg)
        BY <2>3, <2>4, <4>1, ExitRowFacts DEF InputRow, BlockTakes, Exit
      <4>2. CASE m # Exit(cfg)
        <5>1. m \in NodesOf(hugr) /\ IsRegion(hugr, m)
          BY <2>3, <2>4, <3>1, <4>2, CfgFacts, KidsFacts DEF CfgBlocks, IsRegion
        <5>2. TheChild(hugr, m, "Input") \in NodesOf(hugr)
          BY <2>3, <5>1, RegionFacts
        <5> QED BY <2>3, <4>2, <5>2, RowFacts DEF InputRow, BlockTakes, Exit, Entering
      <4> QED BY <4>1, <4>2
    <3>5. Len(rows[i]) = widths[i] + Len(rest)
      <4> DEFINE w == widths[i]
                 l == Len(rows[i])
                 j == Len(rest)
      <4>1. l = w + k - 1 /\ w \in Nat /\ k \in Nat /\ j = k - 1
        BY <2>9, <2>16, <3>1, <3>3, <3>4
      <4> HIDE DEF w, l, j
      <4>2. l = w + j
        BY <4>1
      <4> QED BY <4>2 DEF w, l, j
    <3>6. /\ targets[i] \in DOMAIN r.blocks
          /\ dom[targets[i]] \subseteq dom[r.pos] \cup {targets[i]}
      BY <2>10, <2>12, <3>1, <3>2 DEF Behind, Grown
    <3> QED BY <3>1, <3>2, <3>4, <3>5, <3>6
  <2>19. Splits(r, dom, mailboxes, widths, rows, rest, targets)
    BY <2>18 DEF Splits
  <2> HIDE DEF sum, rows, rest, targets
  <2>20. PICK more : CodeSound(hugr, a, more, mailboxes) /\ Grown(r, a, dom, more)
    BY <2>8, <2>12, <2>16, <2>17, <2>19, DestructureSound
  <2> HIDE DEF a
  <2>21. Grown(Code, a, dom, more)
    BY <2>12, <2>20, GrownFurther
  <2>22. Below.home \in DOMAIN a.blocks
    BY <2>3, <2>4, <2>21 DEF Grown
  <2>23. CodeSound(hugr, d, more, mailboxes) /\ Grown(a, d, more, more)
    BY <2>20, <2>22, AtSound
  <2> HIDE DEF d
  <2>24. Grown(Code, d, dom, more)
    BY <2>21, <2>23, GrownFurther
  <2>25. ~(Below.is = "dataflow")
    BY <2>1
  <2> QED BY <1>1, <1>3, <2>1, <2>2, <2>23, <2>24, <2>25, Returns
<1> QED BY <1>1, <1>2, <1>3

-----------------------------------------------------------------------------
(* The end of the function, and its beginning.                             *)

LEMMA FinishCertified ==
  ASSUME IInv, DInv, FinishFunc
  PROVE  DInv'
<1> DEFINE row == Top.outputs
           k == Len(row)
           vs == Upcoming(Code, k)
           r == Read(Code, row)
           a == Build(r, <<Return(vs)>>)
           e == At(a, 1)
           d == Build(e, <<Branch(2)>>)
<1>1. /\ Running("dataflow") /\ SetCode(d) /\ stack' = <<>> /\ hugr' = hugr
      /\ mailboxes' = mailboxes
  BY DEF FinishFunc
<1>2. /\ IsSeq(row) /\ ToSet(row) \subseteq mailboxes /\ Code.pos = pos
  <2>1. FrameOK(hugr, Top, Len(blocks), mailboxes) /\ Top.is = "dataflow" /\ Code.pos = pos
    BY <1>1, TopFacts
  <2> QED BY <2>1 DEF FrameOK, IsDataflow, IsConditional, IsCfg
<1>3. PICK dom : CodeSound(hugr, Code, dom, mailboxes)
  BY <1>1, TopCertified
<1>4. k \in Nat
  BY <1>2, SeqFacts
<1>5. Appended(hugr, Code, r, dom, mailboxes, k)
  BY <1>2, <1>3, ReadSound
<1> HIDE DEF row, r, k
<1>6. /\ CodeSound(hugr, r, dom, mailboxes) /\ r.pos = pos
      /\ DOMAIN r.blocks[Code.pos] = 1 .. Len(Code.blocks[Code.pos]) + k
  BY <1>2, <1>5 DEF Appended
<1>7. InstrSound(hugr, r, dom, mailboxes, Return(vs), r.pos, Len(r.blocks[r.pos]) + 1)
  <2>1. Code.pos \in dom[pos] /\ r.pos \in DOMAIN r.blocks
    BY <1>2, <1>3, <1>6, SoundSeqs
  <2>2. /\ IsSeq(vs) /\ Len(vs) = k
        /\ \A i \in 1 .. k : Available(hugr, r, dom[pos], vs[i])
    BY <1>3, <1>4, <1>6, <2>1, UpcomingAvailable
  <2> HIDE DEF vs
  <2>3. ASSUME NEW v \in ToSet(vs) PROVE Usable(hugr, r, dom[r.pos], v, r.pos, Len(r.blocks[r.pos]) + 1)
    <3>1. DOMAIN vs = 1 .. k
      BY <2>2, SeqFacts
    <3>2. Available(hugr, r, dom[r.pos], v)
      BY <1>6, <2>2, <3>1 DEF ToSet
    <3>3. 1 \in Nat \ {0}
      OBVIOUS
    <3> QED BY <1>6, <2>1, <3>2, <3>3, UsableNext
  <2> QED BY <2>3, LeafSound
<1> HIDE DEF vs
<1>8. CodeSound(hugr, a, dom, mailboxes)
  BY <1>6, <1>7, EndSound DEF Appended
<1> HIDE DEF a
<1>9. CodeSound(hugr, e, dom, mailboxes) /\ e.pos = 1
  BY <1>8, AtSound DEF CodeSound
<1> HIDE DEF e
<1>10. InstrSound(hugr, e, dom, mailboxes, Branch(2), e.pos, Len(e.blocks[e.pos]) + 1)
  <2>1. 2 \in DOMAIN e.blocks /\ dom[2] \subseteq dom[e.pos] \cup {2}
    BY <1>9 DEF CodeSound
  <2> QED BY <2>1, BranchSound
<1>11. CodeSound(hugr, d, dom, mailboxes)
  BY <1>9, <1>10, EndSound DEF Appended
<1> HIDE DEF d
<1>12. StackSound(hugr, d, dom, <<>>, mailboxes, <<>>)
  <2>1. Len(<<>>) = 0 /\ 1 .. 0 = {} /\ 1 .. 0 - 1 = {}
    OBVIOUS
  <2> QED BY <2>1 DEF StackSound
<1>13. Certified(hugr, d, mailboxes, <<>>)
  BY <1>11, <1>12 DEF Certified
<1> QED BY <1>1, <1>13, Recertified

LEMMA InitCertified ==
  ASSUME Init
  PROVE  DInv
<1> DEFINE ret == AnonymousRow("ret", hugr.root, hugr.results)
           ins == [i \in 1 .. hugr.params |-> <<0, i>>]
           f == DataflowFrame(hugr.root, ins, ret)
           dom == [b \in {1, 2} |-> IF b = 1 THEN {1} ELSE {1, 2}]
           bases == [k \in {1} |-> {}]
<1>1. /\ hugr \in Hugrs /\ blocks = <<<<>>, <<>>>> /\ pos = 2 /\ stack = <<f>>
  BY DEF Init
<1>2. /\ hugr.root \in NodesOf(hugr) /\ hugr.params \in Nat /\ hugr.results \in Nat
      /\ hugr.kind[hugr.root] = "FuncDefn" /\ RowsFit(hugr, hugr.root)
  BY <1>1, HugrAssumption
<1>3. Len(ret) = Leaving(hugr, hugr.root)
  <2>1. Len(ret) = hugr.results
    BY <1>2, AnonymousFacts
  <2> QED BY <1>2, <2>1 DEF RowsFit
<1>4. Len(ins) = Entering(hugr, hugr.root) /\ \A i \in 1 .. hugr.params : ins[i] = <<0, i>>
  <2>1. Len(ins) = hugr.params
    BY <1>2, FunSeq
  <2> QED BY <1>2, <2>1 DEF RowsFit
<1>5. f.is = "dataflow" /\ f.node = hugr.root /\ f.inputs = ins /\ f.outputs = ret
  <2> HIDE DEF ins, ret
  <2> QED BY DEF DataflowFrame
<1> HIDE DEF ret, f
<1>6. /\ Code = [blocks |-> Code.blocks, pos |-> Code.pos]
      /\ Code.blocks = <<<<>>, <<>>>> /\ Code.pos = 2
  BY <1>1 DEF Code
<1>7. /\ IsSeq(Code.blocks) /\ DOMAIN Code.blocks = {1, 2}
      /\ \A b \in {1, 2} : Code.blocks[b] = <<>>
  <2>1. <<<<>>, <<>>>> \in Seq({<<>>})
    OBVIOUS
  <2>2. IsSeq(<<<<>>, <<>>>>)
    BY <2>1, KnownSeq
  <2>3. DOMAIN <<<<>>, <<>>>> = {1, 2} /\ <<<<>>, <<>>>>[1] = <<>> /\ <<<<>>, <<>>>>[2] = <<>>
    OBVIOUS
  <2> QED BY <1>6, <2>2, <2>3
<1>8. CodeSound(hugr, Code, dom, mailboxes)
  <2>1. IsSeq(<<>>) /\ DOMAIN <<>> = {}
    BY DEF IsSeq, ToSet
  <2>2. dom[1] = {1} /\ dom[2] = {1, 2}
    OBVIOUS
  <2> HIDE DEF dom
  <2> QED BY <1>6, <1>7, <2>1, <2>2 DEF CodeSound
<1>9. FrameSound(hugr, Code, dom, bases[1], mailboxes, f)
  <2>1. AllAvailable(hugr, Code, bases[1], f.inputs)
    <3>1. ASSUME NEW i \in 1 .. Len(ins) PROVE Available(hugr, Code, bases[1], ins[i])
      <4>1. ins[i] = <<0, i>> /\ i \in 1 .. hugr.params
        BY <1>2, <1>4 DEF RowsFit
      <4>2. ins[i][1] = 0 /\ ins[i][2] = i
        BY <4>1
      <4> HIDE DEF ins
      <4> QED BY <4>1, <4>2 DEF Available
    <3> HIDE DEF ins
    <3> QED BY <1>5, <3>1 DEF AllAvailable
  <2>2. DataflowSound(hugr, Code, bases[1], f)
    <3> HIDE DEF ins
    <3> QED BY <1>2, <1>3, <1>4, <1>5, <2>1 DEF DataflowSound
  <2> QED BY <1>5, <2>2 DEF FrameSound
<1>10. StackSound(hugr, Code, dom, bases, mailboxes, stack)
  <2>1. Len(stack) = 1 /\ stack[1] = f /\ 1 .. 1 = {1} /\ 1 .. 1 - 1 = {}
    BY <1>1, OneSeq
  <2> QED BY <1>9, <2>1 DEF StackSound
<1> QED BY <1>8, <1>10 DEF DInv, Certified

LEMMA NextCertified ==
  ASSUME IInv, DInv, [Next]_vars
  PROVE  DInv'
<1>1. CASE VisitChild
  <2>1. PICK n : \/ EmitInput(n) \/ EmitOutput(n) \/ EmitLeaf(n) \/ EmitGuarded(n) \/ EmitSilent(n)
                 \/ EnterDfg(n) \/ EnterConditional(n) \/ EnterCfg(n)
    BY <1>1 DEF VisitChild
  <2> QED BY <2>1, InputCertified, OutputCertified, LeafCertified, GuardedCertified,
             SilentCertified, DfgCertified, ConditionalCertified, CfgCertified
<1>2. CASE LeaveDfg
  BY <1>2, LeaveDfgCertified
<1>3. CASE EnterCase
  BY <1>3, CaseCertified
<1>4. CASE LeaveCase
  BY <1>4, LeaveCaseCertified
<1>5. CASE LeaveConditional
  BY <1>5, LeaveConditionalCertified
<1>6. CASE EnterBlock
  BY <1>6, BlockCertified
<1>7. CASE LeaveBlock
  BY <1>7, LeaveBlockCertified
<1>8. CASE EmitExitBlock
  BY <1>8, ExitBlockCertified
<1>9. CASE EmitCfgDefinition
  BY <1>9, CfgDefinitionCertified
<1>10. CASE LeaveCfg
  BY <1>10, LeaveCfgCertified
<1>11. CASE FinishFunc
  BY <1>11, FinishCertified
<1>12. CASE UNCHANGED vars
  <2>1. hugr' = hugr /\ mailboxes' = mailboxes /\ stack' = stack /\ Code' = Code
    BY <1>12 DEF vars, Code
  <2> QED BY <2>1 DEF DInv
<1> QED BY <1>1, <1>2, <1>3, <1>4, <1>5, <1>6, <1>7, <1>8, <1>9, <1>10, <1>11, <1>12
        DEF Next, Emit, Halted

\* At all times there is a certificate for the code so far that covers what
\* the activations on the stack will still add to it.
THEOREM CertificateKept == Spec => []DInv
<1>1. Init => DInv
  BY InitCertified
<1>2. IInv /\ DInv /\ [Next]_vars => DInv'
  BY NextCertified
<1> QED BY <1>1, <1>2, Invariant, PTL DEF Spec

-----------------------------------------------------------------------------
(* A certificate answers the verifier.                                     *)

\* One step of the search for the blocks that can be reached around d.
Wider(d, S) == S \cup ((UNION {Successors(a) : a \in S}) \ {d})

\* g agrees up to n with the recursion of Avoiding.
GrowsTo(d, g, n) == g[0] = {1} \ {d} /\ \A k \in 1 .. n : g[k] = Wider(d, g[k - 1])

LEMMA AllOfNat ==
  ASSUME NEW S, S \subseteq Nat, 0 \in S, \A n \in S : n + 1 \in S
  PROVE  S = Nat
<1> SUFFICES ASSUME Nat \ S # {} PROVE FALSE
  OBVIOUS
<1>1. PICK n \in Nat \ S : \A k \in Nat \ S : n <= k
  BY Least
<1>2. n - 1 \in Nat /\ n - 1 \notin Nat \ S
  BY <1>1
<1> QED BY <1>1, <1>2

LEMMA GrowsExist ==
  ASSUME NEW d, NEW n \in Nat
  PROVE  \E g : GrowsTo(d, g, n)
<1> DEFINE S == {k \in Nat : \E g : GrowsTo(d, g, k)}
<1>1. 0 \in S
  <2> DEFINE g == [k \in {0} |-> {1} \ {d}]
  <2>1. g[0] = {1} \ {d} /\ 1 .. 0 = {}
    OBVIOUS
  <2> HIDE DEF g
  <2> QED BY <2>1 DEF GrowsTo
<1>2. ASSUME NEW k \in S PROVE k + 1 \in S
  <2>1. k \in Nat /\ k + 1 \in Nat
    OBVIOUS
  <2>2. PICK g : GrowsTo(d, g, k)
    OBVIOUS
  <2> DEFINE f == [i \in 0 .. k + 1 |-> IF i = k + 1 THEN Wider(d, g[k]) ELSE g[i]]
  <2>3. f[0] = g[0]
    BY <2>1
  <2>4. ASSUME NEW i \in 1 .. k + 1 PROVE f[i] = Wider(d, f[i - 1])
    <3>1. f[i] = IF i = k + 1 THEN Wider(d, g[k]) ELSE g[i]
      BY <2>1
    <3>2. i - 1 \in 0 .. k + 1 /\ i - 1 # k + 1
      BY <2>1
    <3>3. f[i - 1] = g[i - 1]
      BY <3>2
    <3> HIDE DEF f
    <3>4. CASE i = k + 1
      <4>1. i - 1 = k
        BY <2>1, <3>4
      <4> QED BY <3>1, <3>3, <3>4, <4>1
    <3>5. CASE i # k + 1
      <4>1. i \in 1 .. k
        BY <2>1, <3>5
      <4>2. g[i] = Wider(d, g[i - 1])
        BY <2>2, <4>1 DEF GrowsTo
      <4> QED BY <3>1, <3>3, <3>5, <4>2
    <3> QED BY <3>4, <3>5
  <2> HIDE DEF f
  <2>5. GrowsTo(d, f, k + 1)
    BY <2>2, <2>3, <2>4 DEF GrowsTo
  <2> QED BY <2>1, <2>5
<1>3. S = Nat
  <2> HIDE DEF S
  <2>1. S \subseteq Nat
    BY DEF S
  <2> QED BY <1>1, <1>2, <2>1, AllOfNat
<1> QED BY <1>3

LEMMA GrowsAgree ==
  ASSUME NEW d, NEW n \in Nat, NEW m \in Nat, n <= m,
         NEW f, GrowsTo(d, f, n), NEW g, GrowsTo(d, g, m)
  PROVE  f[n] = g[n]
<1> DEFINE S == {k \in Nat : k <= n => f[k] = g[k]}
<1>1. 0 \in S
  BY DEF GrowsTo
<1>2. ASSUME NEW k \in S PROVE k + 1 \in S
  <2>1. CASE k + 1 <= n
    <3>1. k + 1 \in 1 .. n /\ k + 1 \in 1 .. m /\ k + 1 - 1 = k /\ k <= n
      BY <2>1
    <3>2. f[k + 1] = Wider(d, f[k + 1 - 1]) /\ g[k + 1] = Wider(d, g[k + 1 - 1])
      BY <3>1 DEF GrowsTo
    <3> QED BY <3>1, <3>2
  <2> QED BY <2>1
<1>3. S = Nat
  <2> HIDE DEF S
  <2>1. S \subseteq Nat
    BY DEF S
  <2> QED BY <1>1, <1>2, <2>1, AllOfNat
<1> QED BY <1>3

LEMMA AvoidingIs ==
  ASSUME NEW d, Len(blocks) \in Nat
  PROVE  \E g : GrowsTo(d, g, Len(blocks)) /\ Avoiding(d) = g[Len(blocks)]
<1> DEFINE step(f) == [k \in Nat |-> IF k = 0 THEN {1} \ {d} ELSE Wider(d, f[k - 1])]
           upTo(n) == CHOOSE f : GrowsTo(d, f, n)
           g == [n \in Nat |-> upTo(n)[n]]
           grow == CHOOSE f : f = step(f)
<1>1. Avoiding(d) = grow[Len(blocks)]
  BY DEF Avoiding, Wider
<1>2. ASSUME NEW n \in Nat PROVE GrowsTo(d, upTo(n), n)
  BY GrowsExist
<1> HIDE DEF upTo
<1>3. ASSUME NEW k \in Nat PROVE g[k] = IF k = 0 THEN {1} \ {d} ELSE Wider(d, g[k - 1])
  <2>1. CASE k = 0
    BY <1>2, <2>1 DEF GrowsTo
  <2>2. CASE k # 0
    <3>1. k \in 1 .. k /\ k - 1 \in Nat /\ k - 1 <= k
      BY <2>2
    <3>2. upTo(k)[k] = Wider(d, upTo(k)[k - 1])
      BY <1>2, <3>1 DEF GrowsTo
    <3>3. upTo(k - 1)[k - 1] = upTo(k)[k - 1]
      BY <1>2, <3>1, GrowsAgree
    <3> QED BY <2>2, <3>1, <3>2, <3>3
  <2> QED BY <2>1, <2>2
<1>4. g = step(g)
  <2>1. g = [k \in Nat |-> g[k]]
    OBVIOUS
  <2> HIDE DEF g
  <2> QED BY <1>3, <2>1
<1>5. grow = step(grow)
  <2> HIDE DEF g
  <2> QED BY <1>4
<1>6. \A k \in Nat : grow[k] = IF k = 0 THEN {1} \ {d} ELSE Wider(d, grow[k - 1])
  <2> HIDE DEF grow
  <2>1. ASSUME NEW k \in Nat PROVE step(grow)[k] = IF k = 0 THEN {1} \ {d} ELSE Wider(d, grow[k - 1])
    OBVIOUS
  <2> HIDE DEF step
  <2> QED BY <1>5, <2>1
<1> HIDE DEF grow
<1>7. GrowsTo(d, grow, Len(blocks))
  BY <1>6 DEF GrowsTo
<1> QED BY <1>1, <1>7

\* No path to a block b avoids d if d is among the blocks dom[b].
LEMMA AvoidingMisses ==
  ASSUME NEW d, Len(blocks) \in Nat, NEW dom, dom[1] = {1},
         1 \in DOMAIN blocks,
         \A b \in DOMAIN blocks : \A t \in Successors(b) :
            t \in DOMAIN blocks /\ dom[t] \subseteq dom[b] \cup {t}
  PROVE  \A b \in Avoiding(d) : b \in DOMAIN blocks /\ d \notin dom[b]
<1>1. PICK g : GrowsTo(d, g, Len(blocks)) /\ Avoiding(d) = g[Len(blocks)]
  BY AvoidingIs
<1> DEFINE Good(T) == \A b \in T : b \in DOMAIN blocks /\ d \notin dom[b]
           S == {k \in Nat : k <= Len(blocks) => Good(g[k])}
<1>2. 0 \in S
  BY <1>1 DEF GrowsTo
<1>3. ASSUME NEW k \in S PROVE k + 1 \in S
  <2>1. CASE k + 1 <= Len(blocks)
    <3>1. k \in Nat /\ k + 1 \in 1 .. Len(blocks) /\ k + 1 - 1 = k /\ k <= Len(blocks)
      BY <2>1
    <3>2. g[k + 1] = Wider(d, g[k + 1 - 1])
      BY <1>1, <3>1 DEF GrowsTo
    <3>3. g[k + 1] = Wider(d, g[k])
      BY <3>1, <3>2
    <3>4. ASSUME NEW t \in Wider(d, g[k]) PROVE t \in DOMAIN blocks /\ d \notin dom[t]
      <4>1. Good(g[k])
        BY <3>1
      <4>2. CASE t \in g[k]
        BY <4>1, <4>2
      <4>3. CASE t \notin g[k]
        <5> DEFINE reached == g[k]
        <5> HIDE DEF reached
        <5>1. t \in UNION {Successors(a) : a \in reached} /\ t # d
          BY <3>4, <4>3 DEF Wider, reached
        <5>2. \E a \in reached : t \in Successors(a)
          BY <5>1
        <5>3. PICK a \in g[k] : t \in Successors(a)
          BY <5>2 DEF reached
        <5>4. a \in DOMAIN blocks /\ d \notin dom[a]
          BY <4>1
        <5> QED BY <5>1, <5>3, <5>4
      <4> QED BY <4>2, <4>3
    <3>5. Good(g[k + 1])
      BY <3>3, <3>4
    <3> HIDE DEF Good
    <3> QED BY <3>1, <3>5
  <2> HIDE DEF Good
  <2>2. k + 1 \in Nat
    OBVIOUS
  <2> QED BY <2>1, <2>2
<1>4. S = Nat
  <2> HIDE DEF S
  <2>1. S \subseteq Nat
    BY DEF S
  <2> QED BY <1>2, <1>3, <2>1, AllOfNat
<1>5. Good(g[Len(blocks)])
  <2> HIDE DEF Good
  <2> QED BY <1>4
<1> QED BY <1>1, <1>5

\* What LLVM's verifier asks of the code of a function: the mailboxes used are
\* allocated in the prologue, and every value is computed on every path to its
\* use, whatever the order in which cases and blocks were emitted and wherever
\* the builder was moved in between.
THEOREM PassesTheVerifier == Spec => []VerifiesAsLlvm
<1>1. IInv /\ DInv => VerifiesAsLlvm
  <2> SUFFICES ASSUME IInv, DInv, phase = "emitted",
                      NEW b \in DOMAIN blocks, NEW i \in DOMAIN blocks[b]
               PROVE  LET instr == blocks[b][i] IN
                        /\ instr.op \in {"load", "store"} => instr.mb \in mailboxes
                        /\ \A v \in Operands(instr) :
                             IF v[1] = 0 THEN v[2] \in 1..hugr.params
                             ELSE IF v[1] = b THEN v[2] < i
                             ELSE v[2] \in DOMAIN blocks[v[1]] /\ b \notin Avoiding(v[1])
    BY DEF VerifiesAsLlvm
  <2>1. PICK dom : CodeSound(hugr, Code, dom, mailboxes)
    BY DEF DInv, Certified
  <2>2. Code.blocks = blocks /\ Open(Code) = {}
    BY DEF IInv, Code
  <2>3. /\ Len(blocks) \in Nat /\ DOMAIN blocks = 1 .. Len(blocks)
        /\ \A a \in DOMAIN blocks : /\ Len(blocks[a]) \in DOMAIN blocks[a]
                                    /\ a \in dom[a] /\ dom[a] \subseteq DOMAIN blocks
    <3>1. \A a \in DOMAIN blocks : blocks[a] # <<>>
      BY <2>2 DEF Open, Closed
    <3>2. \A a \in DOMAIN blocks : IsSeq(blocks[a])
      BY <2>1, <2>2 DEF CodeSound
    <3> QED BY <2>1, <2>2, <3>1, <3>2, SoundSeqs, SeqFacts
  <2>4. \A a \in DOMAIN blocks : \A j \in DOMAIN blocks[a] :
           InstrSound(hugr, Code, dom, mailboxes, blocks[a][j], a, j)
    BY <2>1, <2>2 DEF CodeSound
  <2>5. ASSUME NEW a \in DOMAIN blocks, NEW t \in Successors(a)
        PROVE  t \in DOMAIN blocks /\ dom[t] \subseteq dom[a] \cup {t}
    <3>1. InstrSound(hugr, Code, dom, mailboxes, blocks[a][Len(blocks[a])], a, Len(blocks[a]))
      BY <2>3, <2>4
    <3>2. Successors(a) = Targets(blocks[a][Len(blocks[a])])
      BY DEF Successors, Targets, Last
    <3> QED BY <2>2, <3>1, <3>2 DEF InstrSound
  <2>6. 1 \in DOMAIN blocks /\ dom[1] = {1}
    BY <2>1, <2>2 DEF CodeSound
  <2>7. \A d : b \in Avoiding(d) => d \notin dom[b]
    BY <2>3, <2>5, <2>6, AvoidingMisses
  <2> DEFINE instr == blocks[b][i]
  <2>8. InstrSound(hugr, Code, dom, mailboxes, instr, b, i)
    BY <2>4
  <2> HIDE DEF instr
  <2>9. ASSUME NEW v \in Operands(instr)
        PROVE  IF v[1] = 0 THEN v[2] \in 1..hugr.params
               ELSE IF v[1] = b THEN v[2] < i
               ELSE v[2] \in DOMAIN blocks[v[1]] /\ b \notin Avoiding(v[1])
    <3>1. Usable(hugr, Code, dom[b], v, b, i)
      BY <2>8 DEF InstrSound
    <3>2. b # 0 /\ 0 \notin dom[b]
      BY <2>3
    <3> QED BY <2>2, <2>7, <3>1, <3>2 DEF Usable
  <2> QED BY <2>8, <2>9 DEF InstrSound, instr
<1> QED BY <1>1, Invariant, CertificateKept, PTL
=============================================================================
