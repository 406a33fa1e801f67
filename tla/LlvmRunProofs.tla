----------------------------- MODULE LlvmRunProofs -----------------------------
(***************************************************************************)
(* Proofs about the run of the code that FuncEmitter emits: nothing        *)
(* undefined is used, whatever the function and its arguments are.         *)
(*                                                                         *)
(* As for dominance, what matters are all paths to an instruction, of      *)
(* which more come until the function is complete.  So the invariant of    *)
(* the emission says that there is, for each block b, a record entry[b]    *)
(* that holds whenever b is entered, now or later:                         *)
(*   entry[b].has    the mailboxes that have been written                  *)
(*   entry[b].when   the variants that sums are in, as <<value, tag>>      *)
(* and that a value lands in a mailbox only if it is of the mailbox's type.*)
(***************************************************************************)
EXTENDS LlvmRun, FuncEmitterProofs

\* What the mailbox mb may hold.
BoxType(h, mb) ==
    CASE mb[1] = "case" -> TypesIn(h, mb[2])[mb[3]]
      [] mb[1] = "ret" -> TypesOut(h, mb[2])[mb[3]]
      [] OTHER -> h.types[mb[2]][mb[3]]

-----------------------------------------------------------------------------
(* Values of the code c.                                                   *)

InstrAt(c, v) == c.blocks[v[1]][v[2]]

IsAt(c, v) == /\ v = <<v[1], v[2]>> /\ v[1] \in DOMAIN c.blocks
              /\ v[2] \in DOMAIN c.blocks[v[1]]

IsLoad(c, v) == IsAt(c, v) /\ InstrAt(c, v).op = "load"
AreLoads(c, vs) == IsSeq(vs) /\ \A i \in 1 .. Len(vs) : IsLoad(c, vs[i])

LoadType(h, c, v) == BoxType(h, InstrAt(c, v).mb)
LoadTypes(h, c, vs) == [i \in DOMAIN vs |-> LoadType(h, c, vs[i])]

\* The values vs are loads from the mailboxes row.
Fetched(h, c, vs, row) ==
    /\ AreLoads(c, vs) /\ Len(vs) = Len(row)
    /\ \A i \in 1 .. Len(row) : LoadType(h, c, vs[i]) = BoxType(h, row[i])

\* What the instruction computes is in T.
Yields(h, c, instr, T) ==
    \/ instr.op = "load" /\ BoxType(h, instr.mb) \subseteq T
    \/ instr.op = "const" /\ instr.const \in T
    \/ /\ instr.op = "tag" /\ AreLoads(c, instr.args)
       /\ \A a \in Picks(LoadTypes(h, c, instr.args)) : [tag |-> instr.tag, fields |-> a] \in T
    \/ /\ instr.op = "apply" /\ AreLoads(c, instr.args)
       /\ \A a \in Picks(LoadTypes(h, c, instr.args)) : Meaning(instr.f, a)[instr.port] \in T
    \/ /\ instr.op = "field" /\ IsLoad(c, instr.sum)
       /\ \A x \in LoadType(h, c, instr.sum) : x.tag = instr.tag - 1 => x.fields[instr.ix] \in T

\* The value v is in T.
Holds(h, c, v, T) ==
    \/ v[1] = 0 /\ v[2] \in 1 .. h.params /\ TypesIn(h, h.root)[v[2]] \subseteq T
    \/ v[1] # 0 /\ IsAt(c, v) /\ Yields(h, c, InstrAt(c, v), T)

\* The values vs can be put in the mailboxes row.
Fills(h, c, vs, row) == \A i \in 1 .. Len(row) : Holds(h, c, vs[i], BoxType(h, row[i]))

-----------------------------------------------------------------------------
(* Certificates.                                                           *)

\* What the first k instructions of a block write.
Stored(block, k) == {block[i].mb : i \in {j \in 1 .. k : block[j].op = "store"}}

\* What is written where they have been executed, and at the end of b.
Has(c, entry, b, k) == entry[b].has \cup Stored(c.blocks[b], k)
Have(c, entry, b) == Has(c, entry, b, Len(c.blocks[b]))

\* The block t may be entered where has is written and when is known.
Reaches(c, entry, has, when, t) ==
    t \in DOMAIN c.blocks /\ entry[t].has \subseteq has /\ entry[t].when \subseteq when

\* The value v is a sum, in a variant that one of the successors to is for.
Selects(h, c, v, to) == v[1] # 0 /\ \E T : /\ Holds(h, c, v, T)
                                          /\ \A x \in T : x.tag \in Nat /\ x.tag + 1 \in DOMAIN to

InstrRuns(h, c, entry, has, when, instr) ==
    \/ instr.op = "load" /\ instr.mb \in has
    \/ instr.op = "store" /\ Holds(h, c, instr.val, BoxType(h, instr.mb))
    \/ instr.op \in {"tag", "apply"} /\ AreLoads(c, instr.args)
    \/ instr.op = "const"
    \/ instr.op = "field" /\ IsLoad(c, instr.sum) /\ <<instr.sum, instr.tag>> \in when
    \/ instr.op = "br" /\ Reaches(c, entry, has, {}, instr.to)
    \/ /\ instr.op = "switch" /\ Selects(h, c, instr.on, instr.to)
       /\ \A j \in DOMAIN instr.to : Reaches(c, entry, has, {<<instr.on, j>>}, instr.to[j])
    \/ instr.op = "ret" /\ AreLoads(c, instr.vals)

Nothing == [has |-> {}, when |-> {}]

Shaped(c) ==
    /\ c = [blocks |-> c.blocks, pos |-> c.pos]
    /\ IsSeq(c.blocks) /\ c.pos \in DOMAIN c.blocks
    /\ \A b \in DOMAIN c.blocks : IsSeq(c.blocks[b])
    /\ {1, 2} \subseteq DOMAIN c.blocks

\* entry is a certificate for the code c.
CodeRuns(h, c, entry) ==
    /\ Shaped(c)
    /\ entry[1] = Nothing /\ entry[2] = Nothing
    /\ \A b \in DOMAIN c.blocks :
         /\ \A fact \in entry[b].when : fact[1][1] # b
         /\ \A i \in DOMAIN c.blocks[b] :
              InstrRuns(h, c, entry, Has(c, entry, b, i - 1), entry[b].when, c.blocks[b][i])

\* d has what c has, and more.
Keeps(c, d, entry, more) == \A b \in DOMAIN c.blocks :
    /\ b \in DOMAIN d.blocks /\ more[b] = entry[b]
    /\ \A i \in DOMAIN c.blocks[b] : i \in DOMAIN d.blocks[b] /\ d.blocks[b][i] = c.blocks[b][i]

\* d is c with more instructions where the builder stands.
Added(h, c, d, entry, instrs) ==
    /\ CodeRuns(h, d, entry) /\ Keeps(c, d, entry, entry)
    /\ d.pos = c.pos /\ Len(d.blocks) = Len(c.blocks)
    /\ Len(d.blocks[c.pos]) = Len(c.blocks[c.pos]) + Len(instrs)
    /\ \A i \in 1 .. Len(instrs) : d.blocks[c.pos][Len(c.blocks[c.pos]) + i] = instrs[i]

-----------------------------------------------------------------------------
(* What is kept by growing code.                                           *)

LEMMA ShapeFacts ==
  ASSUME NEW c, Shaped(c)
  PROVE  /\ Len(c.blocks) \in Nat /\ DOMAIN c.blocks = 1 .. Len(c.blocks) /\ Len(c.blocks) >= 2
         /\ c.pos \in DOMAIN c.blocks
         /\ \A b \in DOMAIN c.blocks : /\ IsSeq(c.blocks[b]) /\ Len(c.blocks[b]) \in Nat
                                       /\ DOMAIN c.blocks[b] = 1 .. Len(c.blocks[b])
BY SeqFacts DEF Shaped

LEMMA LoadStays ==
  ASSUME NEW h, NEW c, NEW d, NEW entry, NEW more, Keeps(c, d, entry, more), NEW v, IsLoad(c, v)
  PROVE  IsLoad(d, v) /\ LoadType(h, d, v) = LoadType(h, c, v)
BY DEF IsLoad, IsAt, InstrAt, Keeps, LoadType

LEMMA LoadsStay ==
  ASSUME NEW h, NEW c, NEW d, NEW entry, NEW more, Keeps(c, d, entry, more),
         NEW vs, AreLoads(c, vs)
  PROVE  AreLoads(d, vs) /\ LoadTypes(h, d, vs) = LoadTypes(h, c, vs)
<1>1. \A i \in 1 .. Len(vs) : IsLoad(d, vs[i]) /\ LoadType(h, d, vs[i]) = LoadType(h, c, vs[i])
  BY LoadStays DEF AreLoads
<1>2. DOMAIN vs = 1 .. Len(vs)
  BY SeqFacts DEF AreLoads
<1> QED BY <1>1, <1>2 DEF AreLoads, LoadTypes

LEMMA FetchedStays ==
  ASSUME NEW h, NEW c, NEW d, NEW entry, NEW more, Keeps(c, d, entry, more),
         NEW vs, NEW row, Fetched(h, c, vs, row)
  PROVE  Fetched(h, d, vs, row)
<1>1. AreLoads(d, vs)
  BY LoadsStay DEF Fetched
<1>2. \A i \in 1 .. Len(row) : LoadType(h, d, vs[i]) = BoxType(h, row[i])
  BY LoadStays DEF Fetched, AreLoads
<1> QED BY <1>1, <1>2 DEF Fetched

LEMMA HoldsStays ==
  ASSUME NEW h, NEW c, NEW d, NEW entry, NEW more, Keeps(c, d, entry, more),
         NEW v, NEW T, Holds(h, c, v, T)
  PROVE  Holds(h, d, v, T)
<1>1. CASE v[1] = 0
  BY <1>1 DEF Holds
<1>2. CASE v[1] # 0
  <2>1. IsAt(c, v) /\ Yields(h, c, InstrAt(c, v), T)
    BY <1>2 DEF Holds
  <2>2. IsAt(d, v) /\ InstrAt(d, v) = InstrAt(c, v)
    BY <2>1 DEF IsAt, InstrAt, Keeps
  <2>3. \A instr : Yields(h, c, instr, T) => Yields(h, d, instr, T)
    BY LoadStays, LoadsStay DEF Yields
  <2> QED BY <1>2, <2>1, <2>2, <2>3 DEF Holds
<1> QED BY <1>1, <1>2

LEMMA ReachesStays ==
  ASSUME NEW c, NEW d, NEW entry, NEW more, Keeps(c, d, entry, more),
         NEW has, NEW now, has \subseteq now, NEW when, NEW t, Reaches(c, entry, has, when, t)
  PROVE  Reaches(d, more, now, when, t)
BY DEF Reaches, Keeps

LEMMA RunsStays ==
  ASSUME NEW h, NEW c, NEW d, NEW entry, NEW more, Keeps(c, d, entry, more),
         NEW has, NEW now, has \subseteq now, NEW when,
         NEW instr, InstrRuns(h, c, entry, has, when, instr)
  PROVE  InstrRuns(h, d, more, now, when, instr)
<1>1. CASE instr.op = "store"
  BY <1>1, HoldsStays DEF InstrRuns
<1>2. CASE instr.op = "switch"
  <2>1. Selects(h, d, instr.on, instr.to)
    <3>1. Selects(h, c, instr.on, instr.to)
      BY <1>2 DEF InstrRuns
    <3>2. \A T : Holds(h, c, instr.on, T) => Holds(h, d, instr.on, T)
      BY HoldsStays
    <3> QED BY <3>1, <3>2 DEF Selects
  <2>2. ASSUME NEW j \in DOMAIN instr.to PROVE Reaches(d, more, now, {<<instr.on, j>>}, instr.to[j])
    <3>1. Reaches(c, entry, has, {<<instr.on, j>>}, instr.to[j])
      BY <1>2 DEF InstrRuns
    <3> QED BY <3>1, ReachesStays
  <2> QED BY <1>2, <2>1, <2>2 DEF InstrRuns
<1>3. CASE instr.op \notin {"store", "switch"}
  BY <1>3, LoadStays, LoadsStay, ReachesStays DEF InstrRuns
<1> QED BY <1>1, <1>2, <1>3

LEMMA HasStays ==
  ASSUME NEW c, NEW d, NEW entry, NEW more, Keeps(c, d, entry, more), Shaped(c), Shaped(d),
         NEW b \in DOMAIN c.blocks
  PROVE  /\ \A k \in 0 .. Len(c.blocks[b]) : Has(d, more, b, k) = Has(c, entry, b, k)
         /\ Have(c, entry, b) \subseteq Have(d, more, b)
<1>1. /\ Len(c.blocks[b]) \in Nat /\ DOMAIN c.blocks[b] = 1 .. Len(c.blocks[b])
      /\ Len(d.blocks[b]) \in Nat /\ DOMAIN d.blocks[b] = 1 .. Len(d.blocks[b])
      /\ \A i \in 1 .. Len(c.blocks[b]) : i \in 1 .. Len(d.blocks[b]) /\ d.blocks[b][i] = c.blocks[b][i]
      /\ more[b] = entry[b]
  BY ShapeFacts DEF Keeps
<1>2. ASSUME NEW k \in 0 .. Len(c.blocks[b]) PROVE Stored(d.blocks[b], k) = Stored(c.blocks[b], k)
  <2>1. \A i \in 1 .. k : d.blocks[b][i] = c.blocks[b][i]
    BY <1>1
  <2> QED BY <2>1 DEF Stored
<1>3. Stored(c.blocks[b], Len(c.blocks[b])) \subseteq Stored(d.blocks[b], Len(d.blocks[b]))
  BY <1>1 DEF Stored
<1> QED BY <1>1, <1>2, <1>3 DEF Has, Have

LEMMA KeepsFurther ==
  ASSUME NEW c, NEW d, NEW e, NEW one, NEW two, NEW three, Keeps(c, d, one, two), Keeps(d, e, two, three)
  PROVE  Keeps(c, e, one, three)
BY DEF Keeps

-----------------------------------------------------------------------------
(* The operations on code.                                                 *)

LEMMA BuildRuns ==
  ASSUME NEW h, NEW c, NEW entry, CodeRuns(h, c, entry), NEW instrs, IsSeq(instrs),
         \A i \in 1 .. Len(instrs) :
           InstrRuns(h, c, entry, Have(c, entry, c.pos) \cup Stored(instrs, i - 1),
                     entry[c.pos].when, instrs[i])
  PROVE  Added(h, c, Build(c, instrs), entry, instrs)
<1> DEFINE d == Build(c, instrs)
           old == c.blocks[c.pos]
           new == old \o instrs
<1>1. d.pos = c.pos /\ d = [blocks |-> d.blocks, pos |-> d.pos]
  BY DEF Build
<1>2. d.blocks = [c.blocks EXCEPT ![c.pos] = new]
  BY DEF Build
<1>3. /\ c.blocks \in Seq(ToSet(c.blocks)) /\ c.pos \in DOMAIN c.blocks
      /\ Len(c.blocks) \in Nat /\ DOMAIN c.blocks = 1 .. Len(c.blocks)
      /\ IsSeq(old) /\ Len(old) \in Nat /\ DOMAIN old = 1 .. Len(old)
  BY ShapeFacts DEF CodeRuns, Shaped, IsSeq
<1>4. /\ DOMAIN d.blocks = DOMAIN c.blocks /\ d.blocks[c.pos] = new
      /\ \A b \in DOMAIN c.blocks : b # c.pos => d.blocks[b] = c.blocks[b]
  BY <1>2, <1>3
<1>5. IsSeq(d.blocks) /\ Len(d.blocks) = Len(c.blocks)
  <2>1. d.blocks = [b \in 1 .. Len(c.blocks) |-> d.blocks[b]]
    BY <1>2, <1>3
  <2> HIDE DEF d
  <2> QED BY <1>3, <2>1, FunSeq
<1> HIDE DEF d, old
<1>6. /\ IsSeq(new) /\ Len(new) = Len(old) + Len(instrs) /\ DOMAIN new = 1 .. Len(old) + Len(instrs)
      /\ \A i \in 1 .. Len(old) : new[i] = old[i]
      /\ \A i \in 1 .. Len(instrs) : new[Len(old) + i] = instrs[i]
      /\ Len(instrs) \in Nat
  BY <1>3, ConcatSeq, SeqFacts
<1> HIDE DEF new
<1>7. Keeps(c, d, entry, entry)
  <2>1. \A i \in DOMAIN old : i \in DOMAIN new /\ new[i] = old[i]
    BY <1>3, <1>6
  <2> QED BY <1>4, <2>1 DEF Keeps, old
<1>8. Shaped(d) /\ Shaped(c)
  BY <1>1, <1>3, <1>4, <1>5, <1>6 DEF CodeRuns, Shaped
<1>9. ASSUME NEW b \in DOMAIN c.blocks, NEW i \in DOMAIN d.blocks[b]
      PROVE  InstrRuns(h, d, entry, Has(d, entry, b, i - 1), entry[b].when, d.blocks[b][i])
  <2>1. CASE b # c.pos \/ i \in 1 .. Len(old)
    <3>1. /\ i \in DOMAIN c.blocks[b] /\ d.blocks[b][i] = c.blocks[b][i]
          /\ i - 1 \in 0 .. Len(c.blocks[b])
      <4>1. i \in DOMAIN c.blocks[b] /\ d.blocks[b][i] = c.blocks[b][i]
        BY <1>3, <1>4, <1>6, <1>9, <2>1 DEF old
      <4>2. DOMAIN c.blocks[b] = 1 .. Len(c.blocks[b]) /\ Len(c.blocks[b]) \in Nat
        BY <1>8, ShapeFacts
      <4> QED BY <4>1, <4>2
    <3>2. InstrRuns(h, c, entry, Has(c, entry, b, i - 1), entry[b].when, d.blocks[b][i])
      BY <3>1 DEF CodeRuns
    <3>3. Has(d, entry, b, i - 1) = Has(c, entry, b, i - 1)
      BY <1>7, <1>8, <3>1, HasStays
    <3> QED BY <1>7, <3>2, <3>3, RunsStays
  <2>2. CASE b = c.pos /\ i \notin 1 .. Len(old)
    <3> DEFINE j == i - Len(old)
    <3>1. j \in 1 .. Len(instrs) /\ i = Len(old) + j /\ i - 1 = Len(old) + (j - 1) /\ j \in Nat
      BY <1>3, <1>4, <1>6, <1>9, <2>2
    <3>2. d.blocks[b][i] = instrs[j]
      BY <1>4, <1>6, <2>2, <3>1
    <3> HIDE DEF j
    <3>3. Have(c, entry, c.pos) \cup Stored(instrs, j - 1) \subseteq Has(d, entry, b, i - 1)
      <4>1. Stored(old, Len(old)) \subseteq Stored(new, i - 1)
        <5>1. \A k \in 1 .. Len(old) : k \in 1 .. i - 1 /\ new[k] = old[k]
          BY <1>3, <1>6, <3>1
        <5> QED BY <5>1 DEF Stored
      <4>2. Stored(instrs, j - 1) \subseteq Stored(new, i - 1)
        <5>1. \A k \in 1 .. j - 1 : Len(old) + k \in 1 .. i - 1 /\ new[Len(old) + k] = instrs[k]
          BY <1>3, <1>6, <3>1
        <5> QED BY <5>1 DEF Stored
      <4> QED BY <1>4, <2>2, <4>1, <4>2 DEF Has, Have, old
    <3>4. InstrRuns(h, c, entry, Have(c, entry, c.pos) \cup Stored(instrs, j - 1),
                    entry[c.pos].when, instrs[j])
      BY <3>1
    <3> QED BY <1>7, <2>2, <3>2, <3>3, <3>4, RunsStays
  <2> QED BY <2>1, <2>2
<1>10. CodeRuns(h, d, entry)
  BY <1>4, <1>8, <1>9 DEF CodeRuns
<1> QED BY <1>1, <1>4, <1>5, <1>6, <1>7, <1>10 DEF d, old, Added

\* Upcoming values, once the loads that compute them are there.
LEMMA UpcomingLoads ==
  ASSUME NEW h, NEW c, NEW d, Shaped(c), Shaped(d), NEW row, IsSeq(row),
         Len(d.blocks[c.pos]) >= Len(c.blocks[c.pos]) + Len(row), Len(d.blocks) >= Len(c.blocks),
         \A i \in 1 .. Len(row) : d.blocks[c.pos][Len(c.blocks[c.pos]) + i] = Load(row[i])
  PROVE  Fetched(h, d, Upcoming(c, Len(row)), row)
<1> DEFINE n == Len(c.blocks[c.pos])
           vs == Upcoming(c, Len(row))
<1>1. Len(row) \in Nat
  BY SeqFacts
<1>2. vs = [i \in 1 .. Len(row) |-> <<c.pos, n + i>>]
  BY DEF Upcoming
<1>3. IsSeq(vs) /\ Len(vs) = Len(row)
  BY <1>1, <1>2, FunSeq
<1>4. n \in Nat /\ c.pos \in DOMAIN d.blocks /\ DOMAIN d.blocks[c.pos] = 1 .. Len(d.blocks[c.pos])
      /\ Len(d.blocks[c.pos]) \in Nat /\ Len(d.blocks[c.pos]) >= n + Len(row)
  BY ShapeFacts
<1> HIDE DEF n, vs
<1>5. ASSUME NEW i \in 1 .. Len(row)
      PROVE  IsLoad(d, vs[i]) /\ LoadType(h, d, vs[i]) = BoxType(h, row[i])
  <2>1. vs[i] = <<c.pos, n + i>> /\ n + i \in DOMAIN d.blocks[c.pos]
    BY <1>1, <1>2, <1>4
  <2>2. d.blocks[c.pos][n + i] = Load(row[i])
    BY DEF n
  <2>3. vs[i][1] = c.pos /\ vs[i][2] = n + i
    BY <2>1
  <2>4. IsAt(d, vs[i]) /\ InstrAt(d, vs[i]) = Load(row[i])
    BY <1>4, <2>1, <2>2, <2>3 DEF IsAt, InstrAt
  <2> QED BY <2>4 DEF IsLoad, LoadType, Load
<1> QED BY <1>3, <1>5 DEF AreLoads, Fetched, vs

LEMMA ReadRuns ==
  ASSUME NEW h, NEW c, NEW entry, CodeRuns(h, c, entry),
         NEW row, IsSeq(row), ToSet(row) \subseteq Have(c, entry, c.pos)
  PROVE  LET d == Read(c, row)
             vs == Upcoming(c, Len(row))
         IN  /\ CodeRuns(h, d, entry) /\ Keeps(c, d, entry, entry)
             /\ d.pos = c.pos /\ Len(d.blocks) = Len(c.blocks)
             /\ Fetched(h, d, vs, row)
<1> DEFINE instrs == [i \in DOMAIN row |-> Load(row[i])]
           d == Read(c, row)
<1>1. Len(row) \in Nat /\ DOMAIN row = 1 .. Len(row)
  BY SeqFacts
<1>2. IsSeq(instrs) /\ Len(instrs) = Len(row) /\ \A i \in 1 .. Len(row) : instrs[i] = Load(row[i])
  BY <1>1, FunSeq
<1>3. d = Build(c, instrs)
  BY DEF Read
<1> HIDE DEF instrs, d
<1>4. ASSUME NEW i \in 1 .. Len(instrs), NEW more, NEW when
      PROVE  InstrRuns(h, c, entry, Have(c, entry, c.pos) \cup more, when, instrs[i])
  <2>1. instrs[i] = Load(row[i]) /\ row[i] \in Have(c, entry, c.pos)
    BY <1>1, <1>2 DEF ToSet
  <2> QED BY <2>1 DEF InstrRuns, Load
<1>5. Added(h, c, d, entry, instrs)
  BY <1>2, <1>3, <1>4, BuildRuns
<1>6. Shaped(c) /\ Shaped(d) /\ Len(c.blocks) \in Nat /\ Len(c.blocks[c.pos]) \in Nat
  BY <1>5, ShapeFacts DEF Added, CodeRuns
<1>7. Fetched(h, d, Upcoming(c, Len(row)), row)
  <2>1. /\ Len(d.blocks[c.pos]) = Len(c.blocks[c.pos]) + Len(instrs) /\ Len(d.blocks) = Len(c.blocks)
        /\ \A i \in 1 .. Len(instrs) : d.blocks[c.pos][Len(c.blocks[c.pos]) + i] = instrs[i]
    BY <1>5 DEF Added
  <2>2. /\ Len(d.blocks[c.pos]) >= Len(c.blocks[c.pos]) + Len(row) /\ Len(d.blocks) >= Len(c.blocks)
    BY <1>1, <1>2, <1>6, <2>1
  <2>3. \A i \in 1 .. Len(row) : d.blocks[c.pos][Len(c.blocks[c.pos]) + i] = Load(row[i])
    BY <1>2, <2>1
  <2> QED BY <1>6, <2>2, <2>3, UpcomingLoads
<1> QED BY <1>5, <1>7 DEF Added, d

LEMMA WriteRuns ==
  ASSUME NEW h, NEW c, NEW entry, CodeRuns(h, c, entry), NEW row, IsSeq(row), NEW vs,
         Fills(h, c, vs, row)
  PROVE  LET d == Write(c, row, vs)
         IN  /\ CodeRuns(h, d, entry) /\ Keeps(c, d, entry, entry)
             /\ d.pos = c.pos /\ Len(d.blocks) = Len(c.blocks)
             /\ Have(c, entry, c.pos) \cup ToSet(row) \subseteq Have(d, entry, c.pos)
<1> DEFINE instrs == [i \in DOMAIN row |-> Store(row[i], vs[i])]
           d == Write(c, row, vs)
<1>1. Len(row) \in Nat /\ DOMAIN row = 1 .. Len(row)
  BY SeqFacts
<1>2. IsSeq(instrs) /\ Len(instrs) = Len(row) /\ \A i \in 1 .. Len(row) : instrs[i] = Store(row[i], vs[i])
  BY <1>1, FunSeq
<1>3. d = Build(c, instrs)
  BY DEF Write
<1> HIDE DEF instrs, d
<1>4. ASSUME NEW i \in 1 .. Len(instrs), NEW has, NEW when
      PROVE  InstrRuns(h, c, entry, has, when, instrs[i])
  <2>1. instrs[i] = Store(row[i], vs[i]) /\ Holds(h, c, vs[i], BoxType(h, row[i]))
    BY <1>2 DEF Fills
  <2> QED BY <2>1 DEF InstrRuns, Store
<1>5. Added(h, c, d, entry, instrs)
  BY <1>2, <1>3, <1>4, BuildRuns
<1>6. Shaped(c) /\ Shaped(d) /\ c.pos \in DOMAIN c.blocks /\ Len(c.blocks[c.pos]) \in Nat
  BY <1>5, ShapeFacts DEF Added, CodeRuns
<1>7. Have(c, entry, c.pos) \subseteq Have(d, entry, c.pos)
  BY <1>5, <1>6, HasStays DEF Added
<1>8. ASSUME NEW i \in 1 .. Len(row) PROVE row[i] \in Have(d, entry, c.pos)
  <2> DEFINE n == Len(c.blocks[c.pos])
             new == d.blocks[c.pos]
  <2>1. n + i \in 1 .. Len(new) /\ new[n + i] = Store(row[i], vs[i])
    BY <1>1, <1>2, <1>5, <1>6 DEF Added
  <2> HIDE DEF new, n
  <2>2. new[n + i].op = "store" /\ new[n + i].mb = row[i]
    BY <2>1 DEF Store
  <2>3. row[i] \in Stored(new, Len(new))
    BY <2>1, <2>2 DEF Stored
  <2> QED BY <2>3 DEF Have, Has, new
<1>9. ToSet(row) \subseteq Have(d, entry, c.pos)
  BY <1>1, <1>8 DEF ToSet
<1> QED BY <1>5, <1>7, <1>9 DEF Added, d

\* One more instruction.
LEMMA EndRuns ==
  ASSUME NEW h, NEW c, NEW entry, CodeRuns(h, c, entry), NEW instr,
         InstrRuns(h, c, entry, Have(c, entry, c.pos), entry[c.pos].when, instr)
  PROVE  Added(h, c, Build(c, <<instr>>), entry, <<instr>>)
<1> DEFINE instrs == <<instr>>
<1>1. IsSeq(instrs) /\ Len(instrs) = 1 /\ instrs[1] = instr
  BY OneSeq
<1> HIDE DEF instrs
<1>2. Keeps(c, c, entry, entry)
  BY DEF Keeps
<1>3. ASSUME NEW i \in 1 .. Len(instrs)
      PROVE  InstrRuns(h, c, entry, Have(c, entry, c.pos) \cup Stored(instrs, i - 1),
                       entry[c.pos].when, instrs[i])
  <2>1. instrs[i] = instr
    BY <1>1
  <2>2. Have(c, entry, c.pos) \subseteq Have(c, entry, c.pos) \cup Stored(instrs, i - 1)
    OBVIOUS
  <2> QED BY <1>2, <2>1, <2>2, RunsStays
<1>4. Added(h, c, Build(c, instrs), entry, instrs)
  BY <1>1, <1>3, BuildRuns
<1> QED BY <1>4 DEF instrs

LEMMA AtRuns ==
  ASSUME NEW h, NEW c, NEW entry, CodeRuns(h, c, entry), NEW b \in DOMAIN c.blocks
  PROVE  /\ CodeRuns(h, At(c, b), entry) /\ At(c, b).pos = b /\ At(c, b).blocks = c.blocks
         /\ Keeps(c, At(c, b), entry, entry) /\ \A a : Have(At(c, b), entry, a) = Have(c, entry, a)
<1>1. At(c, b) = [blocks |-> c.blocks, pos |-> b]
  BY DEF At, CodeRuns, Shaped
<1> DEFINE d == At(c, b)
<1>2. d.pos = b /\ d.blocks = c.blocks /\ d = [blocks |-> d.blocks, pos |-> d.pos]
  BY <1>1
<1> HIDE DEF d
<1>3. Keeps(c, d, entry, entry)
  BY <1>2 DEF Keeps
<1>4. \A a, k : Has(d, entry, a, k) = Has(c, entry, a, k)
  BY <1>2 DEF Has
<1>5. ASSUME NEW a \in DOMAIN d.blocks, NEW i \in DOMAIN d.blocks[a]
      PROVE  InstrRuns(h, d, entry, Has(d, entry, a, i - 1), entry[a].when, d.blocks[a][i])
  <2>1. InstrRuns(h, c, entry, Has(c, entry, a, i - 1), entry[a].when, c.blocks[a][i])
    BY <1>2 DEF CodeRuns
  <2> QED BY <1>2, <1>3, <1>4, <2>1, RunsStays
<1>6. Shaped(d)
  BY <1>2 DEF CodeRuns, Shaped
<1>7. CodeRuns(h, d, entry)
  BY <1>2, <1>5, <1>6 DEF CodeRuns
<1> QED BY <1>2, <1>3, <1>4, <1>7 DEF d, Have

\* more is a function like old up to n, and goes on as new does.
GoesOn(n, k, old, new, more) ==
    /\ \A b \in 1 .. n : more[b] = old[b]
    /\ \A i \in 1 .. k : more[n + i] = new[i]

LEMMA Longer ==
  ASSUME NEW n \in Nat, NEW k \in Nat, NEW old, NEW new
  PROVE  \E more : GoesOn(n, k, old, new, more)
<1> DEFINE both == [b \in 1 .. n + k |-> IF b <= n THEN old[b] ELSE new[b - n]]
<1>1. ASSUME NEW b \in 1 .. n PROVE both[b] = old[b]
  <2>1. b \in 1 .. n + k /\ b <= n
    OBVIOUS
  <2> QED BY <2>1
<1>2. ASSUME NEW i \in 1 .. k PROVE both[n + i] = new[i]
  <2>1. n + i \in 1 .. n + k /\ ~(n + i <= n) /\ n + i - n = i
    OBVIOUS
  <2>2. both[n + i] = new[n + i - n]
    BY <2>1
  <2> QED BY <2>1, <2>2
<1> QED BY <1>1, <1>2 DEF GoesOn

LEMMA ExtendRuns ==
  ASSUME NEW h, NEW c, NEW entry, CodeRuns(h, c, entry),
         NEW new, IsSeq(new), NEW more,
         \A b \in DOMAIN c.blocks : more[b] = entry[b],
         \A i \in 1 .. Len(new) :
           LET b == Len(c.blocks) + i
           IN  /\ IsSeq(new[i]) /\ \A fact \in more[b].when : fact[1][1] # b
               /\ \A j \in DOMAIN new[i] :
                    InstrRuns(h, Extend(c, new), more, more[b].has \cup Stored(new[i], j - 1),
                              more[b].when, new[i][j])
  PROVE  CodeRuns(h, Extend(c, new), more) /\ Keeps(c, Extend(c, new), entry, more)
<1> DEFINE n == Len(c.blocks)
           d == Extend(c, new)
<1>1. /\ d.pos = c.pos /\ d.blocks = c.blocks \o new
      /\ d = [blocks |-> d.blocks, pos |-> d.pos]
  BY DEF Extend
<1>2. \A i \in 1 .. Len(new) :
        /\ IsSeq(new[i]) /\ \A fact \in more[n + i].when : fact[1][1] # n + i
        /\ \A j \in DOMAIN new[i] :
             InstrRuns(h, d, more, more[n + i].has \cup Stored(new[i], j - 1),
                       more[n + i].when, new[i][j])
  OBVIOUS
<1>3. Shaped(c) /\ IsSeq(c.blocks) /\ n \in Nat /\ DOMAIN c.blocks = 1 .. n /\ Len(new) \in Nat
  BY SeqFacts DEF CodeRuns, Shaped
<1> HIDE DEF d
<1>4. /\ IsSeq(d.blocks) /\ Len(d.blocks) = n + Len(new) /\ DOMAIN d.blocks = 1 .. n + Len(new)
      /\ \A b \in 1 .. n : d.blocks[b] = c.blocks[b]
      /\ \A i \in 1 .. Len(new) : d.blocks[n + i] = new[i]
  BY <1>1, <1>3, ConcatSeq
<1>5. Keeps(c, d, entry, more)
  <2>1. \A b \in 1 .. n : b \in 1 .. n + Len(new)
    BY <1>3
  <2> QED BY <1>3, <1>4, <2>1 DEF Keeps
<1>6. ASSUME NEW b \in DOMAIN d.blocks
      PROVE  b \in 1 .. n \/ (b - n \in 1 .. Len(new) /\ b = n + (b - n))
  <2>1. b \in 1 .. n + Len(new)
    BY <1>4
  <2> HIDE DEF n
  <2> QED BY <1>3, <2>1
<1>7. Shaped(d)
  <2>1. ASSUME NEW b \in DOMAIN d.blocks PROVE IsSeq(d.blocks[b])
    <3>1. CASE b \in 1 .. n
      BY <1>3, <1>4, <3>1 DEF Shaped
    <3>2. CASE b - n \in 1 .. Len(new) /\ b = n + (b - n)
      <4>1. d.blocks[n + (b - n)] = new[b - n] /\ IsSeq(new[b - n])
        BY <1>2, <1>4, <3>2
      <4> QED BY <3>2, <4>1
    <3> QED BY <1>6, <3>1, <3>2
  <2>2. {1, 2} \subseteq DOMAIN d.blocks /\ d.pos \in DOMAIN d.blocks
    BY <1>1, <1>3, <1>5 DEF Shaped, Keeps
  <2> QED BY <1>1, <1>4, <2>1, <2>2 DEF Shaped
<1>8. ASSUME NEW b \in DOMAIN d.blocks
      PROVE  /\ \A fact \in more[b].when : fact[1][1] # b
             /\ \A i \in DOMAIN d.blocks[b] :
                  InstrRuns(h, d, more, Has(d, more, b, i - 1), more[b].when, d.blocks[b][i])
  <2>1. CASE b \in 1 .. n
    <3>1. /\ b \in DOMAIN c.blocks /\ d.blocks[b] = c.blocks[b] /\ more[b] = entry[b]
      BY <1>3, <1>4, <2>1
    <3>2. \A fact \in more[b].when : fact[1][1] # b
      BY <3>1 DEF CodeRuns
    <3>3. ASSUME NEW i \in DOMAIN d.blocks[b]
          PROVE  InstrRuns(h, d, more, Has(d, more, b, i - 1), more[b].when, d.blocks[b][i])
      <4>1. InstrRuns(h, c, entry, Has(c, entry, b, i - 1), entry[b].when, c.blocks[b][i])
        BY <3>1 DEF CodeRuns
      <4>2. Has(d, more, b, i - 1) = Has(c, entry, b, i - 1)
        BY <3>1 DEF Has
      <4> QED BY <1>5, <3>1, <4>1, <4>2, RunsStays
    <3> QED BY <3>2, <3>3
  <2>2. CASE b - n \in 1 .. Len(new) /\ b = n + (b - n)
    <3> DEFINE i == b - n
    <3>1. /\ i \in 1 .. Len(new) /\ b = n + i
      BY <2>2
    <3>2. d.blocks[b] = new[i] /\ \A j : Has(d, more, b, j) = more[b].has \cup Stored(new[i], j)
      BY <1>4, <3>1 DEF Has
    <3> HIDE DEF i
    <3>3. /\ \A fact \in more[b].when : fact[1][1] # b
          /\ \A j \in DOMAIN new[i] :
               InstrRuns(h, d, more, more[b].has \cup Stored(new[i], j - 1), more[b].when, new[i][j])
      BY <1>2, <3>1
    <3> QED BY <3>2, <3>3
  <2> QED BY <1>6, <2>1, <2>2
<1>9. more[1] = Nothing /\ more[2] = Nothing
  BY <1>3, <1>5 DEF Keeps, CodeRuns, Shaped
<1> QED BY <1>5, <1>7, <1>8, <1>9 DEF CodeRuns, d

\* The blocks to come after those of c, by what they have when entered.
Plain(has) == [has |-> has, when |-> {}]

\* d is c with k more blocks, the i-th of which is entered with has[i] written.
Opens(h, c, d, k, has, entry, more) ==
    /\ CodeRuns(h, d, more) /\ Keeps(c, d, entry, more)
    /\ \A i \in 1 .. k : more[Len(c.blocks) + i] = Plain(has[i])

\* new_basic_block
LEMMA AddRuns ==
  ASSUME NEW h, NEW c, NEW entry, CodeRuns(h, c, entry), NEW k \in Nat, NEW has
  PROVE  LET d == AddBlocks(c, k)
             n == Len(c.blocks)
         IN  /\ d.pos = c.pos /\ Len(d.blocks) = n + k /\ DOMAIN d.blocks = 1 .. n + k
             /\ \E more : Opens(h, c, d, k, has, entry, more)
<1> DEFINE n == Len(c.blocks)
           new == [i \in 1 .. k |-> <<>>]
           d == AddBlocks(c, k)
           in == [i \in 1 .. k |-> Plain(has[i])]
<1>1. IsSeq(new) /\ Len(new) = k /\ \A i \in 1 .. k : new[i] = <<>>
  BY FunSeq
<1>2. IsSeq(<<>>) /\ DOMAIN <<>> = {}
  BY DEF IsSeq, ToSet
<1>3. d = Extend(c, new) /\ d.pos = c.pos /\ d.blocks = c.blocks \o new
  BY DEF AddBlocks, Extend
<1> HIDE DEF new, d
<1>4. n \in Nat /\ DOMAIN c.blocks = 1 .. n /\ IsSeq(c.blocks)
  BY ShapeFacts DEF CodeRuns, Shaped
<1>5. /\ Len(d.blocks) = n + k /\ DOMAIN d.blocks = 1 .. n + k
  <2>1. /\ Len(c.blocks \o new) = n + Len(new) /\ DOMAIN (c.blocks \o new) = 1 .. n + Len(new)
    BY <1>1, <1>4, ConcatSeq
  <2> QED BY <1>1, <1>3, <2>1
<1> HIDE DEF n
<1>6. PICK more : /\ \A b \in 1 .. n : more[b] = entry[b]
                  /\ \A i \in 1 .. k : more[n + i] = Plain(has[i])
  <2>1. \A i \in 1 .. k : in[i] = Plain(has[i])
    OBVIOUS
  <2> HIDE DEF in
  <2>2. PICK more : GoesOn(n, k, entry, in, more)
    BY <1>4, Longer
  <2> QED BY <2>1, <2>2 DEF GoesOn
<1>7. ASSUME NEW i \in 1 .. Len(new)
      PROVE  /\ IsSeq(new[i]) /\ \A fact \in more[n + i].when : fact[1][1] # n + i
             /\ \A j \in DOMAIN new[i] :
                  InstrRuns(h, Extend(c, new), more, more[n + i].has \cup Stored(new[i], j - 1),
                            more[n + i].when, new[i][j])
  <2>1. new[i] = <<>> /\ more[n + i] = Plain(has[i])
    BY <1>1, <1>6
  <2>2. more[n + i].when = {}
    BY <2>1 DEF Plain
  <2> QED BY <1>2, <2>1, <2>2
<1>8. CodeRuns(h, d, more) /\ Keeps(c, d, entry, more)
  BY <1>1, <1>3, <1>4, <1>6, <1>7, ExtendRuns DEF n
<1> QED BY <1>3, <1>5, <1>6, <1>8 DEF n, d, Opens

\* The block of one variant: fields, stores, and a branch.
LEMMA VariantRuns ==
  ASSUME NEW h, NEW d, NEW entry, NEW b \in DOMAIN d.blocks, b # 0,
         NEW sum, IsLoad(d, sum), NEW i, <<sum, i>> \in entry[b].when,
         NEW fields \in Nat, NEW row, IsSeq(row), NEW rest, IsSeq(rest), Len(row) = fields + Len(rest),
         \A x \in LoadType(h, d, sum) :
           x.tag = i - 1 => \A j \in 1 .. fields : x.fields[j] \in BoxType(h, row[j]),
         \A j \in 1 .. Len(rest) : Holds(h, d, rest[j], BoxType(h, row[fields + j])),
         NEW target, Reaches(d, entry, entry[b].has \cup ToSet(row), {}, target),
         d.blocks[b] = VariantBlock(b, sum, i, fields, row, rest, target)
  PROVE  LET block == VariantBlock(b, sum, i, fields, row, rest, target)
         IN  /\ IsSeq(block)
             /\ \A j \in DOMAIN block :
                  InstrRuns(h, d, entry, entry[b].has \cup Stored(block, j - 1), entry[b].when, block[j])
<1> DEFINE first == [j \in 1 .. fields |-> Field(sum, i, j)]
           value(j) == IF j <= fields THEN <<b, j>> ELSE rest[j - fields]
           second == [j \in DOMAIN row |-> Store(row[j], value(j))]
           block == VariantBlock(b, sum, i, fields, row, rest, target)
           s == first \o second
           end == Branch(target)
<1>1. IsSeq(first) /\ Len(first) = fields
  BY FunSeq
<1>2. IsSeq(second) /\ Len(second) = Len(row) /\ Len(row) \in Nat /\ DOMAIN row = 1 .. Len(row)
  <2>1. Len(row) \in Nat /\ DOMAIN row = 1 .. Len(row)
    BY SeqFacts
  <2>2. second = [j \in 1 .. Len(row) |-> second[j]]
    BY <2>1
  <2> HIDE DEF second
  <2> QED BY <2>1, <2>2, FunSeq
<1>3. \A j \in 1 .. fields : first[j] = Field(sum, i, j)
  OBVIOUS
<1>4. \A j \in 1 .. Len(row) : second[j] = Store(row[j], value(j))
  BY <1>2
<1>5. block = s \o <<end>>
  BY DEF VariantBlock
<1>6. Len(rest) \in Nat
  BY SeqFacts
<1>7. /\ \A j \in 1 .. fields : value(j) = <<b, j>>
      /\ \A j \in 1 .. Len(rest) : value(fields + j) = rest[j]
  BY <1>6
<1> HIDE DEF first, second, value, block, end
<1>8. /\ IsSeq(s) /\ Len(s) = fields + Len(row)
      /\ \A j \in 1 .. fields : s[j] = first[j]
      /\ \A j \in 1 .. Len(row) : s[fields + j] = second[j]
  <2>1. /\ IsSeq(s) /\ Len(s) = Len(first) + Len(second)
        /\ \A j \in 1 .. Len(first) : s[j] = first[j]
        /\ \A j \in 1 .. Len(second) : s[Len(first) + j] = second[j]
    BY <1>1, <1>2, ConcatSeq
  <2> HIDE DEF s
  <2> QED BY <1>1, <1>2, <2>1
<1> HIDE DEF s
<1>9. /\ IsSeq(block) /\ DOMAIN block = 1 .. Len(s) + 1
      /\ \A j \in 1 .. Len(s) : block[j] = s[j]
      /\ block[Len(s) + 1] = end
  <2>1. IsSeq(s)
    BY <1>8
  <2>2. /\ IsSeq(s \o <<end>>) /\ DOMAIN (s \o <<end>>) = 1 .. Len(s) + 1
        /\ \A j \in 1 .. Len(s) : (s \o <<end>>)[j] = s[j]
        /\ (s \o <<end>>)[Len(s) + 1] = end
    BY <2>1, SnocSeq
  <2> QED BY <1>5, <2>2
<1>10. /\ \A j \in 1 .. fields : j \in DOMAIN block /\ block[j] = Field(sum, i, j)
       /\ \A j \in 1 .. Len(row) : /\ fields + j \in 1 .. fields + Len(row)
                                   /\ block[fields + j] = Store(row[j], value(j))
  <2>1. ASSUME NEW j \in 1 .. fields PROVE j \in 1 .. Len(s)
    BY <1>2, <1>8
  <2>2. ASSUME NEW j \in 1 .. Len(row) PROVE fields + j \in 1 .. Len(s)
    BY <1>2, <1>8
  <2>3. 1 .. Len(s) \subseteq DOMAIN block
    BY <1>2, <1>8, <1>9
  <2> QED BY <1>3, <1>4, <1>8, <1>9, <2>1, <2>2, <2>3
<1>11. d.blocks[b] = block
  BY DEF block
<1>12. ASSUME NEW j \in 1 .. Len(row) PROVE Holds(h, d, value(j), BoxType(h, row[j]))
  <2>1. CASE j \in 1 .. fields
    <3>1. value(j) = <<b, j>> /\ value(j)[1] = b /\ value(j)[2] = j
      BY <1>7, <2>1
    <3>2. IsAt(d, value(j)) /\ InstrAt(d, value(j)) = Field(sum, i, j)
      BY <1>10, <1>11, <2>1, <3>1 DEF IsAt, InstrAt
    <3>3. \A x \in LoadType(h, d, sum) : x.tag = i - 1 => x.fields[j] \in BoxType(h, row[j])
      BY <2>1
    <3>4. Yields(h, d, Field(sum, i, j), BoxType(h, row[j]))
      BY <3>3 DEF Yields, Field
    <3> QED BY <3>1, <3>2, <3>4 DEF Holds
  <2>2. CASE j \notin 1 .. fields
    <3>1. j - fields \in 1 .. Len(rest) /\ j = fields + (j - fields)
      BY <1>2, <1>6, <2>2
    <3>2. value(fields + (j - fields)) = rest[j - fields]
      BY <1>7, <3>1
    <3>3. Holds(h, d, rest[j - fields], BoxType(h, row[fields + (j - fields)]))
      BY <3>1
    <3> QED BY <3>1, <3>2, <3>3
  <2> QED BY <2>1, <2>2
<1>13. ASSUME NEW j \in DOMAIN block
       PROVE  InstrRuns(h, d, entry, entry[b].has \cup Stored(block, j - 1), entry[b].when, block[j])
  <2>1. CASE j \in 1 .. fields
    <3>1. block[j] = Field(sum, i, j)
      BY <1>10, <2>1
    <3>2. block[j].op = "field" /\ block[j].sum = sum /\ block[j].tag = i
      BY <3>1 DEF Field
    <3> QED BY <3>2 DEF InstrRuns
  <2>2. CASE j - fields \in 1 .. Len(row) /\ j = fields + (j - fields)
    <3>1. block[j] = Store(row[j - fields], value(j - fields))
      BY <1>10, <2>2
    <3>2. Holds(h, d, value(j - fields), BoxType(h, row[j - fields]))
      BY <1>12, <2>2
    <3> QED BY <3>1, <3>2 DEF InstrRuns, Store
  <2>3. CASE j = fields + Len(row) + 1
    <3>1. ASSUME NEW k \in 1 .. Len(row) PROVE row[k] \in Stored(block, fields + Len(row))
      <4>1. fields + k \in 1 .. fields + Len(row) /\ block[fields + k] = Store(row[k], value(k))
        BY <1>10
      <4>2. block[fields + k].op = "store" /\ block[fields + k].mb = row[k]
        BY <4>1 DEF Store
      <4> QED BY <4>1, <4>2 DEF Stored
    <3>2. ToSet(row) \subseteq Stored(block, fields + Len(row)) /\ j - 1 = fields + Len(row)
      BY <1>2, <2>3, <3>1 DEF ToSet
    <3>3. Reaches(d, entry, entry[b].has \cup Stored(block, j - 1), {}, target)
      BY <3>2 DEF Reaches
    <3>4. block[j] = Branch(target)
      BY <1>8, <1>9, <2>3 DEF end
    <3> QED BY <3>3, <3>4 DEF InstrRuns, Branch
  <2>4. j \in 1 .. fields \/ (j - fields \in 1 .. Len(row) /\ j = fields + (j - fields))
          \/ j = fields + Len(row) + 1
    BY <1>2, <1>8, <1>9
  <2> QED BY <2>1, <2>2, <2>3, <2>4
<1> QED BY <1>9, <1>13 DEF block

\* What is taken out of the variant that sum is in, and the values rest, may go
\* into the mailboxes of that variant, and its target be entered then.
HandsOver(h, c, entry, sum, widths, rows, rest, targets) ==
    /\ \A x \in LoadType(h, c, sum) :
         /\ x.tag \in Nat /\ x.tag + 1 \in 1 .. Len(widths)
         /\ \A j \in 1 .. widths[x.tag + 1] : x.fields[j] \in BoxType(h, rows[x.tag + 1][j])
    /\ \A i \in 1 .. Len(widths) :
         /\ IsSeq(rows[i]) /\ Len(rows[i]) = widths[i] + Len(rest)
         /\ \A j \in 1 .. Len(rest) : LoadType(h, c, rest[j]) \subseteq BoxType(h, rows[i][widths[i] + j])
         /\ Reaches(c, entry, Have(c, entry, c.pos) \cup ToSet(rows[i]), {}, targets[i])

LEMMA LoadHolds ==
  ASSUME NEW h, NEW c, Shaped(c), NEW v, IsLoad(c, v), NEW T, LoadType(h, c, v) \subseteq T
  PROVE  Holds(h, c, v, T)
<1>1. v[1] # 0
  BY ShapeFacts DEF IsLoad, IsAt
<1> QED BY <1>1 DEF Holds, IsLoad, Yields, LoadType

LEMMA LoadSelects ==
  ASSUME NEW h, NEW c, Shaped(c), NEW v, IsLoad(c, v), NEW to,
         \A x \in LoadType(h, c, v) : x.tag \in Nat /\ x.tag + 1 \in DOMAIN to
  PROVE  Selects(h, c, v, to)
<1>1. v[1] # 0
  BY ShapeFacts DEF IsLoad, IsAt
<1>2. Holds(h, c, v, LoadType(h, c, v))
  BY LoadHolds
<1> QED BY <1>1, <1>2 DEF Selects

LEMMA DestructureRuns ==
  ASSUME NEW h, NEW c, NEW entry, CodeRuns(h, c, entry),
         NEW sum, IsLoad(c, sum), NEW widths \in Seq(Nat), NEW rest, AreLoads(c, rest),
         NEW rows, NEW targets, HandsOver(h, c, entry, sum, widths, rows, rest, targets)
  PROVE  LET d == Destructure(c, sum, widths, rows, rest, targets)
         IN  \E more : CodeRuns(h, d, more) /\ Keeps(c, d, entry, more)
<1> DEFINE n == Len(c.blocks)
           k == Len(widths)
           at == c.pos
           ts == [i \in DOMAIN widths |-> n + i]
           t == Switch(sum, ts)
           new == [i \in DOMAIN widths |->
              VariantBlock(n + i, sum, i, widths[i], rows[i], rest, targets[i])]
           e == Extend(c, new)
           d == Destructure(c, sum, widths, rows, rest, targets)
           here == Have(c, entry, at)
           in == [i \in 1 .. k |-> [has |-> here, when |-> {<<sum, i>>}]]
<1>1. d = Extend(Build(c, <<t>>), new)
  BY DEF Destructure
<1>2. /\ k \in Nat /\ DOMAIN widths = 1 .. k /\ \A i \in 1 .. k : widths[i] \in Nat
      /\ n \in Nat /\ DOMAIN c.blocks = 1 .. n /\ at \in 1 .. n
      /\ IsSeq(c.blocks) /\ Shaped(c)
  BY ShapeFacts DEF CodeRuns, Shaped
<1>3. /\ Len(new) = k /\ IsSeq(new)
      /\ \A i \in 1 .. k : new[i] = VariantBlock(n + i, sum, i, widths[i], rows[i], rest, targets[i])
  <2>1. new = [i \in 1 .. k |-> new[i]]
    BY <1>2
  <2>2. Len(new) = k /\ IsSeq(new)
    <3> HIDE DEF new, k
    <3> QED BY <1>2, <2>1, FunSeq
  <2> QED BY <1>2, <2>2
<1>4. d = Build(e, <<t>>)
  <2> HIDE DEF new, d, t
  <2> QED BY <1>1, <1>2, <1>3, BuildExtend
<1>5. /\ e.pos = at /\ e.blocks = c.blocks \o new
  BY DEF Extend
<1>6. DOMAIN ts = 1 .. k /\ \A i \in 1 .. k : ts[i] = n + i
  BY <1>2
<1>7. t.op = "switch" /\ t.on = sum /\ t.to = ts
  BY DEF Switch
<1> HIDE DEF new, d, e, t, ts
<1>8. /\ DOMAIN e.blocks = 1 .. n + k /\ \A b \in 1 .. n : e.blocks[b] = c.blocks[b]
      /\ \A i \in 1 .. k : e.blocks[n + i] = new[i]
  <2>1. IsSeq(c.blocks) /\ IsSeq(new) /\ Len(new) = k
    BY <1>2, <1>3
  <2>2. /\ DOMAIN (c.blocks \o new) = 1 .. n + Len(new)
        /\ \A b \in 1 .. n : (c.blocks \o new)[b] = c.blocks[b]
        /\ \A i \in 1 .. Len(new) : (c.blocks \o new)[n + i] = new[i]
    BY <2>1, ConcatSeq
  <2> QED BY <1>5, <2>1, <2>2
<1> HIDE DEF n, k, at, here
<1>10. \A i \in 1 .. k : in[i].has = here /\ in[i].when = {<<sum, i>>}
  OBVIOUS
<1> HIDE DEF in
<1>9. PICK more :
        /\ \A b \in 1 .. n : more[b] = entry[b] /\ b \in 1 .. n + k
        /\ \A i \in 1 .. k : /\ more[n + i] = in[i] /\ n + i \notin 1 .. n
                             /\ n + i \in 1 .. n + k /\ n + i # 0
  <2>1. PICK more : GoesOn(n, k, entry, in, more)
    BY <1>2, Longer
  <2>2. ASSUME NEW i \in 1 .. k
        PROVE  n + i \in 1 .. n + k /\ n + i \notin 1 .. n /\ n + i # 0
    BY <1>2
  <2>3. 1 .. n \subseteq 1 .. n + k
    BY <1>2
  <2> QED BY <2>1, <2>2, <2>3 DEF GoesOn
<1>11. Keeps(c, e, entry, more)
  BY <1>2, <1>8, <1>9 DEF Keeps
<1>12. IsLoad(e, sum) /\ LoadType(h, e, sum) = LoadType(h, c, sum)
  BY <1>11, LoadStays
<1>13. IsSeq(rest) /\ AreLoads(e, rest) /\ LoadTypes(h, e, rest) = LoadTypes(h, c, rest)
  BY <1>11, LoadsStay DEF AreLoads
<1>14. \A j \in 1 .. Len(rest) : IsLoad(e, rest[j]) /\ LoadType(h, e, rest[j]) = LoadType(h, c, rest[j])
  BY <1>11, LoadStays DEF AreLoads
<1>15. \A j \in 1 .. Len(rest) : \A T :
         LoadType(h, c, rest[j]) \subseteq T => Holds(h, e, rest[j], T)
  <2>1. ASSUME NEW v, IsLoad(c, v), NEW T, LoadType(h, c, v) \subseteq T PROVE Holds(h, e, v, T)
    BY <1>2, <1>11, <2>1, LoadHolds, HoldsStays
  <2> QED BY <2>1 DEF AreLoads
<1>16. ASSUME NEW i \in 1 .. k
       PROVE  /\ IsSeq(new[i]) /\ \A fact \in more[n + i].when : fact[1][1] # n + i
              /\ \A j \in DOMAIN new[i] :
                   InstrRuns(h, e, more, more[n + i].has \cup Stored(new[i], j - 1),
                             more[n + i].when, new[i][j])
  <2> DEFINE b == n + i
             w == widths[i]
             row == rows[i]
             target == targets[i]
  <2>1. /\ IsSeq(row) /\ Len(row) = w + Len(rest) /\ w \in Nat
        /\ \A j \in 1 .. Len(rest) : LoadType(h, c, rest[j]) \subseteq BoxType(h, row[w + j])
        /\ Reaches(c, entry, here \cup ToSet(row), {}, target)
    BY <1>2 DEF k, here, at, HandsOver
  <2>2. ASSUME NEW x \in LoadType(h, e, sum), x.tag = i - 1
        PROVE  \A j \in 1 .. w : x.fields[j] \in BoxType(h, row[j])
    <3>1. x.tag + 1 = i
      BY <2>2
    <3>2. \A j \in 1 .. widths[x.tag + 1] : x.fields[j] \in BoxType(h, rows[x.tag + 1][j])
      BY <1>12 DEF HandsOver
    <3> QED BY <3>1, <3>2
  <2>3. new[i] = VariantBlock(b, sum, i, w, row, rest, target) /\ e.blocks[b] = new[i]
    BY <1>3, <1>8
  <2>4. /\ b \in DOMAIN e.blocks /\ b # 0 /\ more[b].has = here /\ more[b].when = {<<sum, i>>}
    BY <1>8, <1>9, <1>10
  <2>5. Reaches(e, more, here \cup ToSet(row), {}, target)
    BY <1>11, <2>1, ReachesStays
  <2>6. sum[1] \in 1 .. n
    BY <1>2 DEF IsLoad, IsAt
  <2> HIDE DEF b, w, row, target
  <2>7. \A j \in 1 .. Len(rest) : Holds(h, e, rest[j], BoxType(h, row[w + j]))
    BY <1>15, <2>1
  <2>8. LET block == VariantBlock(b, sum, i, w, row, rest, target)
        IN  /\ IsSeq(block)
            /\ \A j \in DOMAIN block :
                 InstrRuns(h, e, more, more[b].has \cup Stored(block, j - 1), more[b].when, block[j])
    <3>1. <<sum, i>> \in more[b].when
      BY <2>4
    <3>2. Reaches(e, more, more[b].has \cup ToSet(row), {}, target)
      BY <2>4, <2>5
    <3>3. e.blocks[b] = VariantBlock(b, sum, i, w, row, rest, target)
      BY <2>3
    <3> QED BY <1>12, <1>13, <2>1, <2>2, <2>4, <2>7, <3>1, <3>2, <3>3, VariantRuns
  <2>9. \A fact \in more[b].when : fact[1][1] # b
    BY <1>9, <2>4, <2>6 DEF b
  <2> QED BY <2>3, <2>8, <2>9 DEF b
<1>17. CodeRuns(h, e, more)
  <2>1. \A b \in DOMAIN c.blocks : more[b] = entry[b]
    BY <1>2, <1>9
  <2>2. \A i \in 1 .. Len(new) :
          LET b == Len(c.blocks) + i
          IN  /\ IsSeq(new[i]) /\ \A fact \in more[b].when : fact[1][1] # b
              /\ \A j \in DOMAIN new[i] :
                   InstrRuns(h, Extend(c, new), more, more[b].has \cup Stored(new[i], j - 1),
                             more[b].when, new[i][j])
    BY <1>3, <1>16 DEF e, n
  <2> QED BY <1>3, <2>1, <2>2, ExtendRuns DEF e
<1>18. InstrRuns(h, e, more, Have(e, more, at), more[at].when, t)
  <2>1. here \subseteq Have(e, more, at)
    BY <1>2, <1>11, <1>17, HasStays DEF CodeRuns, here
  <2>2. ASSUME NEW j \in 1 .. k PROVE Reaches(e, more, Have(e, more, at), {<<sum, j>>}, ts[j])
    BY <1>6, <1>8, <1>9, <1>10, <2>1 DEF Reaches
  <2>3. \A x \in LoadType(h, e, sum) : x.tag \in Nat /\ x.tag + 1 \in DOMAIN ts
    BY <1>6, <1>12 DEF HandsOver, k
  <2>4. Selects(h, e, sum, ts)
    BY <1>12, <1>17, <2>3, LoadSelects DEF CodeRuns
  <2> QED BY <1>6, <1>7, <2>2, <2>4 DEF InstrRuns
<1>19. Added(h, e, d, more, <<t>>)
  BY <1>4, <1>5, <1>17, <1>18, EndRuns
<1>20. CodeRuns(h, d, more) /\ Keeps(e, d, more, more)
  BY <1>19 DEF Added
<1> QED BY <1>11, <1>20, KeepsFurther DEF d

-----------------------------------------------------------------------------
(* Activations.  base is a set of mailboxes written before anything that   *)
(* an activation emits.                                                    *)

ExitRowOf(h, n) == AnonymousRow("exit", n, h.nout[n])

\* The mailboxes of the wires out of S.
Boxes(h, S) == UNION {ToSet(OutsOf(h, s)) : s \in S}

\* What is written once a dataflow parent has come as far as f.
Known(h, base, f) ==
    base \cup Boxes(h, ChildrenOf(h, f.node) \ f.left)
         \cup (IF TheChild(h, f.node, "Output") \in f.left THEN {} ELSE ToSet(f.outputs))

\* The block b is entered with has written.
Enters(c, entry, b, has) == b \in DOMAIN c.blocks /\ entry[b] = Plain(has)

\* Values of the types S can be put in the mailboxes row.
Takes(h, row, S) == \A i \in 1 .. Len(row) : S[i] \subseteq BoxType(h, row[i])

\* What is in the mailboxes row is of the types S.
Gives(h, row, S) == \A i \in 1 .. Len(row) : BoxType(h, row[i]) \subseteq S[i]

InputsHold(h, c, vs, S) == \A i \in 1 .. Len(vs) : Holds(h, c, vs[i], S[i])

DataflowRuns(h, c, f) ==
    /\ Len(f.inputs) = Entering(h, f.node) /\ InputsHold(h, c, f.inputs, TypesIn(h, f.node))
    /\ Len(f.outputs) = Leaving(h, f.node) /\ Takes(h, f.outputs, TypesOut(h, f.node))
    /\ h.kind[f.node] = "DataflowBlock" => f.outputs = InsOf(h, TheChild(h, f.node, "Output"))

ConditionalRuns(h, c, entry, base, f) ==
    /\ Fetched(h, c, f.inputs, InsOf(h, f.node))
    /\ f.home \in DOMAIN c.blocks /\ base \subseteq Have(c, entry, f.home)
    /\ Enters(c, entry, f.exit, base \cup ToSet(ExitRowOf(h, f.node)))
    /\ \A i \in 1 .. Len(f.cases) :
         Enters(c, entry, f.cases[i], base \cup ToSet(CaseRowOf(h, h.kids[f.node][i])))

\* What is written when the block m of the CFG n is entered.
Within(h, base, n, m) == base \cup ToSet(BlockRowOf(h, n, m)) \cup Boxes(h, Adds(h, n, m))

CfgRuns(h, c, entry, base, f) ==
    /\ Len(f.outputs) = h.nout[f.node] /\ Takes(h, f.outputs, h.types[f.node])
    /\ \A m \in CfgBlocks(h, f.node) : Enters(c, entry, f.bb[m], Within(h, base, f.node, m))
    /\ f.next > 2 => ToSet(f.outputs) \subseteq Have(c, entry, f.bb[h.kids[f.node][2]])

FrameRuns(h, c, entry, base, f) ==
    /\ Boxes(h, h.scope[f.node]) \subseteq base
    /\ f.is = "dataflow" => DataflowRuns(h, c, f)
    /\ f.is = "conditional" => ConditionalRuns(h, c, entry, base, f)
    /\ f.is = "cfg" => CfgRuns(h, c, entry, base, f)

\* What the activation f, called when fbase was written, relies on when g, which
\* it called when gbase was, returns to it.
LinkRuns(h, c, entry, fbase, f, gbase, g) ==
    /\ f.is = "dataflow" =>
         /\ g.is = "dataflow" => Known(h, fbase, f) \subseteq gbase \cup ToSet(g.outputs)
         /\ g.is = "conditional" => Known(h, fbase, f) \subseteq Have(c, entry, g.exit)
         /\ g.is = "cfg" => Known(h, fbase, f) \subseteq
              entry[g.bb[h.kids[g.node][2]]].has \cup ToSet(g.outputs)
    /\ f.is = "conditional" => entry[f.exit].has \subseteq gbase \cup ToSet(g.outputs)
    /\ f.is = "cfg" => entry[f.bb[g.node]].has \subseteq gbase

StackRuns(h, c, entry, bases, s) ==
    /\ \A k \in 1 .. Len(s) : FrameRuns(h, c, entry, bases[k], s[k])
    /\ \A k \in 1 .. Len(s) - 1 : LinkRuns(h, c, entry, bases[k], s[k], bases[k + 1], s[k + 1])
    /\ Len(s) > 0 /\ s[Len(s)].is = "dataflow" =>
         Known(h, bases[Len(s)], s[Len(s)]) \subseteq Have(c, entry, c.pos)

Runs(h, c, s) == \E entry, bases : CodeRuns(h, c, entry) /\ StackRuns(h, c, entry, bases, s)

\* The blocks an activation refers to.
RefersTo(h, c, f) ==
    /\ f.is = "conditional" => f.exit \in DOMAIN c.blocks
    /\ f.is = "cfg" => /\ h.kids[f.node][2] \in CfgBlocks(h, f.node)
                       /\ \A m \in CfgBlocks(h, f.node) : f.bb[m] \in DOMAIN c.blocks

LEMMA FrameRunsStays ==
  ASSUME NEW h, NEW c, NEW d, NEW entry, NEW more, Keeps(c, d, entry, more), Shaped(c), Shaped(d),
         NEW base, NEW f, FrameRuns(h, c, entry, base, f),
         f.is = "cfg" => h.kids[f.node][2] \in CfgBlocks(h, f.node)
  PROVE  FrameRuns(h, d, more, base, f)
<1>1. \A b, has : Enters(c, entry, b, has) => Enters(d, more, b, has)
  BY DEF Enters, Keeps
<1>2. \A b \in DOMAIN c.blocks : b \in DOMAIN d.blocks /\ Have(c, entry, b) \subseteq Have(d, more, b)
  BY HasStays DEF Keeps
<1>3. ASSUME f.is = "dataflow" PROVE DataflowRuns(h, d, f)
  <2>1. DataflowRuns(h, c, f)
    BY <1>3 DEF FrameRuns
  <2>2. InputsHold(h, d, f.inputs, TypesIn(h, f.node))
    BY <2>1, HoldsStays DEF DataflowRuns, InputsHold
  <2> QED BY <2>1, <2>2 DEF DataflowRuns
<1>4. ASSUME f.is = "conditional" PROVE ConditionalRuns(h, d, more, base, f)
  <2>1. ConditionalRuns(h, c, entry, base, f)
    BY <1>4 DEF FrameRuns
  <2>2. Fetched(h, d, f.inputs, InsOf(h, f.node))
    BY <2>1, FetchedStays DEF ConditionalRuns
  <2>3. f.home \in DOMAIN d.blocks /\ base \subseteq Have(d, more, f.home)
    BY <1>2, <2>1 DEF ConditionalRuns
  <2> QED BY <1>1, <2>1, <2>2, <2>3 DEF ConditionalRuns
<1>5. ASSUME f.is = "cfg" PROVE CfgRuns(h, d, more, base, f)
  <2>1. CfgRuns(h, c, entry, base, f)
    BY <1>5 DEF FrameRuns
  <2>2. f.bb[h.kids[f.node][2]] \in DOMAIN c.blocks
    BY <1>5, <2>1 DEF CfgRuns, Enters
  <2>3. f.next > 2 => ToSet(f.outputs) \subseteq Have(d, more, f.bb[h.kids[f.node][2]])
    BY <1>2, <2>1, <2>2 DEF CfgRuns
  <2> QED BY <1>1, <2>1, <2>3 DEF CfgRuns
<1> QED BY <1>3, <1>4, <1>5 DEF FrameRuns

\* What links to an activation does not depend on how far it has come.
SameLink(f, g) ==
    /\ g.is = f.is /\ g.node = f.node
    /\ f.is \in {"dataflow", "cfg"} => g.outputs = f.outputs
    /\ f.is = "conditional" => g.exit = f.exit
    /\ f.is = "cfg" => g.bb = f.bb

LEMMA LinkStays ==
  ASSUME NEW h, NEW c, NEW d, NEW entry, NEW more, Keeps(c, d, entry, more), Shaped(c), Shaped(d),
         NEW fbase, NEW f, NEW gbase, NEW g, LinkRuns(h, c, entry, fbase, f, gbase, g),
         RefersTo(h, c, f), RefersTo(h, c, g), Calls(h, f, g), NEW r, SameLink(g, r)
  PROVE  LinkRuns(h, d, more, fbase, f, gbase, r)
<1>1. \A b \in DOMAIN c.blocks : more[b] = entry[b] /\ Have(c, entry, b) \subseteq Have(d, more, b)
  BY HasStays DEF Keeps
<1>2. ASSUME f.is = "dataflow"
      PROVE  /\ r.is = "dataflow" => Known(h, fbase, f) \subseteq gbase \cup ToSet(r.outputs)
             /\ r.is = "conditional" => Known(h, fbase, f) \subseteq Have(d, more, r.exit)
             /\ r.is = "cfg" => Known(h, fbase, f) \subseteq
                  more[r.bb[h.kids[r.node][2]]].has \cup ToSet(r.outputs)
  <2>1. r.is = "dataflow" => Known(h, fbase, f) \subseteq gbase \cup ToSet(r.outputs)
    BY <1>2 DEF SameLink, LinkRuns
  <2>2. r.is = "conditional" => Known(h, fbase, f) \subseteq Have(d, more, r.exit)
    BY <1>1, <1>2 DEF SameLink, LinkRuns, RefersTo
  <2>3. ASSUME r.is = "cfg"
        PROVE  Known(h, fbase, f) \subseteq more[r.bb[h.kids[r.node][2]]].has \cup ToSet(r.outputs)
    <3>1. g.bb[h.kids[g.node][2]] \in DOMAIN c.blocks /\ g.is = "cfg"
      BY <2>3 DEF RefersTo, SameLink
    <3>2. r.bb[h.kids[r.node][2]] = g.bb[h.kids[g.node][2]] /\ r.outputs = g.outputs
      BY <3>1 DEF SameLink
    <3> QED BY <1>1, <1>2, <3>1, <3>2 DEF LinkRuns
  <2> QED BY <2>1, <2>2, <2>3
<1>3. ASSUME f.is = "conditional" PROVE more[f.exit].has \subseteq gbase \cup ToSet(r.outputs)
  BY <1>1, <1>3 DEF SameLink, LinkRuns, RefersTo, Calls
<1>4. ASSUME f.is = "cfg" PROVE more[f.bb[r.node]].has \subseteq gbase
  <2>1. r.node = g.node /\ g.node \in CfgBlocks(h, f.node)
    BY <1>4 DEF SameLink, Calls, CfgBlocks
  <2> QED BY <1>1, <1>4, <2>1 DEF LinkRuns, RefersTo
<1> QED BY <1>2, <1>3, <1>4 DEF LinkRuns

\* The stack of h is made of activations that call one another.
Wired(h, s) ==
    /\ IsSeq(s)
    /\ \A k \in 1 .. Len(s) : s[k].is = "cfg" => h.kids[s[k].node][2] \in CfgBlocks(h, s[k].node)
    /\ \A k \in 1 .. Len(s) - 1 : Calls(h, s[k], s[k + 1])

LEMMA RefersToAll ==
  ASSUME NEW h, NEW c, NEW entry, NEW bases, NEW s, StackRuns(h, c, entry, bases, s), Wired(h, s)
  PROVE  \A k \in 1 .. Len(s) : RefersTo(h, c, s[k])
<1> SUFFICES ASSUME NEW k \in 1 .. Len(s) PROVE RefersTo(h, c, s[k])
  OBVIOUS
<1>1. FrameRuns(h, c, entry, bases[k], s[k])
  BY DEF StackRuns
<1>2. s[k].is = "conditional" => s[k].exit \in DOMAIN c.blocks
  BY <1>1 DEF FrameRuns, ConditionalRuns, Enters
<1>3. s[k].is = "cfg" => \A m \in CfgBlocks(h, s[k].node) : s[k].bb[m] \in DOMAIN c.blocks
  BY <1>1 DEF FrameRuns, CfgRuns, Enters
<1> QED BY <1>2, <1>3 DEF RefersTo, Wired

LEMMA NextRuns ==
  ASSUME NEW h, NEW c, NEW d, NEW entry, NEW more, Keeps(c, d, entry, more), Shaped(c), Shaped(d),
         NEW s, NEW t, Wired(h, s), s # <<>>, Same(s, t),
         NEW bases, NEW next, \A k \in 1 .. Len(s) - 1 : next[k] = bases[k],
         StackRuns(h, c, entry, bases, s),
         \A k \in Len(s) .. Len(t) : FrameRuns(h, d, more, next[k], t[k]),
         \A k \in Len(s) .. Len(t) - 1 : LinkRuns(h, d, more, next[k], t[k], next[k + 1], t[k + 1]),
         Len(t) >= Len(s) => next[Len(s)] = bases[Len(s)] /\ SameLink(s[Len(s)], t[Len(s)]),
         Len(t) > 0 /\ t[Len(t)].is = "dataflow" =>
           Known(h, next[Len(t)], t[Len(t)]) \subseteq Have(d, more, d.pos)
  PROVE  StackRuns(h, d, more, next, t)
<1> DEFINE n == Len(s)
<1>1. n \in Nat \ {0} /\ Len(t) \in Nat /\ n - 1 <= Len(t)
      /\ \A k \in 1 .. n - 1 : t[k] = s[k] /\ k \in 1 .. n
  BY SeqFacts DEF Same, Wired
<1>2. ASSUME NEW k \in 1 .. Len(t) PROVE FrameRuns(h, d, more, next[k], t[k])
  <2>1. CASE k \in n .. Len(t)
    BY <2>1
  <2>2. CASE k \in 1 .. n - 1
    <3>1. FrameRuns(h, c, entry, bases[k], s[k]) /\ t[k] = s[k] /\ next[k] = bases[k]
      BY <1>1, <2>2 DEF StackRuns
    <3>2. s[k].is = "cfg" => h.kids[s[k].node][2] \in CfgBlocks(h, s[k].node)
      BY <1>1, <2>2 DEF Wired
    <3> QED BY <3>1, <3>2, FrameRunsStays
  <2> QED BY <1>1, <2>1, <2>2
<1>3. \A k \in 1 .. n : RefersTo(h, c, s[k])
  BY RefersToAll
<1>4. ASSUME NEW k \in 1 .. Len(t) - 1
      PROVE  LinkRuns(h, d, more, next[k], t[k], next[k + 1], t[k + 1])
  <2>1. CASE k \in n .. Len(t) - 1
    BY <2>1
  <2>2. CASE k \in 1 .. n - 1
    <3>1. /\ LinkRuns(h, c, entry, bases[k], s[k], bases[k + 1], s[k + 1])
          /\ Calls(h, s[k], s[k + 1]) /\ next[k] = bases[k] /\ t[k] = s[k]
          /\ k \in 1 .. n /\ k + 1 \in 1 .. n
      BY <1>1, <2>2 DEF StackRuns, Wired
    <3>2. next[k + 1] = bases[k + 1] /\ SameLink(s[k + 1], t[k + 1])
      <4>1. CASE k + 1 = n
        <5>1. Len(t) >= n
          BY <1>1, <4>1
        <5> QED BY <4>1, <5>1
      <4>2. CASE k + 1 # n
        <5>1. k + 1 \in 1 .. n - 1
          BY <1>1, <2>2, <4>2
        <5> QED BY <1>1, <5>1 DEF SameLink
      <4> QED BY <4>1, <4>2
    <3>3. RefersTo(h, c, s[k]) /\ RefersTo(h, c, s[k + 1])
      BY <1>3, <3>1
    <3> QED BY <3>1, <3>2, <3>3, LinkStays
  <2> QED BY <1>1, <2>1, <2>2
<1> QED BY <1>2, <1>4 DEF StackRuns

\* The innermost activation goes on.
LEMMA ReplaceRuns ==
  ASSUME NEW h, NEW c, NEW d, NEW entry, NEW more, Keeps(c, d, entry, more),
         Shaped(c), CodeRuns(h, d, more),
         NEW s, Wired(h, s), s # <<>>, NEW bases, StackRuns(h, c, entry, bases, s),
         NEW f, FrameRuns(h, d, more, bases[Len(s)], f), SameLink(s[Len(s)], f),
         f.is = "dataflow" => Known(h, bases[Len(s)], f) \subseteq Have(d, more, d.pos)
  PROVE  Runs(h, d, Append(Front(s), f))
<1> DEFINE n == Len(s)
           t == Append(Front(s), f)
<1>1. Same(s, t) /\ Len(t) = n /\ t[n] = f /\ n \in Nat \ {0}
  BY ReplaceFacts, SeqFacts DEF Wired
<1> HIDE DEF t
<1>2. n .. Len(t) = {n} /\ n .. Len(t) - 1 = {}
  BY <1>1
<1>3. Shaped(d)
  BY DEF CodeRuns
<1>4. StackRuns(h, d, more, bases, t)
  <2>1. \A k \in n .. Len(t) : FrameRuns(h, d, more, bases[k], t[k])
    BY <1>1, <1>2
  <2>2. Len(t) > 0 /\ t[Len(t)].is = "dataflow" =>
          Known(h, bases[Len(t)], t[Len(t)]) \subseteq Have(d, more, d.pos)
    BY <1>1
  <2> QED BY <1>1, <1>2, <1>3, <2>1, <2>2, NextRuns
<1> QED BY <1>4 DEF Runs, t

\* It calls another.
LEMMA PushRuns ==
  ASSUME NEW h, NEW c, NEW d, NEW entry, NEW more, Keeps(c, d, entry, more),
         Shaped(c), CodeRuns(h, d, more),
         NEW s, Wired(h, s), s # <<>>, NEW bases, StackRuns(h, c, entry, bases, s),
         NEW f, FrameRuns(h, d, more, bases[Len(s)], f), SameLink(s[Len(s)], f),
         NEW g, NEW base, FrameRuns(h, d, more, base, g),
         LinkRuns(h, d, more, bases[Len(s)], f, base, g),
         g.is = "dataflow" => Known(h, base, g) \subseteq Have(d, more, d.pos)
  PROVE  Runs(h, d, Append(Append(Front(s), f), g))
<1> DEFINE n == Len(s)
           t == Append(Append(Front(s), f), g)
           next == [k \in 1 .. n + 1 |-> IF k = n + 1 THEN base ELSE bases[k]]
<1>1. Same(s, t) /\ Len(t) = n + 1 /\ t[n] = f /\ t[n + 1] = g /\ n \in Nat \ {0}
  BY PushFacts, SeqFacts DEF Wired
<1> HIDE DEF t, n
<1>2. n .. Len(t) = {n, n + 1} /\ n .. Len(t) - 1 = {n} /\ Len(t) = n + 1
  BY <1>1
<1>3. (\A k \in 1 .. n : next[k] = bases[k]) /\ next[n + 1] = base /\ n \in 1 .. n
  BY <1>1
<1> HIDE DEF next
<1>4. \A k \in n .. Len(t) : FrameRuns(h, d, more, next[k], t[k])
  BY <1>1, <1>2, <1>3 DEF n
<1>5. \A k \in n .. Len(t) - 1 : LinkRuns(h, d, more, next[k], t[k], next[k + 1], t[k + 1])
  <2>1. LinkRuns(h, d, more, bases[n], f, base, g)
    BY DEF n
  <2> QED BY <1>1, <1>2, <1>3, <2>1
<1>6. \A k \in 1 .. n - 1 : next[k] = bases[k]
  BY <1>1, <1>3
<1>7. next[n] = bases[n] /\ SameLink(s[n], t[n])
  BY <1>1, <1>3 DEF n
<1>8. t[Len(t)].is = "dataflow" => Known(h, next[Len(t)], t[Len(t)]) \subseteq Have(d, more, d.pos)
  BY <1>1, <1>3
<1>9. Shaped(d)
  BY DEF CodeRuns
<1>10. StackRuns(h, d, more, next, t)
  BY <1>1, <1>4, <1>5, <1>6, <1>7, <1>8, <1>9, NextRuns DEF n
<1> QED BY <1>10 DEF Runs, t

\* It returns.
LEMMA PopRuns ==
  ASSUME NEW h, NEW c, NEW d, NEW entry, NEW more, Keeps(c, d, entry, more),
         Shaped(c), CodeRuns(h, d, more),
         NEW s, Wired(h, s), s # <<>>, NEW bases, StackRuns(h, c, entry, bases, s),
         Len(s) > 1 /\ s[Len(s) - 1].is = "dataflow" =>
           Known(h, bases[Len(s) - 1], s[Len(s) - 1]) \subseteq Have(d, more, d.pos)
  PROVE  Runs(h, d, Front(s))
<1> DEFINE n == Len(s)
           t == Front(s)
<1>1. Same(s, t) /\ Len(t) = n - 1 /\ n \in Nat \ {0}
  BY FrontFacts DEF Wired
<1> HIDE DEF t
<1>2. n .. Len(t) = {} /\ n .. Len(t) - 1 = {} /\ ~(Len(t) >= n)
  BY <1>1
<1>3. ASSUME Len(t) > 0, t[Len(t)].is = "dataflow"
      PROVE  Known(h, bases[Len(t)], t[Len(t)]) \subseteq Have(d, more, d.pos)
  <2>1. n > 1 /\ Len(t) = n - 1 /\ n - 1 \in 1 .. n - 1
    BY <1>1, <1>3
  <2>2. t[n - 1] = s[n - 1]
    BY <1>1, <2>1 DEF Same
  <2> QED BY <1>3, <2>1, <2>2
<1>4. Shaped(d)
  BY DEF CodeRuns
<1>5. StackRuns(h, d, more, bases, t)
  BY <1>1, <1>2, <1>3, <1>4, NextRuns
<1> QED BY <1>5 DEF Runs, t

-----------------------------------------------------------------------------
(* What valid functions guarantee.                                         *)

LEMMA InsFacts ==
  ASSUME NEW h \in Hugrs, NEW n \in NodesOf(h)
  PROVE  /\ Len(h.ins[n]) \in Nat /\ DOMAIN h.ins[n] = 1 .. Len(h.ins[n])
         /\ IsSeq(InsOf(h, n)) /\ Len(InsOf(h, n)) = Len(h.ins[n])
         /\ \A i \in 1 .. Len(h.ins[n]) : /\ InsOf(h, n)[i] = WireBox(h.ins[n][i])
                                         /\ BoxType(h, InsOf(h, n)[i]) = InTypes(h, n)[i]
<1>1. h.ins[n] \in Seq(NodesOf(h) \X Nat)
  <2>1. h.ins \in [NodesOf(h) -> Seq(NodesOf(h) \X Nat)]
    BY HugrAssumption
  <2> QED BY <2>1
<1>2. Len(h.ins[n]) \in Nat /\ DOMAIN h.ins[n] = 1 .. Len(h.ins[n])
  BY <1>1
<1>3. InsOf(h, n) = [i \in 1 .. Len(h.ins[n]) |-> WireBox(h.ins[n][i])]
  BY <1>2 DEF InsOf
<1>4. IsSeq(InsOf(h, n)) /\ Len(InsOf(h, n)) = Len(h.ins[n])
  BY <1>2, <1>3, FunSeq
<1>5. ASSUME NEW i \in 1 .. Len(h.ins[n])
      PROVE  /\ InsOf(h, n)[i] = WireBox(h.ins[n][i])
             /\ BoxType(h, InsOf(h, n)[i]) = InTypes(h, n)[i]
  <2>1. InsOf(h, n)[i] = WireBox(h.ins[n][i])
    BY <1>3
  <2>2. BoxType(h, WireBox(h.ins[n][i])) = h.types[h.ins[n][i][1]][h.ins[n][i][2]]
    BY DEF BoxType, WireBox
  <2>3. InTypes(h, n)[i] = h.types[h.ins[n][i][1]][h.ins[n][i][2]]
    BY <1>2 DEF InTypes
  <2> QED BY <2>1, <2>2, <2>3
<1> QED BY <1>2, <1>4, <1>5

LEMMA OutsFacts ==
  ASSUME NEW h \in Hugrs, NEW n \in NodesOf(h)
  PROVE  /\ h.nout[n] \in Nat /\ IsSeq(OutsOf(h, n)) /\ Len(OutsOf(h, n)) = h.nout[n]
         /\ \A p \in 1 .. h.nout[n] : /\ OutsOf(h, n)[p] = WireBox(<<n, p>>)
                                      /\ BoxType(h, OutsOf(h, n)[p]) = h.types[n][p]
         /\ ToSet(OutsOf(h, n)) = {WireBox(<<n, p>>) : p \in 1 .. h.nout[n]}
<1>1. h.nout[n] \in Nat
  <2>1. h.nout \in [NodesOf(h) -> Nat]
    BY HugrAssumption
  <2> QED BY <2>1
<1>2. OutsOf(h, n) = [p \in 1 .. h.nout[n] |-> WireBox(<<n, p>>)]
  BY DEF OutsOf
<1>3. IsSeq(OutsOf(h, n)) /\ Len(OutsOf(h, n)) = h.nout[n]
  BY <1>1, <1>2, FunSeq
<1>4. ASSUME NEW p \in 1 .. h.nout[n]
      PROVE  /\ OutsOf(h, n)[p] = WireBox(<<n, p>>)
             /\ BoxType(h, OutsOf(h, n)[p]) = h.types[n][p]
  <2>1. OutsOf(h, n)[p] = WireBox(<<n, p>>)
    BY <1>2
  <2>2. BoxType(h, WireBox(<<n, p>>)) = h.types[n][p]
    BY DEF BoxType, WireBox
  <2> QED BY <2>1, <2>2
<1>5. ToSet(OutsOf(h, n)) = {WireBox(<<n, p>>) : p \in 1 .. h.nout[n]}
  BY <1>2 DEF ToSet
<1> QED BY <1>1, <1>3, <1>4, <1>5

LEMMA NoOuts ==
  ASSUME NEW h \in Hugrs, NEW n \in NodesOf(h), h.nout[n] = 0
  PROVE  ToSet(OutsOf(h, n)) = {}
<1>1. IsSeq(OutsOf(h, n)) /\ Len(OutsOf(h, n)) = 0
  BY OutsFacts
<1> QED BY <1>1, SeqFacts DEF ToSet

LEMMA WireIsOut ==
  ASSUME NEW h \in Hugrs, NEW n \in NodesOf(h), NEW i \in 1 .. Len(h.ins[n]),
         NEW m \in NodesOf(h), h.ins[n][i][1] = m, h.ins[n][i][2] \in 1 .. h.nout[m]
  PROVE  InsOf(h, n)[i] \in ToSet(OutsOf(h, m))
<1>1. InsOf(h, n)[i] = WireBox(<<m, h.ins[n][i][2]>>)
  BY InsFacts DEF WireBox
<1> QED BY <1>1, OutsFacts

LEMMA Fit ==
  ASSUME NEW h \in Hugrs, NEW n \in NodesOf(h)
  PROVE  TypesFit(h, n)
BY TypesAssumption

LEMMA InTypesFacts ==
  ASSUME NEW h \in Hugrs, NEW n \in NodesOf(h)
  PROVE  /\ InTypes(h, n) = [i \in 1 .. Len(h.ins[n]) |-> InTypes(h, n)[i]]
         /\ IsSeq(InTypes(h, n)) /\ Len(InTypes(h, n)) = Len(h.ins[n])
         /\ DOMAIN InTypes(h, n) = 1 .. Len(h.ins[n])
<1>1. Len(h.ins[n]) \in Nat /\ DOMAIN h.ins[n] = 1 .. Len(h.ins[n])
  BY InsFacts
<1>2. InTypes(h, n) = [i \in 1 .. Len(h.ins[n]) |-> InTypes(h, n)[i]]
  BY <1>1 DEF InTypes
<1>3. IsSeq(InTypes(h, n)) /\ Len(InTypes(h, n)) = Len(h.ins[n])
  <2> DEFINE S == InTypes(h, n)
  <2>1. S = [i \in 1 .. Len(h.ins[n]) |-> S[i]]
    BY <1>2
  <2> HIDE DEF S
  <2>2. IsSeq(S) /\ Len(S) = Len(h.ins[n])
    BY <1>1, <2>1, FunSeq
  <2> QED BY <2>2 DEF S
<1>4. DOMAIN InTypes(h, n) = 1 .. Len(h.ins[n])
  BY <1>1 DEF InTypes
<1> QED BY <1>2, <1>3, <1>4

\* The types of what has been read of the inputs of n.
LEMMA FetchedTypes ==
  ASSUME NEW h \in Hugrs, NEW n \in NodesOf(h), NEW c, NEW vs, Fetched(h, c, vs, InsOf(h, n))
  PROVE  /\ AreLoads(c, vs) /\ Len(vs) = Len(h.ins[n])
         /\ \A i \in 1 .. Len(h.ins[n]) : IsLoad(c, vs[i]) /\ LoadType(h, c, vs[i]) = InTypes(h, n)[i]
         /\ LoadTypes(h, c, vs) = InTypes(h, n)
<1>1. /\ AreLoads(c, vs) /\ Len(vs) = Len(h.ins[n])
      /\ \A i \in 1 .. Len(h.ins[n]) : IsLoad(c, vs[i]) /\ LoadType(h, c, vs[i]) = InTypes(h, n)[i]
  BY InsFacts DEF Fetched, AreLoads
<1>2. DOMAIN vs = 1 .. Len(h.ins[n])
  BY <1>1, SeqFacts DEF AreLoads
<1>3. LoadTypes(h, c, vs) = [i \in 1 .. Len(h.ins[n]) |-> LoadType(h, c, vs[i])]
  BY <1>2 DEF LoadTypes
<1>4. LoadTypes(h, c, vs) = InTypes(h, n)
  BY <1>1, <1>3, InTypesFacts
<1> QED BY <1>1, <1>4

LEMMA ScopeFacts ==
  ASSUME NEW h \in Hugrs, NEW p \in NodesOf(h), NEW n \in ChildrenOf(h, p)
  PROVE  /\ n \in NodesOf(h) /\ h.scope[n] = h.scope[p] \cup Adds(h, p, n)
         /\ IsRegion(h, p) => \A i \in 1 .. Len(h.ins[n]) :
              /\ h.ins[n][i][1] \in NodesOf(h)
              /\ h.ins[n][i][1] \in ChildrenOf(h, p) \cup h.scope[p]
              /\ h.ins[n][i][2] \in 1 .. h.nout[h.ins[n][i][1]]
         /\ h.kind[n] \in Silent \cup {"Output"} => h.nout[n] = 0
<1>1. n \in NodesOf(h)
  BY KidsFacts
<1>2. /\ DOMAIN h.ins[n] = 1 .. Len(h.ins[n])
      /\ \A i \in 1 .. Len(h.ins[n]) : h.ins[n][i][1] \in NodesOf(h)
  <2>1. h.ins \in [NodesOf(h) -> Seq(NodesOf(h) \X Nat)]
    BY HugrAssumption
  <2>2. h.ins[n] \in Seq(NodesOf(h) \X Nat)
    BY <1>1, <2>1
  <2>3. \A i \in 1 .. Len(h.ins[n]) : h.ins[n][i] \in NodesOf(h) \X Nat
    BY <2>2
  <2> QED BY <2>2, <2>3
<1> QED BY <1>1, <1>2, ScopeAssumption

-----------------------------------------------------------------------------
(* The emission goes well so far.                                          *)

RInv == Runs(hugr, Code, stack)

LEMMA Rerun ==
  ASSUME hugr' = hugr, NEW d, SetCode(d), Runs(hugr, d, stack')
  PROVE  RInv'
<1>1. d = [blocks |-> d.blocks, pos |-> d.pos]
  BY DEF Runs, CodeRuns, Shaped
<1>2. Code' = d
  BY <1>1 DEF SetCode, Code
<1> QED BY <1>2 DEF RInv

LEMMA IsWired ==
  ASSUME IInv
  PROVE  Wired(hugr, stack)
<1>1. /\ hugr \in Hugrs /\ IsSeq(stack)
      /\ \A k \in 1 .. Len(stack) : FrameOK(hugr, stack[k], Len(Code.blocks), mailboxes)
      /\ \A k \in 1 .. Len(stack) - 1 : Calls(hugr, stack[k], stack[k + 1])
  BY DEF IInv, Sound, FramesOK
<1>2. ASSUME NEW k \in 1 .. Len(stack), stack[k].is = "cfg"
      PROVE  hugr.kids[stack[k].node][2] \in CfgBlocks(hugr, stack[k].node)
  <2> DEFINE n == stack[k].node
  <2>1. n \in NodesOf(hugr) /\ hugr.kind[n] = "CFG"
    BY <1>1, <1>2 DEF FrameOK, IsCfg, IsDataflow, IsConditional
  <2> HIDE DEF n
  <2> QED BY <1>1, <2>1, CfgFacts DEF n, Exit
<1> QED BY <1>1, <1>2 DEF Wired

LEMMA NewKnown ==
  ASSUME NEW h \in Hugrs, NEW n \in NodesOf(h), IsRegion(h, n), NEW base,
         NEW f, f.node = n, f.left = ChildrenOf(h, n)
  PROVE  Known(h, base, f) = base
<1>1. TheChild(h, n, "Output") \in ChildrenOf(h, n)
  <2>1. PICK m \in ChildrenOf(h, n) : \A k \in ChildrenOf(h, n) : h.kind[k] = "Output" <=> k = m
    BY KidsFacts DEF ChildrenFit, HasOne
  <2>2. h.kind[m] = "Output"
    BY <2>1
  <2> QED BY <2>2 DEF TheChild
<1>2. Boxes(h, {}) = {}
  BY DEF Boxes
<1>3. ChildrenOf(h, f.node) \ f.left = {}
  OBVIOUS
<1> QED BY <1>1, <1>2, <1>3 DEF Known

\* A child n of a dataflow parent is about to be visited.
LEMMA VisitRuns ==
  ASSUME IInv, RInv, NEW n, Visit(n)
  PROVE  LET p == Top.node IN
         /\ hugr \in Hugrs /\ n \in NodesOf(hugr) /\ n \in ChildrenOf(hugr, p)
         /\ p \in NodesOf(hugr) /\ IsRegion(hugr, p)
         /\ Code.pos = pos /\ Code.blocks = blocks /\ IsSeq(stack) /\ stack # <<>>
         /\ Wired(hugr, stack) /\ SameLink(stack[Len(stack)], Visited(n))
         /\ Visited(n).is = "dataflow"
         /\ IsSeq(Top.inputs) /\ IsSeq(Top.outputs)
         /\ \E entry, bases : LET known == Known(hugr, bases[Len(stack)], Top) IN
              /\ CodeRuns(hugr, Code, entry) /\ StackRuns(hugr, Code, entry, bases, stack)
              /\ FrameRuns(hugr, Code, entry, bases[Len(stack)], Visited(n))
              /\ DataflowRuns(hugr, Code, Top)
              /\ known \subseteq Have(Code, entry, pos)
              /\ ToSet(InsOf(hugr, n)) \subseteq known
              /\ Boxes(hugr, hugr.scope[n]) \subseteq known
              /\ Known(hugr, bases[Len(stack)], Visited(n)) \subseteq known \cup ToSet(OutsOf(hugr, n))
                    \cup (IF hugr.kind[n] = "Output" THEN ToSet(Top.outputs) ELSE {})
<1> DEFINE v == Visited(n)
           p == Top.node
<1>1. /\ n \in NodesOf(hugr) /\ n \in ChildrenOf(hugr, p) /\ n \in Top.left
      /\ v.is = "dataflow" /\ v.node = p /\ v.left = Top.left \ {n}
      /\ v.inputs = Top.inputs /\ v.outputs = Top.outputs
      /\ IsDataflow(hugr, Top, Len(blocks), mailboxes)
  BY VisitFacts
<1> HIDE DEF v
<1>2. /\ hugr \in Hugrs /\ IsSeq(stack) /\ stack # <<>> /\ Top = stack[Len(stack)]
      /\ Top.is = "dataflow" /\ Len(stack) \in 1 .. Len(stack) /\ Len(stack) > 0
      /\ Code.pos = pos /\ Code.blocks = blocks
  BY TopFacts DEF Visit
<1>3. p \in NodesOf(hugr) /\ IsRegion(hugr, p) /\ IsSeq(Top.inputs) /\ IsSeq(Top.outputs)
  BY <1>1 DEF IsDataflow
<1>4. PICK entry, bases : CodeRuns(hugr, Code, entry) /\ StackRuns(hugr, Code, entry, bases, stack)
  BY DEF RInv, Runs
<1> DEFINE base == bases[Len(stack)]
           known == Known(hugr, base, Top)
<1>5. /\ FrameRuns(hugr, Code, entry, base, Top) /\ known \subseteq Have(Code, entry, pos)
  BY <1>2, <1>4 DEF StackRuns
<1> HIDE DEF base
<1>6. /\ Boxes(hugr, hugr.scope[p]) \subseteq base /\ DataflowRuns(hugr, Code, Top)
  BY <1>2, <1>5 DEF FrameRuns
<1>7. DataflowRuns(hugr, Code, v)
  BY <1>1, <1>6 DEF DataflowRuns
<1>8. FrameRuns(hugr, Code, entry, base, v)
  BY <1>1, <1>6, <1>7 DEF FrameRuns
<1>9. SameLink(Top, v)
  BY <1>1, <1>2 DEF SameLink
<1>10. base \subseteq known /\ \A s \in ChildrenOf(hugr, p) \ Top.left : ToSet(OutsOf(hugr, s)) \subseteq known
  BY DEF Known, Boxes
<1>11. \A s \in hugr.scope[p] : ToSet(OutsOf(hugr, s)) \subseteq known
  BY <1>6, <1>10 DEF Boxes
<1>12. ASSUME NEW i \in 1 .. Len(hugr.ins[n]) PROVE InsOf(hugr, n)[i] \in known
  <2> DEFINE m == hugr.ins[n][i][1]
  <2>1. /\ m \in NodesOf(hugr) /\ m \in ChildrenOf(hugr, p) \cup hugr.scope[p]
        /\ hugr.ins[n][i][2] \in 1 .. hugr.nout[m]
    BY <1>1, <1>2, <1>3, ScopeFacts
  <2>2. m \notin Top.left
    BY <1>1, <1>2, InsFacts DEF Visit, Ready
  <2>3. InsOf(hugr, n)[i] \in ToSet(OutsOf(hugr, m))
    BY <1>1, <1>2, <2>1, WireIsOut
  <2> QED BY <1>10, <1>11, <2>1, <2>2, <2>3
<1>13. ToSet(InsOf(hugr, n)) \subseteq known
  <2>1. DOMAIN InsOf(hugr, n) = 1 .. Len(hugr.ins[n])
    BY <1>1, <1>2, InsFacts, SeqFacts
  <2> QED BY <1>12, <2>1 DEF ToSet
<1>14. ASSUME NEW s \in hugr.scope[n] PROVE ToSet(OutsOf(hugr, s)) \subseteq known
  <2>1. s \in hugr.scope[p] \/ (s \in ChildrenOf(hugr, p) /\ s \in Before(hugr, n))
    BY <1>1, <1>2, <1>3, ScopeFacts DEF Adds
  <2>2. \A m \in Before(hugr, n) : m \notin Top.left
    BY DEF Before, Visit, Ready
  <2> QED BY <1>10, <1>11, <2>1, <2>2
<1>15. Boxes(hugr, hugr.scope[n]) \subseteq known
  BY <1>14 DEF Boxes
<1>16. Known(hugr, base, v) \subseteq known \cup ToSet(OutsOf(hugr, n))
                    \cup (IF hugr.kind[n] = "Output" THEN ToSet(Top.outputs) ELSE {})
  <2> DEFINE out == TheChild(hugr, p, "Output")
  <2>1. hugr.kind[n] = "Output" \/ n # out
    <3>1. HasOne(hugr, p, "Output")
      BY <1>2, <1>3, KidsFacts DEF ChildrenFit
    <3>2. hugr.kind[out] = "Output"
      BY <3>1 DEF HasOne, TheChild
    <3> QED BY <3>2
  <2>2. \A s \in ChildrenOf(hugr, p) \ v.left : s = n \/ s \in ChildrenOf(hugr, p) \ Top.left
    BY <1>1
  <2>3. Boxes(hugr, ChildrenOf(hugr, p) \ v.left) \subseteq
          Boxes(hugr, ChildrenOf(hugr, p) \ Top.left) \cup ToSet(OutsOf(hugr, n))
    BY <2>2 DEF Boxes
  <2>4. out \notin v.left => out \notin Top.left \/ hugr.kind[n] = "Output"
    BY <1>1, <2>1
  <2> HIDE DEF out
  <2>5. Known(hugr, base, v) = base \cup Boxes(hugr, ChildrenOf(hugr, p) \ v.left)
                         \cup (IF out \in v.left THEN {} ELSE ToSet(Top.outputs))
    BY <1>1 DEF Known, out
  <2>6. known = base \cup Boxes(hugr, ChildrenOf(hugr, p) \ Top.left)
                         \cup (IF out \in Top.left THEN {} ELSE ToSet(Top.outputs))
    BY DEF Known, out
  <2> QED BY <2>3, <2>4, <2>5, <2>6
<1>17. Wired(hugr, stack)
  BY IsWired
<1> QED BY <1>1, <1>2, <1>3, <1>4, <1>5, <1>6, <1>8, <1>9, <1>13, <1>15, <1>16, <1>17 DEF v, base

-----------------------------------------------------------------------------
(* Each step keeps it so.                                                  *)

LEMMA FetchedHold ==
  ASSUME NEW h, NEW c, Shaped(c), NEW vs, NEW row, IsSeq(row), Fetched(h, c, vs, row),
         NEW S, Gives(h, row, S)
  PROVE  InputsHold(h, c, vs, S) /\ Len(vs) = Len(row) /\ IsSeq(vs)
<1>1. Len(vs) = Len(row) /\ IsSeq(vs)
  BY DEF Fetched, AreLoads
<1>2. ASSUME NEW i \in 1 .. Len(row) PROVE Holds(h, c, vs[i], S[i])
  <2>1. IsLoad(c, vs[i])
    BY <1>1 DEF Fetched, AreLoads
  <2>2. LoadType(h, c, vs[i]) \subseteq S[i]
    BY DEF Fetched, Gives
  <2> QED BY <2>1, <2>2, LoadHolds
<1> QED BY <1>1, <1>2 DEF InputsHold

LEMMA ArgsRuns ==
  ASSUME IInv, NEW n \in NodesOf(hugr), NEW entry, CodeRuns(hugr, Code, entry),
         ToSet(InsOf(hugr, n)) \subseteq Have(Code, entry, pos)
  PROVE  LET c == ArgsRead(n) IN
         /\ CodeRuns(hugr, c, entry) /\ Keeps(Code, c, entry, entry)
         /\ c.pos = pos /\ Len(c.blocks) = Len(blocks)
         /\ Fetched(hugr, c, Args(n), InsOf(hugr, n))
         /\ Have(Code, entry, pos) \subseteq Have(c, entry, pos)
<1> DEFINE row == InsOf(hugr, n)
           c == Read(Code, row)
<1>1. hugr \in Hugrs /\ Code.pos = pos /\ Code.blocks = blocks
  BY DEF IInv, Code
<1>2. IsSeq(row) /\ Len(row) = Len(hugr.ins[n])
  BY <1>1, InsFacts
<1>3. ArgsRead(n) = c /\ Args(n) = Upcoming(Code, Len(row))
  BY <1>2, RowsAre DEF ArgsRead, Args
<1> HIDE DEF row
<1>4. /\ CodeRuns(hugr, c, entry) /\ Keeps(Code, c, entry, entry)
      /\ c.pos = pos /\ Len(c.blocks) = Len(blocks)
      /\ Fetched(hugr, c, Upcoming(Code, Len(row)), row)
  <2>1. ToSet(row) \subseteq Have(Code, entry, Code.pos)
    BY <1>1 DEF row
  <2> QED BY <1>1, <1>2, <2>1, ReadRuns
<1> HIDE DEF c
<1>5. Have(Code, entry, pos) \subseteq Have(c, entry, pos)
  <2>1. Shaped(Code) /\ Shaped(c)
    BY <1>4 DEF CodeRuns
  <2>2. pos \in DOMAIN Code.blocks
    BY <1>1, <2>1, ShapeFacts
  <2> QED BY <1>4, <2>1, <2>2, HasStays
<1> QED BY <1>3, <1>4, <1>5 DEF row

\* A child that calls no other emitter writes its outputs.
LEMMA VisitStraightRuns ==
  ASSUME IInv, NEW n, Visit(n), hugr' = hugr, NEW entry, NEW bases,
         CodeRuns(hugr, Code, entry), StackRuns(hugr, Code, entry, bases, stack),
         FrameRuns(hugr, Code, entry, bases[Len(stack)], Visited(n)),
         Wired(hugr, stack), SameLink(stack[Len(stack)], Visited(n)),
         NEW d, SetCode(d), NEW more, CodeRuns(hugr, d, more), Keeps(Code, d, entry, more),
         Known(hugr, bases[Len(stack)], Visited(n)) \subseteq Have(d, more, d.pos),
         stack' = ReplaceTop(Visited(n))
  PROVE  RInv'
<1> DEFINE v == Visited(n)
<1>1. IsSeq(stack) /\ stack # <<>> /\ stack' = Append(Front(stack), v)
  BY TopFacts DEF Visit, ReplaceTop
<1>2. Shaped(Code) /\ Shaped(d)
  BY DEF CodeRuns
<1>3. ~(v.is = "cfg")
  BY VisitFacts
<1> HIDE DEF v
<1>4. FrameRuns(hugr, d, more, bases[Len(stack)], v)
  BY <1>2, <1>3, FrameRunsStays DEF v
<1>5. Runs(hugr, d, Append(Front(stack), v))
  BY <1>1, <1>2, <1>4, ReplaceRuns DEF v
<1> QED BY <1>1, <1>5, Rerun

LEMMA InputRuns ==
  ASSUME IInv, RInv, NEW n, EmitInput(n)
  PROVE  RInv'
<1> DEFINE row == OutsOf(hugr, n)
           d == Write(Code, row, Top.inputs)
           v == Visited(n)
<1>1. /\ Visit(n) /\ hugr.kind[n] = "Input" /\ SetCode(d)
      /\ stack' = ReplaceTop(v) /\ hugr' = hugr
  BY RowsAre DEF EmitInput
<1>2. /\ hugr \in Hugrs /\ n \in NodesOf(hugr) /\ Code.pos = pos /\ Code.blocks = blocks
      /\ Top.node \in NodesOf(hugr) /\ IsRegion(hugr, Top.node) /\ n \in ChildrenOf(hugr, Top.node)
      /\ Wired(hugr, stack) /\ SameLink(stack[Len(stack)], v)
  BY <1>1, VisitRuns
<1>3. PICK entry, bases : LET known == Known(hugr, bases[Len(stack)], Top) IN
              /\ CodeRuns(hugr, Code, entry) /\ StackRuns(hugr, Code, entry, bases, stack)
              /\ FrameRuns(hugr, Code, entry, bases[Len(stack)], v)
              /\ DataflowRuns(hugr, Code, Top)
              /\ known \subseteq Have(Code, entry, pos)
              /\ Known(hugr, bases[Len(stack)], v) \subseteq known \cup ToSet(row)
                    \cup (IF hugr.kind[n] = "Output" THEN ToSet(Top.outputs) ELSE {})
  BY <1>1, VisitRuns
<1>4. n = TheChild(hugr, Top.node, "Input")
  BY <1>1, <1>2, TheChildIs
<1>5. IsSeq(row) /\ Len(row) = hugr.nout[n] /\ Len(Top.inputs) = hugr.nout[n]
      /\ \A i \in 1 .. hugr.nout[n] : BoxType(hugr, row[i]) = TypesIn(hugr, Top.node)[i]
  BY <1>2, <1>3, <1>4, OutsFacts DEF DataflowRuns, Entering, TypesIn
<1> HIDE DEF row
<1>6. Fills(hugr, Code, Top.inputs, row)
  BY <1>3, <1>5 DEF DataflowRuns, InputsHold, Fills
<1>7. /\ CodeRuns(hugr, d, entry) /\ Keeps(Code, d, entry, entry) /\ d.pos = pos
      /\ Have(Code, entry, pos) \cup ToSet(row) \subseteq Have(d, entry, pos)
  <2>1. /\ CodeRuns(hugr, d, entry) /\ Keeps(Code, d, entry, entry) /\ d.pos = Code.pos
        /\ Have(Code, entry, Code.pos) \cup ToSet(row) \subseteq Have(d, entry, Code.pos)
    BY <1>3, <1>5, <1>6, WriteRuns
  <2> HIDE DEF d
  <2> QED BY <1>2, <2>1
<1> HIDE DEF d, v
<1>8. Known(hugr, bases[Len(stack)], v) \subseteq Have(d, entry, d.pos)
  BY <1>1, <1>3, <1>7
<1> QED BY <1>1, <1>2, <1>3, <1>7, <1>8, VisitStraightRuns DEF v

LEMMA OutputRuns ==
  ASSUME IInv, RInv, NEW n, EmitOutput(n)
  PROVE  RInv'
<1> DEFINE c == ArgsRead(n)
           vs == Args(n)
           outs == Top.outputs
           d == Write(c, outs, vs)
           v == Visited(n)
<1>1. /\ Visit(n) /\ hugr.kind[n] = "Output" /\ SetCode(d)
      /\ stack' = ReplaceTop(v) /\ hugr' = hugr
  BY DEF EmitOutput
<1>2. /\ hugr \in Hugrs /\ n \in NodesOf(hugr) /\ Code.pos = pos /\ Code.blocks = blocks
      /\ Top.node \in NodesOf(hugr) /\ IsRegion(hugr, Top.node) /\ n \in ChildrenOf(hugr, Top.node)
      /\ Wired(hugr, stack) /\ SameLink(stack[Len(stack)], v) /\ IsSeq(outs)
  BY <1>1, VisitRuns
<1>3. PICK entry, bases : LET known == Known(hugr, bases[Len(stack)], Top) IN
              /\ CodeRuns(hugr, Code, entry) /\ StackRuns(hugr, Code, entry, bases, stack)
              /\ FrameRuns(hugr, Code, entry, bases[Len(stack)], v)
              /\ DataflowRuns(hugr, Code, Top)
              /\ known \subseteq Have(Code, entry, pos)
              /\ ToSet(InsOf(hugr, n)) \subseteq known
              /\ Known(hugr, bases[Len(stack)], v) \subseteq known \cup ToSet(OutsOf(hugr, n))
                    \cup (IF hugr.kind[n] = "Output" THEN ToSet(outs) ELSE {})
  BY <1>1, VisitRuns
<1> DEFINE known == Known(hugr, bases[Len(stack)], Top)
<1>4. n = TheChild(hugr, Top.node, "Output")
  BY <1>1, <1>2, TheChildIs
<1>5. ToSet(OutsOf(hugr, n)) = {}
  <2>1. hugr.nout[n] = 0
    BY <1>1, <1>2, ScopeFacts
  <2> QED BY <1>2, <2>1, NoOuts
<1>6. ToSet(InsOf(hugr, n)) \subseteq Have(Code, entry, pos)
  BY <1>3
<1>7. /\ CodeRuns(hugr, c, entry) /\ Keeps(Code, c, entry, entry) /\ c.pos = pos
      /\ Fetched(hugr, c, vs, InsOf(hugr, n))
      /\ Have(Code, entry, pos) \subseteq Have(c, entry, pos)
  BY <1>2, <1>3, <1>6, ArgsRuns
<1> HIDE DEF c, vs
<1>8. /\ Len(outs) = Len(hugr.ins[n])
      /\ \A i \in 1 .. Len(hugr.ins[n]) : InTypes(hugr, n)[i] \subseteq BoxType(hugr, outs[i])
  BY <1>3, <1>4 DEF DataflowRuns, Leaving, TypesOut, Takes
<1>85. IsSeq(outs)
  BY <1>2
<1> HIDE DEF outs
<1>9. Fills(hugr, c, vs, outs)
  <2> DEFINE S == [i \in 1 .. Len(outs) |-> BoxType(hugr, outs[i])]
             row == InsOf(hugr, n)
  <2>1. IsSeq(row) /\ Len(row) = Len(outs)
        /\ \A i \in 1 .. Len(row) : BoxType(hugr, row[i]) = InTypes(hugr, n)[i]
    BY <1>2, <1>8, InsFacts
  <2> HIDE DEF row
  <2>2. Gives(hugr, row, S)
    BY <1>8, <2>1 DEF Gives
  <2>3. \A i \in 1 .. Len(outs) : S[i] = BoxType(hugr, outs[i])
    OBVIOUS
  <2> HIDE DEF S
  <2>4. Shaped(c)
    BY <1>7 DEF CodeRuns
  <2>5. Fetched(hugr, c, vs, row)
    BY <1>7 DEF row
  <2>6. InputsHold(hugr, c, vs, S) /\ Len(vs) = Len(row)
    BY <2>1, <2>2, <2>4, <2>5, FetchedHold, ZenonT(60)
  <2> QED BY <2>1, <2>3, <2>6 DEF InputsHold, Fills
<1>10. /\ CodeRuns(hugr, d, entry) /\ Keeps(c, d, entry, entry) /\ d.pos = pos
       /\ Have(c, entry, pos) \cup ToSet(outs) \subseteq Have(d, entry, pos)
  <2>1. /\ CodeRuns(hugr, d, entry) /\ Keeps(c, d, entry, entry) /\ d.pos = c.pos
        /\ Have(c, entry, c.pos) \cup ToSet(outs) \subseteq Have(d, entry, c.pos)
    BY <1>7, <1>9, <1>85, WriteRuns
  <2> HIDE DEF d
  <2> QED BY <1>7, <2>1
<1> HIDE DEF d, v
<1> USE DEF outs
<1>11. Known(hugr, bases[Len(stack)], v) \subseteq Have(d, entry, d.pos)
  BY <1>1, <1>3, <1>5, <1>7, <1>10
<1>12. Keeps(Code, d, entry, entry)
  BY <1>7, <1>10, KeepsFurther
<1> QED BY <1>1, <1>2, <1>3, <1>10, <1>11, <1>12, VisitStraightRuns DEF v

LEMMA SilentRuns ==
  ASSUME IInv, RInv, NEW n, EmitSilent(n)
  PROVE  RInv'
<1> DEFINE v == Visited(n)
<1>1. /\ Visit(n) /\ hugr.kind[n] \in Silent /\ SetCode(Code)
      /\ stack' = ReplaceTop(v) /\ hugr' = hugr
  BY DEF EmitSilent, SetCode, Code
<1>2. /\ hugr \in Hugrs /\ n \in NodesOf(hugr) /\ Code.pos = pos
      /\ Top.node \in NodesOf(hugr) /\ n \in ChildrenOf(hugr, Top.node)
      /\ Wired(hugr, stack) /\ SameLink(stack[Len(stack)], v)
  BY <1>1, VisitRuns
<1>3. PICK entry, bases : LET known == Known(hugr, bases[Len(stack)], Top) IN
              /\ CodeRuns(hugr, Code, entry) /\ StackRuns(hugr, Code, entry, bases, stack)
              /\ FrameRuns(hugr, Code, entry, bases[Len(stack)], v)
              /\ known \subseteq Have(Code, entry, pos)
              /\ Known(hugr, bases[Len(stack)], v) \subseteq known \cup ToSet(OutsOf(hugr, n))
                    \cup (IF hugr.kind[n] = "Output" THEN ToSet(Top.outputs) ELSE {})
  BY <1>1, VisitRuns
<1>4. ToSet(OutsOf(hugr, n)) = {}
  <2>1. hugr.nout[n] = 0
    BY <1>1, <1>2, ScopeFacts
  <2> QED BY <1>2, <2>1, NoOuts
<1>5. Keeps(Code, Code, entry, entry)
  BY DEF Keeps
<1>6. hugr.kind[n] # "Output"
  BY <1>1 DEF Silent
<1> HIDE DEF v
<1>7. Known(hugr, bases[Len(stack)], v) \subseteq Have(Code, entry, Code.pos)
  BY <1>2, <1>3, <1>4, <1>6
<1> QED BY <1>1, <1>2, <1>3, <1>5, <1>7, VisitStraightRuns DEF v

\* Each instruction of a leaf computes what its wire may carry.
LEMMA LeafYields ==
  ASSUME hugr \in Hugrs, NEW n \in NodesOf(hugr), hugr.kind[n] \in Leaf,
         NEW c, NEW vs, Fetched(hugr, c, vs, InsOf(hugr, n))
  PROVE  LET instrs == LeafInstrs(n, vs)
         IN  /\ IsSeq(instrs) /\ Len(instrs) = hugr.nout[n]
             /\ \A p \in 1 .. hugr.nout[n] :
                  /\ Yields(hugr, c, instrs[p], hugr.types[n][p])
                  /\ \A entry, has, when : InstrRuns(hugr, c, entry, has, when, instrs[p])
<1> DEFINE instrs == LeafInstrs(n, vs)
           k == hugr.nout[n]
           S == InTypes(hugr, n)
           T == hugr.types[n]
<1>1. TypesFit(hugr, n) /\ AreLoads(c, vs) /\ LoadTypes(hugr, c, vs) = S /\ k \in Nat
  BY Fit, FetchedTypes, OutsFacts
<1>2. ASSUME NEW x, instrs = <<x>>, k = 1, Yields(hugr, c, x, T[1]),
             \A entry, has, when : InstrRuns(hugr, c, entry, has, when, x)
      PROVE  /\ IsSeq(instrs) /\ Len(instrs) = k
             /\ \A p \in 1 .. k :
                  /\ Yields(hugr, c, instrs[p], T[p])
                  /\ \A entry, has, when : InstrRuns(hugr, c, entry, has, when, instrs[p])
  <2>1. IsSeq(instrs) /\ Len(instrs) = 1 /\ instrs[1] = x
    BY <1>2, OneSeq
  <2> HIDE DEF instrs, k, T
  <2>2. \A p \in 1 .. k : p = 1
    BY <1>2
  <2> QED BY <1>2, <2>1, <2>2
<1>3. CASE hugr.kind[n] = "Tag"
  <2> DEFINE x == MakeTag(hugr.tag[n], vs)
  <2>1. instrs = <<x>> /\ k = 1
    BY <1>3, Fits DEF LeafInstrs, TagInstrs, RowsFit
  <2>2. x.op = "tag" /\ x.args = vs /\ x.tag = hugr.tag[n]
    BY DEF MakeTag
  <2> HIDE DEF x
  <2>3. \A a \in Picks(S) : [tag |-> hugr.tag[n], fields |-> a] \in T[1]
    BY <1>1, <1>3 DEF TypesFit, Guarded
  <2> HIDE DEF S, T
  <2>4. Yields(hugr, c, x, T[1])
    BY <1>1, <2>2, <2>3 DEF Yields
  <2>5. \A entry, has, when : InstrRuns(hugr, c, entry, has, when, x)
    BY <1>1, <2>2 DEF InstrRuns
  <2> QED BY <1>2, <2>1, <2>4, <2>5 DEF T
<1>4. CASE hugr.kind[n] = "LoadConstant"
  <2> DEFINE x == Constant(hugr.const[n])
  <2>1. instrs = <<x>> /\ k = 1
    BY <1>4, Fits DEF LeafInstrs, ConstantInstrs, RowsFit
  <2>2. x.op = "const" /\ x.const = hugr.const[n]
    BY DEF Constant
  <2> HIDE DEF x
  <2>3. hugr.const[n] \in T[1]
    BY <1>1, <1>4 DEF TypesFit, Guarded
  <2> HIDE DEF T
  <2>4. Yields(hugr, c, x, T[1])
    BY <2>2, <2>3 DEF Yields
  <2>5. \A entry, has, when : InstrRuns(hugr, c, entry, has, when, x)
    BY <2>2 DEF InstrRuns
  <2> QED BY <1>2, <2>1, <2>4, <2>5 DEF T
<1>5. CASE hugr.kind[n] = "Op"
  <2>1. instrs = [p \in 1 .. k |-> Apply(hugr.fn[n], vs, p)]
    BY <1>5 DEF LeafInstrs, Applied
  <2>2. \A a \in Picks(S) : \A p \in 1 .. k : Meaning(hugr.fn[n], a)[p] \in T[p]
    BY <1>1, <1>5 DEF TypesFit, Guarded
  <2> HIDE DEF instrs, k, S, T
  <2>3. IsSeq(instrs) /\ Len(instrs) = k
    BY <1>1, <2>1, FunSeq
  <2>4. ASSUME NEW p \in 1 .. k
        PROVE  /\ Yields(hugr, c, instrs[p], T[p])
               /\ \A entry, has, when : InstrRuns(hugr, c, entry, has, when, instrs[p])
    <3> DEFINE x == instrs[p]
    <3>1. x = Apply(hugr.fn[n], vs, p)
      BY <2>1
    <3> HIDE DEF x
    <3>2. x.op = "apply" /\ x.args = vs /\ x.f = hugr.fn[n] /\ x.port = p
      BY <3>1 DEF Apply
    <3>3. Yields(hugr, c, x, T[p])
      BY <1>1, <2>2, <3>2 DEF Yields
    <3>4. \A entry, has, when : InstrRuns(hugr, c, entry, has, when, x)
      BY <1>1, <3>2 DEF InstrRuns
    <3> QED BY <3>3, <3>4 DEF x
  <2> QED BY <2>3, <2>4 DEF instrs, k, T
<1> QED BY <1>3, <1>4, <1>5 DEF Leaf

LEMMA YieldsStays ==
  ASSUME NEW h, NEW c, NEW d, NEW entry, NEW more, Keeps(c, d, entry, more),
         NEW instr, NEW T, Yields(h, c, instr, T)
  PROVE  Yields(h, d, instr, T)
<1>1. \A v : IsLoad(c, v) => IsLoad(d, v) /\ LoadType(h, d, v) = LoadType(h, c, v)
  BY LoadStays
<1>2. \A vs : AreLoads(c, vs) => AreLoads(d, vs) /\ LoadTypes(h, d, vs) = LoadTypes(h, c, vs)
  BY LoadsStay
<1> QED BY <1>1, <1>2 DEF Yields

LEMMA LeafRuns ==
  ASSUME IInv, RInv, NEW n, EmitLeaf(n)
  PROVE  RInv'
<1> DEFINE c == ArgsRead(n)
           vs == Args(n)
           instrs == LeafInstrs(n, vs)
           k == hugr.nout[n]
           e == Build(c, instrs)
           results == Upcoming(c, Len(instrs))
           row == OutsOf(hugr, n)
           d == Write(e, row, results)
           v == Visited(n)
<1>1. /\ Visit(n) /\ hugr.kind[n] \in Leaf /\ SetCode(d)
      /\ stack' = ReplaceTop(v) /\ hugr' = hugr
  BY RowsAre DEF EmitLeaf
<1>2. /\ hugr \in Hugrs /\ n \in NodesOf(hugr) /\ Code.pos = pos
      /\ Wired(hugr, stack) /\ SameLink(stack[Len(stack)], v)
  BY <1>1, VisitRuns
<1>3. PICK entry, bases : LET known == Known(hugr, bases[Len(stack)], Top) IN
              /\ CodeRuns(hugr, Code, entry) /\ StackRuns(hugr, Code, entry, bases, stack)
              /\ FrameRuns(hugr, Code, entry, bases[Len(stack)], v)
              /\ known \subseteq Have(Code, entry, pos)
              /\ ToSet(InsOf(hugr, n)) \subseteq known
              /\ Known(hugr, bases[Len(stack)], v) \subseteq known \cup ToSet(row)
                    \cup (IF hugr.kind[n] = "Output" THEN ToSet(Top.outputs) ELSE {})
  BY <1>1, VisitRuns
<1>4. ToSet(InsOf(hugr, n)) \subseteq Have(Code, entry, pos)
  BY <1>3
<1>5. /\ CodeRuns(hugr, c, entry) /\ Keeps(Code, c, entry, entry) /\ c.pos = pos
      /\ Fetched(hugr, c, vs, InsOf(hugr, n))
      /\ Have(Code, entry, pos) \subseteq Have(c, entry, pos)
  BY <1>2, <1>3, <1>4, ArgsRuns
<1> HIDE DEF c, vs
<1>6. /\ IsSeq(instrs) /\ Len(instrs) = k
      /\ \A p \in 1 .. k :
           /\ Yields(hugr, c, instrs[p], hugr.types[n][p])
           /\ \A has, when : InstrRuns(hugr, c, entry, has, when, instrs[p])
  BY <1>1, <1>2, <1>5, LeafYields
<1>7. /\ IsSeq(row) /\ Len(row) = k /\ k \in Nat
      /\ \A p \in 1 .. k : BoxType(hugr, row[p]) = hugr.types[n][p]
  BY <1>2, OutsFacts
<1> HIDE DEF instrs, k, row
<1>8. Added(hugr, c, e, entry, instrs)
  BY <1>5, <1>6, BuildRuns
<1> HIDE DEF e
<1>9. /\ CodeRuns(hugr, e, entry) /\ Keeps(c, e, entry, entry) /\ e.pos = c.pos
      /\ Shaped(c) /\ Shaped(e)
  BY <1>5, <1>8 DEF Added, CodeRuns
<1>10. ASSUME NEW p \in 1 .. k PROVE Holds(hugr, e, results[p], BoxType(hugr, row[p]))
  <2> DEFINE at == Len(c.blocks[c.pos]) + p
             w == <<c.pos, at>>
  <2>1. results[p] = w
    BY <1>6 DEF Upcoming
  <2>2. /\ c.pos \in DOMAIN e.blocks /\ c.pos # 0
        /\ at \in DOMAIN e.blocks[c.pos] /\ e.blocks[c.pos][at] = instrs[p]
    <3>1. c.pos \in 1 .. Len(c.blocks) /\ Len(c.blocks) \in Nat /\ Len(c.blocks[c.pos]) \in Nat
      BY <1>9, ShapeFacts
    <3>2. /\ c.pos \in DOMAIN e.blocks
          /\ DOMAIN e.blocks[c.pos] = 1 .. Len(e.blocks[c.pos])
      BY <1>9, ShapeFacts
    <3>3. /\ Len(e.blocks[c.pos]) = Len(c.blocks[c.pos]) + k
          /\ e.blocks[c.pos][Len(c.blocks[c.pos]) + p] = instrs[p]
      BY <1>6, <1>8 DEF Added
    <3>4. k \in Nat /\ Len(c.blocks[c.pos]) \in Nat
      BY <1>7, <3>1
    <3>5. Len(c.blocks[c.pos]) + p \in 1 .. Len(c.blocks[c.pos]) + k
      BY <3>4
    <3> QED BY <3>1, <3>2, <3>3, <3>5
  <2>3. IsAt(e, w) /\ InstrAt(e, w) = instrs[p] /\ w[1] # 0
    <3> HIDE DEF at
    <3> QED BY <2>2 DEF IsAt, InstrAt
  <2> HIDE DEF w
  <2>4. Yields(hugr, e, instrs[p], BoxType(hugr, row[p]))
    BY <1>6, <1>7, <1>9, YieldsStays
  <2> QED BY <2>1, <2>3, <2>4 DEF Holds
<1>11. Fills(hugr, e, results, row)
  BY <1>7, <1>10 DEF Fills
<1> HIDE DEF results
<1>12. /\ CodeRuns(hugr, d, entry) /\ Keeps(e, d, entry, entry) /\ d.pos = e.pos
       /\ Have(e, entry, e.pos) \cup ToSet(row) \subseteq Have(d, entry, e.pos)
  BY <1>7, <1>9, <1>11, WriteRuns
<1> HIDE DEF d, v
<1>13. Have(c, entry, pos) \subseteq Have(e, entry, pos)
  <2>1. c.pos \in DOMAIN c.blocks
    BY <1>9, ShapeFacts
  <2> QED BY <1>5, <1>9, <2>1, HasStays
<1>14. hugr.kind[n] # "Output"
  BY <1>1 DEF Leaf
<1>15. Known(hugr, bases[Len(stack)], v) \subseteq Have(d, entry, d.pos)
  BY <1>3, <1>5, <1>9, <1>12, <1>13, <1>14 DEF row
<1>16. Keeps(Code, d, entry, entry)
  BY <1>5, <1>9, <1>12, KeepsFurther
<1> QED BY <1>1, <1>2, <1>3, <1>12, <1>15, <1>16, VisitStraightRuns DEF v

\* A dataflow parent starts.
LEMMA RegionRuns ==
  ASSUME NEW h \in Hugrs, NEW n \in NodesOf(h), IsRegion(h, n),
         NEW g, g.is = "dataflow", g.node = n, g.left = ChildrenOf(h, n),
         NEW c, Shaped(c), NEW entry, NEW base, base \subseteq Have(c, entry, c.pos),
         Boxes(h, h.scope[n]) \subseteq base,
         NEW row, IsSeq(row), Len(row) = Entering(h, n), Fetched(h, c, g.inputs, row),
         Gives(h, row, TypesIn(h, n)),
         Len(g.outputs) = Leaving(h, n), Takes(h, g.outputs, TypesOut(h, n)),
         h.kind[n] = "DataflowBlock" => g.outputs = InsOf(h, TheChild(h, n, "Output"))
  PROVE  FrameRuns(h, c, entry, base, g) /\ Known(h, base, g) \subseteq Have(c, entry, c.pos)
<1>1. InputsHold(h, c, g.inputs, TypesIn(h, n)) /\ Len(g.inputs) = Entering(h, n)
  BY FetchedHold
<1>2. DataflowRuns(h, c, g)
  BY <1>1 DEF DataflowRuns
<1>3. FrameRuns(h, c, entry, base, g)
  BY <1>2 DEF FrameRuns
<1>4. Known(h, base, g) = base
  BY NewKnown
<1> QED BY <1>3, <1>4

\* A child that calls another emitter.
LEMMA VisitCallRuns ==
  ASSUME IInv, NEW n, Visit(n), hugr' = hugr, NEW entry, NEW bases,
         CodeRuns(hugr, Code, entry), StackRuns(hugr, Code, entry, bases, stack),
         FrameRuns(hugr, Code, entry, bases[Len(stack)], Visited(n)),
         Wired(hugr, stack), SameLink(stack[Len(stack)], Visited(n)),
         NEW d, SetCode(d), NEW more, CodeRuns(hugr, d, more), Keeps(Code, d, entry, more),
         NEW g, NEW base, FrameRuns(hugr, d, more, base, g),
         LinkRuns(hugr, d, more, bases[Len(stack)], Visited(n), base, g),
         g.is = "dataflow" => Known(hugr, base, g) \subseteq Have(d, more, d.pos),
         stack' = Append(ReplaceTop(Visited(n)), g)
  PROVE  RInv'
<1> DEFINE v == Visited(n)
<1>1. IsSeq(stack) /\ stack # <<>> /\ stack' = Append(Append(Front(stack), v), g)
  BY TopFacts DEF Visit, ReplaceTop
<1>2. Shaped(Code) /\ Shaped(d)
  BY DEF CodeRuns
<1>3. ~(v.is = "cfg")
  BY VisitFacts
<1> HIDE DEF v
<1>4. FrameRuns(hugr, d, more, bases[Len(stack)], v)
  BY <1>2, <1>3, FrameRunsStays DEF v
<1>5. Runs(hugr, d, Append(Append(Front(stack), v), g))
  BY <1>1, <1>2, <1>4, PushRuns DEF v
<1> QED BY <1>1, <1>5, Rerun

LEMMA DfgRuns ==
  ASSUME IInv, RInv, NEW n, EnterDfg(n)
  PROVE  RInv'
<1> DEFINE d == ArgsRead(n)
           g == DataflowFrame(n, Args(n), OutsRow(n))
           v == Visited(n)
           row == InsOf(hugr, n)
<1>1. /\ Visit(n) /\ hugr.kind[n] = "DFG" /\ SetCode(d)
      /\ stack' = Append(ReplaceTop(v), g) /\ hugr' = hugr
  BY DEF EnterDfg
<1>2. /\ hugr \in Hugrs /\ n \in NodesOf(hugr) /\ Code.pos = pos
      /\ Wired(hugr, stack) /\ SameLink(stack[Len(stack)], v) /\ v.is = "dataflow"
  BY <1>1, VisitRuns
<1>3. PICK entry, bases : LET known == Known(hugr, bases[Len(stack)], Top) IN
              /\ CodeRuns(hugr, Code, entry) /\ StackRuns(hugr, Code, entry, bases, stack)
              /\ FrameRuns(hugr, Code, entry, bases[Len(stack)], v)
              /\ known \subseteq Have(Code, entry, pos)
              /\ ToSet(row) \subseteq known
              /\ Boxes(hugr, hugr.scope[n]) \subseteq known
              /\ Known(hugr, bases[Len(stack)], v) \subseteq known \cup ToSet(OutsOf(hugr, n))
                    \cup (IF hugr.kind[n] = "Output" THEN ToSet(Top.outputs) ELSE {})
  BY <1>1, VisitRuns
<1> DEFINE base == Known(hugr, bases[Len(stack)], Top)
<1>4. ToSet(row) \subseteq Have(Code, entry, pos)
  BY <1>3
<1>5. /\ CodeRuns(hugr, d, entry) /\ Keeps(Code, d, entry, entry) /\ d.pos = pos
      /\ Fetched(hugr, d, Args(n), row)
      /\ Have(Code, entry, pos) \subseteq Have(d, entry, pos)
  BY <1>2, <1>3, <1>4, ArgsRuns
<1>6. /\ g.is = "dataflow" /\ g.node = n /\ g.inputs = Args(n) /\ g.outputs = OutsOf(hugr, n)
      /\ g.left = ChildrenOf(hugr, n)
  BY RowsAre DEF DataflowFrame
<1> HIDE DEF d, g, v
<1>7. IsRegion(hugr, n) /\ Entering(hugr, n) = Len(hugr.ins[n]) /\ Leaving(hugr, n) = hugr.nout[n]
      /\ Passes(InTypes(hugr, n), TypesIn(hugr, n)) /\ Passes(TypesOut(hugr, n), hugr.types[n])
  BY <1>1, <1>2, Fits, Fit DEF RowsFit, TypesFit, Guarded, IsRegion
<1>8. /\ IsSeq(row) /\ Len(row) = Len(hugr.ins[n])
      /\ \A i \in 1 .. Len(row) : BoxType(hugr, row[i]) = InTypes(hugr, n)[i]
      /\ DOMAIN InTypes(hugr, n) = 1 .. Len(row)
  BY <1>2, InsFacts, InTypesFacts
<1> HIDE DEF row
<1>9. Gives(hugr, row, TypesIn(hugr, n))
  BY <1>7, <1>8 DEF Gives, Passes
<1>10. Len(g.outputs) = Leaving(hugr, n) /\ Takes(hugr, g.outputs, TypesOut(hugr, n))
  <2> DEFINE out == TheChild(hugr, n, "Output")
  <2>1. out \in NodesOf(hugr)
    BY <1>2, <1>7, RegionFacts
  <2>2. DOMAIN TypesOut(hugr, n) = 1 .. Leaving(hugr, n)
    BY <1>2, <2>1, InTypesFacts DEF TypesOut, Leaving
  <2> HIDE DEF out
  <2>3. Len(OutsOf(hugr, n)) = hugr.nout[n]
        /\ \A p \in 1 .. hugr.nout[n] : BoxType(hugr, OutsOf(hugr, n)[p]) = hugr.types[n][p]
    BY <1>2, OutsFacts
  <2> QED BY <1>6, <1>7, <2>2, <2>3 DEF Takes, Passes
<1>11. base \subseteq Have(d, entry, d.pos)
  BY <1>3, <1>5
<1>12. hugr.kind[n] # "DataflowBlock" /\ hugr.kind[n] # "Output"
  BY <1>1
<1>13. Shaped(d)
  BY <1>5 DEF CodeRuns
<1>14. LinkRuns(hugr, d, entry, bases[Len(stack)], v, base, g)
  <2>1. Known(hugr, bases[Len(stack)], v) \subseteq base \cup ToSet(g.outputs)
    BY <1>3, <1>6, <1>12
  <2> QED BY <1>2, <1>6, <2>1 DEF LinkRuns
<1>15. Boxes(hugr, hugr.scope[n]) \subseteq base
  BY <1>3
<1>16. Fetched(hugr, d, g.inputs, row) /\ Len(row) = Entering(hugr, n)
  BY <1>5, <1>6, <1>7, <1>8
<1> HIDE DEF base
<1>17. FrameRuns(hugr, d, entry, base, g) /\ Known(hugr, base, g) \subseteq Have(d, entry, d.pos)
  BY <1>2, <1>6, <1>7, <1>8, <1>9, <1>10, <1>11, <1>12, <1>13, <1>15, <1>16, RegionRuns
<1> QED BY <1>1, <1>2, <1>3, <1>5, <1>14, <1>17, VisitCallRuns DEF v

\* The mailboxes from are emptied into the mailboxes to.
LEMMA MoveRuns ==
  ASSUME NEW h, NEW c, NEW entry, CodeRuns(h, c, entry),
         NEW from, IsSeq(from), ToSet(from) \subseteq Have(c, entry, c.pos),
         NEW to, IsSeq(to), Len(to) = Len(from),
         \A i \in 1 .. Len(to) : BoxType(h, from[i]) \subseteq BoxType(h, to[i])
  PROVE  LET d == Write(Read(c, from), to, Upcoming(c, Len(from)))
         IN  /\ CodeRuns(h, d, entry) /\ Keeps(c, d, entry, entry) /\ d.pos = c.pos
             /\ Len(d.blocks) = Len(c.blocks)
             /\ Have(c, entry, c.pos) \cup ToSet(to) \subseteq Have(d, entry, c.pos)
<1> DEFINE e == Read(c, from)
           vs == Upcoming(c, Len(from))
           d == Write(e, to, vs)
           S == [i \in 1 .. Len(to) |-> BoxType(h, to[i])]
<1>1. /\ CodeRuns(h, e, entry) /\ Keeps(c, e, entry, entry)
      /\ e.pos = c.pos /\ Len(e.blocks) = Len(c.blocks)
      /\ Fetched(h, e, vs, from)
  BY ReadRuns
<1> HIDE DEF e, vs
<1>2. Gives(h, from, S)
  BY DEF Gives
<1>3. \A i \in 1 .. Len(to) : S[i] = BoxType(h, to[i])
  OBVIOUS
<1> HIDE DEF S
<1>4. Shaped(e) /\ Shaped(c)
  BY <1>1 DEF CodeRuns
<1>5. InputsHold(h, e, vs, S) /\ Len(vs) = Len(from)
  BY <1>1, <1>2, <1>4, FetchedHold
<1>6. Fills(h, e, vs, to)
  BY <1>3, <1>5 DEF InputsHold, Fills
<1>7. /\ CodeRuns(h, d, entry) /\ Keeps(e, d, entry, entry)
      /\ d.pos = e.pos /\ Len(d.blocks) = Len(e.blocks)
      /\ Have(e, entry, e.pos) \cup ToSet(to) \subseteq Have(d, entry, e.pos)
  BY <1>1, <1>6, WriteRuns
<1> HIDE DEF d
<1>8. Have(c, entry, c.pos) \subseteq Have(e, entry, c.pos)
  BY <1>1, <1>4, ShapeFacts, HasStays
<1>9. Keeps(c, d, entry, entry)
  BY <1>1, <1>7, KeepsFurther
<1> QED BY <1>1, <1>7, <1>8, <1>9 DEF d, e, vs

\* The mailboxes an exit, a case, or a block of a CFG takes its inputs from.
LEMMA ExitRowTypes ==
  ASSUME NEW h \in Hugrs, NEW n \in NodesOf(h)
  PROVE  /\ IsSeq(ExitRowOf(h, n)) /\ Len(ExitRowOf(h, n)) = h.nout[n]
         /\ \A i \in 1 .. h.nout[n] : BoxType(h, ExitRowOf(h, n)[i]) = h.types[n][i]
<1> DEFINE row == ExitRowOf(h, n)
<1>1. row = [i \in 1 .. h.nout[n] |-> <<"exit", n, i>>] /\ h.nout[n] \in Nat
  BY OutsFacts DEF ExitRowOf, AnonymousRow
<1> HIDE DEF row
<1>2. IsSeq(row) /\ Len(row) = h.nout[n]
  BY <1>1, FunSeq
<1>3. ASSUME NEW i \in 1 .. h.nout[n] PROVE BoxType(h, row[i]) = h.types[n][i]
  <2>1. row[i] = <<"exit", n, i>>
    BY <1>1
  <2>2. BoxType(h, <<"exit", n, i>>) = h.types[n][i]
    BY DEF BoxType
  <2> QED BY <2>1, <2>2
<1> QED BY <1>2, <1>3 DEF row

LEMMA CaseRowTypes ==
  ASSUME NEW h \in Hugrs, NEW n \in NodesOf(h), IsRegion(h, n)
  PROVE  /\ IsSeq(CaseRowOf(h, n)) /\ Len(CaseRowOf(h, n)) = Entering(h, n)
         /\ \A i \in 1 .. Entering(h, n) : BoxType(h, CaseRowOf(h, n)[i]) = TypesIn(h, n)[i]
<1> DEFINE row == CaseRowOf(h, n)
           k == Entering(h, n)
<1>1. k \in Nat
  BY RegionFacts, OutsFacts DEF Entering
<1>2. row = [i \in 1 .. k |-> <<"case", n, i>>]
  BY DEF CaseRowOf, AnonymousRow
<1> HIDE DEF row, k
<1>3. IsSeq(row) /\ Len(row) = k
  BY <1>1, <1>2, FunSeq
<1>4. ASSUME NEW i \in 1 .. k PROVE BoxType(h, row[i]) = TypesIn(h, n)[i]
  <2>1. row[i] = <<"case", n, i>>
    BY <1>2
  <2>2. BoxType(h, <<"case", n, i>>) = TypesIn(h, n)[i]
    BY DEF BoxType
  <2> QED BY <2>1, <2>2
<1> QED BY <1>3, <1>4 DEF row, k

LEMMA BlockRowTypes ==
  ASSUME NEW h \in Hugrs, NEW n \in NodesOf(h), NEW m \in CfgBlocks(h, n),
         h.kind[m] = "DataflowBlock" \/ m = h.kids[n][2]
  PROVE  /\ IsSeq(BlockRowOf(h, n, m)) /\ Len(BlockRowOf(h, n, m)) = BlockTakes(h, n, m)
         /\ \A i \in 1 .. BlockTakes(h, n, m) :
              BoxType(h, BlockRowOf(h, n, m)[i]) = BlockTypes(h, n, m)[i]
<1>1. m \in NodesOf(h)
  BY KidsFacts DEF CfgBlocks
<1>2. CASE m = h.kids[n][2]
  <2>1. /\ BlockRowOf(h, n, m) = ExitRowOf(h, n) /\ BlockTakes(h, n, m) = h.nout[n]
        /\ BlockTypes(h, n, m) = h.types[n]
    BY <1>2 DEF BlockRowOf, ExitRowOf, BlockTakes, BlockTypes
  <2> QED BY <2>1, ExitRowTypes
<1>3. CASE m # h.kids[n][2]
  <2> DEFINE in == TheChild(h, m, "Input")
  <2>1. in \in NodesOf(h)
    BY <1>1, <1>3, RegionFacts DEF IsRegion
  <2>2. /\ BlockRowOf(h, n, m) = OutsOf(h, in) /\ BlockTakes(h, n, m) = h.nout[in]
        /\ BlockTypes(h, n, m) = h.types[in]
    BY <1>3 DEF BlockRowOf, BlockTakes, BlockTypes, Entering, TypesIn
  <2> HIDE DEF in
  <2>3. /\ IsSeq(OutsOf(h, in)) /\ Len(OutsOf(h, in)) = h.nout[in]
        /\ \A p \in 1 .. h.nout[in] : BoxType(h, OutsOf(h, in)[p]) = h.types[in][p]
    BY <2>1, OutsFacts
  <2> QED BY <2>2, <2>3
<1> QED BY <1>2, <1>3

\* c with the exit block of n, which is entered with has and the exit mailboxes.
ExitOpens(c, n, has, entry, more) ==
    LET d == WithExit(c, n) IN
    /\ CodeRuns(hugr, d, more) /\ Keeps(c, d, entry, more)
    /\ d.pos = c.pos /\ Len(d.blocks) = NewBlock(c)
    /\ Enters(d, more, NewBlock(c), has \cup ToSet(ExitRowOf(hugr, n)))
    /\ has \cup ToSet(OutsOf(hugr, n)) \subseteq Have(d, more, NewBlock(c))

LEMMA WithExitRuns ==
  ASSUME hugr \in Hugrs, NEW n \in NodesOf(hugr), NEW c, NEW entry, CodeRuns(hugr, c, entry), NEW has
  PROVE  \E more : ExitOpens(c, n, has, entry, more)
<1> DEFINE exit == NewBlock(c)
           at == c.pos
           a == AddBlocks(c, 1)
           e == At(a, exit)
           from == ExitRowOf(hugr, n)
           to == OutsOf(hugr, n)
           k == hugr.nout[n]
           moved == Write(Read(e, from), to, Upcoming(e, k))
           d == At(moved, at)
           in == [i \in 1 .. 1 |-> has \cup ToSet(from)]
<1>1. d = WithExit(c, n)
  BY RowsAre DEF WithExit, ExitRow, ExitRowOf
<1>2. /\ IsSeq(from) /\ Len(from) = k /\ IsSeq(to) /\ Len(to) = k
      /\ \A i \in 1 .. Len(to) : BoxType(hugr, from[i]) \subseteq BoxType(hugr, to[i])
  <2>1. /\ IsSeq(from) /\ Len(from) = k
        /\ \A i \in 1 .. k : BoxType(hugr, from[i]) = hugr.types[n][i]
    BY ExitRowTypes
  <2>2. /\ IsSeq(to) /\ Len(to) = k
        /\ \A i \in 1 .. k : BoxType(hugr, to[i]) = hugr.types[n][i]
    BY OutsFacts
  <2> HIDE DEF from, to, k
  <2> QED BY <2>1, <2>2
<1> HIDE DEF from, to, k
<1>3. /\ Shaped(c) /\ Len(c.blocks) \in Nat /\ at \in DOMAIN c.blocks
      /\ exit = Len(c.blocks) + 1 /\ DOMAIN c.blocks = 1 .. Len(c.blocks)
  BY ShapeFacts DEF CodeRuns, NewBlock
<1> HIDE DEF exit, at
<1>4. /\ DOMAIN a.blocks = 1 .. Len(c.blocks) + 1 /\ Len(a.blocks) = Len(c.blocks) + 1
      /\ \E more : /\ CodeRuns(hugr, a, more) /\ Keeps(c, a, entry, more)
                   /\ more[exit] = Plain(has \cup ToSet(from))
  <2> DEFINE one == 1
  <2>1. one \in Nat /\ in[1] = has \cup ToSet(from) /\ 1 \in 1 .. one
    OBVIOUS
  <2>2. a = AddBlocks(c, one)
    OBVIOUS
  <2> HIDE DEF in, a, one
  <2>3. /\ Len(a.blocks) = Len(c.blocks) + one /\ DOMAIN a.blocks = 1 .. Len(c.blocks) + one
        /\ \E more : Opens(hugr, c, a, one, in, entry, more)
    BY <2>1, <2>2, AddRuns
  <2>4. PICK more : Opens(hugr, c, a, one, in, entry, more)
    BY <2>3
  <2>5. more[exit] = Plain(has \cup ToSet(from))
    BY <1>3, <2>1, <2>4 DEF Opens
  <2> QED BY <2>3, <2>4, <2>5 DEF Opens, one
<1>5. PICK more : /\ CodeRuns(hugr, a, more) /\ Keeps(c, a, entry, more)
                  /\ more[exit] = Plain(has \cup ToSet(from))
  BY <1>4
<1> HIDE DEF a, in
<1>6. exit \in DOMAIN a.blocks /\ at \in DOMAIN a.blocks
  BY <1>3, <1>4
<1>7. /\ CodeRuns(hugr, e, more) /\ e.pos = exit /\ Keeps(a, e, more, more) /\ e.blocks = a.blocks
  BY <1>5, <1>6, AtRuns
<1> HIDE DEF e
<1>8. has \cup ToSet(from) \subseteq Have(e, more, e.pos)
  BY <1>5, <1>7 DEF Have, Has, Plain
<1>9. /\ CodeRuns(hugr, moved, more) /\ Keeps(e, moved, more, more)
      /\ Len(moved.blocks) = Len(e.blocks)
      /\ Have(e, more, e.pos) \cup ToSet(to) \subseteq Have(moved, more, e.pos)
  <2>1. ToSet(from) \subseteq Have(e, more, e.pos)
    BY <1>8
  <2> DEFINE there == Write(Read(e, from), to, Upcoming(e, Len(from)))
  <2>2. moved = there /\ Len(to) = Len(from)
    BY <1>2
  <2>3. /\ CodeRuns(hugr, there, more) /\ Keeps(e, there, more, more) /\ there.pos = e.pos
        /\ Len(there.blocks) = Len(e.blocks)
        /\ Have(e, more, e.pos) \cup ToSet(to) \subseteq Have(there, more, e.pos)
    BY <1>2, <1>7, <2>1, <2>2, MoveRuns, Zenon
  <2> HIDE DEF moved, there
  <2> QED BY <2>2, <2>3
<1> HIDE DEF moved
<1>10. at \in DOMAIN moved.blocks /\ exit \in DOMAIN moved.blocks
  BY <1>6, <1>7, <1>9 DEF Keeps
<1>11. /\ CodeRuns(hugr, d, more) /\ d.pos = at /\ d.blocks = moved.blocks /\ Keeps(moved, d, more, more)
       /\ \A b : Have(d, more, b) = Have(moved, more, b)
  BY <1>9, <1>10, AtRuns
<1> HIDE DEF d
<1>12. Keeps(c, d, entry, more)
  BY <1>5, <1>7, <1>9, <1>11, KeepsFurther
<1>13. Len(d.blocks) = exit
  BY <1>3, <1>4, <1>7, <1>9, <1>11
<1>14. Enters(d, more, exit, has \cup ToSet(from))
  BY <1>5, <1>10, <1>11 DEF Enters
<1>15. has \cup ToSet(to) \subseteq Have(d, more, exit)
  BY <1>7, <1>8, <1>9, <1>11
<1>16. ExitOpens(c, n, has, entry, more)
  BY <1>1, <1>11, <1>12, <1>13, <1>14, <1>15 DEF ExitOpens, exit, at, from, to
<1> QED BY <1>16

\* The block of a handler: what it does, stores, and a branch.
LEMMA AlternativeRuns ==
  ASSUME hugr \in Hugrs, NEW n \in NodesOf(hugr), NEW d, NEW entry, NEW b \in DOMAIN d.blocks, b # 0,
         NEW f, NEW vs, AreLoads(d, vs),
         \A x \in Picks(LoadTypes(hugr, d, vs)) : \A p \in 1 .. hugr.nout[n] :
           Meaning(f, x)[p] \in hugr.types[n][p],
         NEW exit, Reaches(d, entry, entry[b].has \cup ToSet(ExitRowOf(hugr, n)), {}, exit),
         d.blocks[b] = Alternative(b, f, n, vs, exit)
  PROVE  LET block == Alternative(b, f, n, vs, exit)
         IN  /\ IsSeq(block)
             /\ \A j \in DOMAIN block :
                  InstrRuns(hugr, d, entry, entry[b].has \cup Stored(block, j - 1), entry[b].when, block[j])
<1> DEFINE k == hugr.nout[n]
           row == ExitRowOf(hugr, n)
           first == Applied(f, vs, n)
           second == [p \in DOMAIN row |-> Store(row[p], <<b, p>>)]
           block == Alternative(b, f, n, vs, exit)
           s == first \o second
           end == Branch(exit)
<1>1. /\ k \in Nat /\ IsSeq(row) /\ Len(row) = k /\ DOMAIN row = 1 .. k
      /\ \A p \in 1 .. k : BoxType(hugr, row[p]) = hugr.types[n][p]
  BY OutsFacts, ExitRowTypes, SeqFacts
<1>2. block = s \o <<end>>
  BY DEF Alternative, ExitRow, ExitRowOf
<1>3. first = [p \in 1 .. k |-> Apply(f, vs, p)]
  BY DEF Applied
<1>4. \A x \in Picks(LoadTypes(hugr, d, vs)) : \A p \in 1 .. k : Meaning(f, x)[p] \in hugr.types[n][p]
  OBVIOUS
<1>5. d.blocks[b] = block
  OBVIOUS
<1> HIDE DEF row, k
<1>6. second = [p \in 1 .. k |-> Store(row[p], <<b, p>>)]
  BY <1>1
<1> HIDE DEF first, second, block, end
<1>7. IsSeq(first) /\ Len(first) = k /\ \A p \in 1 .. k : first[p] = Apply(f, vs, p)
  BY <1>1, <1>3, FunSeq
<1>8. IsSeq(second) /\ Len(second) = k /\ \A p \in 1 .. k : second[p] = Store(row[p], <<b, p>>)
  BY <1>1, <1>6, FunSeq
<1>9. /\ IsSeq(s) /\ Len(s) = k + k
      /\ \A j \in 1 .. k : s[j] = first[j]
      /\ \A j \in 1 .. k : s[k + j] = second[j]
  BY <1>7, <1>8, ConcatSeq
<1> HIDE DEF s
<1>10. /\ IsSeq(block) /\ DOMAIN block = 1 .. k + k + 1
       /\ \A j \in 1 .. k + k : block[j] = s[j]
       /\ block[k + k + 1] = end
  BY <1>2, <1>9, SnocSeq
<1>11. \A p \in 1 .. k : /\ p \in DOMAIN block /\ block[p] = Apply(f, vs, p)
                         /\ k + p \in 1 .. k + k /\ block[k + p] = Store(row[p], <<b, p>>)
  BY <1>1, <1>7, <1>8, <1>9, <1>10
<1>12. ASSUME NEW p \in 1 .. k PROVE Holds(hugr, d, <<b, p>>, BoxType(hugr, row[p]))
  <2> DEFINE v == <<b, p>>
  <2>1. v[1] # 0 /\ v = <<v[1], v[2]>> /\ v[1] = b /\ v[2] = p
    OBVIOUS
  <2> HIDE DEF v
  <2>2. IsAt(d, v) /\ InstrAt(d, v) = Apply(f, vs, p)
    BY <1>5, <1>11, <2>1 DEF IsAt, InstrAt
  <2> DEFINE x == Apply(f, vs, p)
  <2>3. x.op = "apply" /\ x.args = vs /\ x.f = f /\ x.port = p
    BY DEF Apply
  <2> HIDE DEF x
  <2>4. Yields(hugr, d, x, hugr.types[n][p])
    BY <1>4, <2>3 DEF Yields
  <2>5. Holds(hugr, d, v, hugr.types[n][p])
    BY <2>1, <2>2, <2>4 DEF Holds, x
  <2> QED BY <1>1, <2>5 DEF v
<1>13. ASSUME NEW j \in DOMAIN block
       PROVE  InstrRuns(hugr, d, entry, entry[b].has \cup Stored(block, j - 1), entry[b].when, block[j])
  <2>1. CASE j \in 1 .. k
    <3> DEFINE x == block[j]
    <3>1. x = Apply(f, vs, j)
      BY <1>11, <2>1
    <3> HIDE DEF x
    <3>2. InstrRuns(hugr, d, entry, entry[b].has \cup Stored(block, j - 1), entry[b].when, x)
      BY <3>1 DEF InstrRuns, Apply
    <3> QED BY <3>2 DEF x
  <2>2. CASE j - k \in 1 .. k /\ j = k + (j - k)
    <3>1. block[j] = Store(row[j - k], <<b, j - k>>)
      BY <1>11, <2>2
    <3>2. Holds(hugr, d, <<b, j - k>>, BoxType(hugr, row[j - k]))
      BY <1>12, <2>2
    <3> QED BY <3>1, <3>2 DEF InstrRuns, Store
  <2>3. CASE j = k + k + 1
    <3>1. ASSUME NEW p \in 1 .. k PROVE row[p] \in Stored(block, k + k)
      <4> DEFINE i == k + p
                 m == k + k
      <4>1. block[i] = Store(row[p], <<b, p>>) /\ i \in 1 .. m
        BY <1>11
      <4> HIDE DEF i, m
      <4>2. row[p] \in Stored(block, m)
        BY <4>1 DEF Stored, Store
      <4> QED BY <4>2 DEF m
    <3>2. ToSet(row) \subseteq Stored(block, k + k) /\ j - 1 = k + k
      BY <1>1, <2>3, <3>1 DEF ToSet
    <3>3. Reaches(d, entry, entry[b].has \cup Stored(block, j - 1), {}, exit)
      BY <3>2 DEF Reaches, row
    <3>4. block[j] = Branch(exit)
      BY <1>10, <2>3 DEF end
    <3> QED BY <3>3, <3>4 DEF InstrRuns, Branch
  <2>4. j \in 1 .. k \/ (j - k \in 1 .. k /\ j = k + (j - k)) \/ j = k + k + 1
    BY <1>1, <1>10
  <2> QED BY <2>1, <2>2, <2>3, <2>4
<1> QED BY <1>10, <1>13 DEF block

\* What comes of the handler of n, which is emitted where has is written.
GuardOpens(c, n, vs, has, entry, more) ==
    LET d == GuardedCode(c, n, vs) IN
    /\ CodeRuns(hugr, d, more) /\ Keeps(c, d, entry, more)
    /\ NewBlock(c) \in DOMAIN d.blocks
    /\ has \cup ToSet(OutsOf(hugr, n)) \subseteq Have(d, more, NewBlock(c))

LEMMA GuardedCodeRuns ==
  ASSUME hugr \in Hugrs, NEW n \in NodesOf(hugr), hugr.kind[n] = Guarded,
         NEW c, NEW entry, CodeRuns(hugr, c, entry),
         NEW vs, Fetched(hugr, c, vs, InsOf(hugr, n)),
         NEW has, has \subseteq Have(c, entry, c.pos)
  PROVE  \E more : GuardOpens(c, n, vs, has, entry, more)
<1> DEFINE exit == NewBlock(c)
           at == c.pos
           f == hugr.fn[n]
           S == InTypes(hugr, n)
           m == WithExit(c, n)
           test == Apply(f.test, vs, 1)
           v == Upcoming(m, 1)[1]
           ts == <<exit + 2, exit + 1>>
           br == Switch(v, ts)
           t == Build(m, <<test>>)
           ok == Alternative(exit + 1, f.ok, n, vs, exit)
           bad == Alternative(exit + 2, f.bad, n, vs, exit)
           new == <<ok, bad>>
           e == Extend(t, new)
           d == GuardedCode(c, n, vs)
           row == ExitRowOf(hugr, n)
           T == {Meaning(f.test, a)[1] : a \in Picks(S)}
<1>1. d = Extend(Build(t, <<br>>), new)
  BY DEF GuardedCode
<1>2. Shaped(c) /\ at \in DOMAIN c.blocks /\ exit = Len(c.blocks) + 1 /\ Len(c.blocks) \in Nat
  BY ShapeFacts DEF CodeRuns, NewBlock
<1>3. /\ \A x \in T : x.tag \in {0, 1}
      /\ \A g \in {f.ok, f.bad} : \A a \in Picks(S) : \A p \in 1 .. hugr.nout[n] :
           Meaning(g, a)[p] \in hugr.types[n][p]
  BY Fit DEF TypesFit, Guarded
<1>4. \A a \in Picks(S) : Meaning(f.test, a)[1] \in T
  OBVIOUS
<1>5. ts[1] = exit + 2 /\ ts[2] = exit + 1 /\ DOMAIN ts = {1, 2}
  OBVIOUS
<1>6. br.op = "switch" /\ br.on = v /\ br.to = ts
  BY DEF Switch
<1>7. test.op = "apply" /\ test.args = vs /\ test.f = f.test /\ test.port = 1
  BY DEF Apply
<1>8. PICK mid : ExitOpens(c, n, has, entry, mid)
  BY WithExitRuns
<1>9. /\ CodeRuns(hugr, m, mid) /\ Keeps(c, m, entry, mid) /\ m.pos = at
      /\ Len(m.blocks) = exit
      /\ Enters(m, mid, exit, has \cup ToSet(row))
      /\ has \cup ToSet(OutsOf(hugr, n)) \subseteq Have(m, mid, exit)
  BY <1>8 DEF ExitOpens
<1>10. AreLoads(c, vs) /\ LoadTypes(hugr, c, vs) = S
  BY FetchedTypes
<1>11. AreLoads(m, vs) /\ LoadTypes(hugr, m, vs) = S
  BY <1>9, <1>10, LoadsStay
<1>12. v = <<m.pos, Len(m.blocks[m.pos]) + 1>>
  BY DEF Upcoming
<1> HIDE DEF d, m, ok, bad, exit, at, v, br, ts, T, S, test, f
<1>13. Added(hugr, m, t, mid, <<test>>)
  <2>1. InstrRuns(hugr, m, mid, Have(m, mid, m.pos), mid[m.pos].when, test)
    BY <1>7, <1>11 DEF InstrRuns
  <2> QED BY <1>9, <2>1, EndRuns
<1> HIDE DEF t
<1>14. /\ CodeRuns(hugr, t, mid) /\ Keeps(m, t, mid, mid) /\ t.pos = at /\ Len(t.blocks) = exit
       /\ Shaped(m) /\ Shaped(t) /\ at \in DOMAIN m.blocks /\ Len(m.blocks[at]) \in Nat
       /\ t.blocks[at][Len(m.blocks[at]) + 1] = test
       /\ Len(t.blocks[at]) = Len(m.blocks[at]) + 1
  <2>1. IsSeq(<<test>>) /\ Len(<<test>>) = 1 /\ <<test>>[1] = test /\ 1 \in 1 .. 1
    BY OneSeq
  <2>2. Shaped(m) /\ at \in DOMAIN m.blocks /\ Len(m.blocks[at]) \in Nat
    BY <1>9, ShapeFacts DEF CodeRuns
  <2> QED BY <1>9, <1>13, <2>1, <2>2 DEF Added, CodeRuns
<1>15. v[1] = at /\ at # 0 /\ Holds(hugr, t, v, T)
  <2>1. v[1] = at /\ v[2] = Len(m.blocks[at]) + 1 /\ v = <<v[1], v[2]>>
    BY <1>9, <1>12
  <2>2. /\ at \in DOMAIN t.blocks /\ at # 0 /\ DOMAIN t.blocks[at] = 1 .. Len(t.blocks[at])
    BY <1>14, ShapeFacts DEF Shaped
  <2>3. Len(m.blocks[at]) + 1 \in DOMAIN t.blocks[at]
    BY <1>14, <2>2
  <2>4. IsAt(t, v) /\ InstrAt(t, v) = test
    BY <1>14, <2>1, <2>2, <2>3 DEF IsAt, InstrAt
  <2>5. AreLoads(t, vs) /\ LoadTypes(hugr, t, vs) = S
    BY <1>11, <1>14, LoadsStay
  <2>6. Yields(hugr, t, test, T)
    BY <1>4, <1>7, <2>5 DEF Yields
  <2> QED BY <2>1, <2>2, <2>4, <2>6 DEF Holds
<1>16. IsSeq(new) /\ Len(new) = 2 /\ new[1] = ok /\ new[2] = bad
  <2>1. <<ok, bad>> \in Seq({ok, bad}) /\ Len(<<ok, bad>>) = 2
        /\ <<ok, bad>>[1] = ok /\ <<ok, bad>>[2] = bad
    OBVIOUS
  <2> QED BY <2>1, KnownSeq
<1> HIDE DEF new
<1>17. /\ e.pos = at /\ DOMAIN e.blocks = 1 .. exit + 2
       /\ e.blocks[exit + 1] = ok /\ e.blocks[exit + 2] = bad
  <2>1. /\ DOMAIN (t.blocks \o new) = 1 .. Len(t.blocks) + Len(new)
        /\ \A i \in 1 .. Len(new) : (t.blocks \o new)[Len(t.blocks) + i] = new[i]
    <3>1. IsSeq(t.blocks) /\ IsSeq(new)
      BY <1>14, <1>16 DEF Shaped
    <3> QED BY <3>1, ConcatSeq
  <2>2. e.blocks = t.blocks \o new /\ e.pos = t.pos
    BY DEF Extend
  <2>3. 1 \in 1 .. 2 /\ 2 \in 1 .. 2
    OBVIOUS
  <2> HIDE DEF e
  <2> QED BY <1>14, <1>16, <2>1, <2>2, <2>3
<1> DEFINE in == [i \in 1 .. 2 |-> Plain(has)]
<1>18. PICK more : /\ \A b \in 1 .. exit : more[b] = mid[b]
                   /\ more[exit + 1] = Plain(has) /\ more[exit + 2] = Plain(has)
  <2>1. exit \in Nat /\ 2 \in Nat /\ 1 \in 1 .. 2 /\ 2 \in 1 .. 2
    BY <1>2
  <2>2. in[1] = Plain(has) /\ in[2] = Plain(has)
    OBVIOUS
  <2> HIDE DEF in
  <2>3. PICK more : GoesOn(exit, 2, mid, in, more)
    BY <2>1, Longer
  <2> QED BY <2>1, <2>2, <2>3 DEF GoesOn
<1> HIDE DEF in
<1>19. /\ Keeps(t, e, mid, more) /\ Keeps(m, e, mid, more) /\ Keeps(c, e, entry, more)
       /\ DOMAIN t.blocks = 1 .. exit
  <2>1. DOMAIN t.blocks = 1 .. exit /\ exit \in Nat
    BY <1>2, <1>14, ShapeFacts
  <2>2. \A b \in 1 .. exit : b \in DOMAIN e.blocks /\ e.blocks[b] = t.blocks[b]
    <3>1. \A b \in 1 .. Len(t.blocks) : (t.blocks \o new)[b] = t.blocks[b]
      BY <1>14, <1>16, ConcatSeq DEF Shaped
    <3>2. e.blocks = t.blocks \o new
      BY DEF Extend
    <3> HIDE DEF e
    <3> QED BY <1>14, <1>17, <2>1, <3>1, <3>2
  <2>3. Keeps(t, e, mid, more)
    BY <1>18, <2>1, <2>2 DEF Keeps
  <2> QED BY <1>9, <1>14, <2>1, <2>3, KeepsFurther
<1>20. \A b \in {exit + 1, exit + 2} :
         /\ b \in DOMAIN e.blocks /\ b # 0 /\ b # at /\ more[b].has = has /\ more[b].when = {}
  <2>1. at \in 1 .. exit /\ exit \in Nat
    BY <1>2, <1>14, <1>19 DEF Shaped
  <2> QED BY <1>17, <1>18, <2>1 DEF Plain
<1>21. Reaches(e, more, has \cup ToSet(row), {}, exit)
  <2>1. exit \in 1 .. exit
    BY <1>2
  <2>2. exit \in DOMAIN e.blocks /\ more[exit] = Plain(has \cup ToSet(row))
    BY <1>9, <1>18, <1>19, <2>1 DEF Keeps, Enters
  <2> QED BY <2>2 DEF Reaches, Plain
<1>22. AreLoads(e, vs) /\ LoadTypes(hugr, e, vs) = S
  BY <1>11, <1>19, LoadsStay
<1>23. ASSUME NEW b \in {exit + 1, exit + 2}, NEW g \in {f.ok, f.bad},
              e.blocks[b] = Alternative(b, g, n, vs, exit)
       PROVE  /\ IsSeq(e.blocks[b]) /\ \A fact \in more[b].when : fact[1][1] # b
              /\ \A j \in DOMAIN e.blocks[b] :
                   InstrRuns(hugr, e, more, more[b].has \cup Stored(e.blocks[b], j - 1),
                             more[b].when, e.blocks[b][j])
  <2> DEFINE block == Alternative(b, g, n, vs, exit)
  <2> HIDE DEF e, row
  <2>1. \A x \in Picks(LoadTypes(hugr, e, vs)) : \A p \in 1 .. hugr.nout[n] :
           Meaning(g, x)[p] \in hugr.types[n][p]
    BY <1>3, <1>22
  <2>2. Reaches(e, more, more[b].has \cup ToSet(ExitRowOf(hugr, n)), {}, exit)
    BY <1>20, <1>21 DEF row
  <2>3. b \in DOMAIN e.blocks /\ b # 0 /\ more[b].when = {}
    BY <1>20
  <2>4. /\ IsSeq(block)
        /\ \A j \in DOMAIN block :
             InstrRuns(hugr, e, more, more[b].has \cup Stored(block, j - 1), more[b].when, block[j])
    BY <1>22, <1>23, <2>1, <2>2, <2>3, AlternativeRuns
  <2> QED BY <1>23, <2>3, <2>4
<1>24. CodeRuns(hugr, e, more)
  <2>1. \A b \in DOMAIN t.blocks : more[b] = mid[b]
    BY <1>18, <1>19
  <2>2. ASSUME NEW i \in 1 .. 2
        PROVE  LET b == exit + i
               IN  /\ IsSeq(new[i]) /\ \A fact \in more[b].when : fact[1][1] # b
                   /\ \A j \in DOMAIN new[i] :
                        InstrRuns(hugr, e, more, more[b].has \cup Stored(new[i], j - 1),
                                  more[b].when, new[i][j])
    <3> HIDE DEF e
    <3>1. CASE i = 1
      BY <1>16, <1>17, <1>23, <3>1 DEF ok
    <3>2. CASE i = 2
      BY <1>16, <1>17, <1>23, <3>2 DEF bad
    <3>3. i = 1 \/ i = 2
      OBVIOUS
    <3> QED BY <3>1, <3>2, <3>3
  <2> QED BY <1>14, <1>16, <2>1, <2>2, ExtendRuns
<1> HIDE DEF row
<1>25. d = Build(e, <<br>>)
  <2>1. IsSeq(t.blocks) /\ t.pos \in DOMAIN t.blocks
    BY <1>14 DEF Shaped
  <2> QED BY <1>1, <1>16, <2>1, BuildExtend
<1> HIDE DEF e
<1>26. InstrRuns(hugr, e, more, Have(e, more, e.pos), more[e.pos].when, br)
  <2>1. has \subseteq Have(e, more, at)
    <3>1. Have(c, entry, at) \subseteq Have(e, more, at)
      BY <1>2, <1>19, <1>24, HasStays DEF CodeRuns
    <3> QED BY <3>1 DEF at
  <2>2. ASSUME NEW j \in {1, 2} PROVE Reaches(e, more, Have(e, more, at), {<<v, j>>}, ts[j])
    BY <1>5, <1>20, <2>1 DEF Reaches
  <2>3. Holds(hugr, e, v, T)
    BY <1>15, <1>19, HoldsStays
  <2>4. \A x \in T : x.tag \in Nat /\ x.tag + 1 \in DOMAIN ts
    BY <1>3, <1>5
  <2>5. Selects(hugr, e, v, ts)
    BY <1>15, <2>3, <2>4 DEF Selects
  <2> QED BY <1>5, <1>6, <1>17, <2>2, <2>5 DEF InstrRuns
<1>27. Added(hugr, e, d, more, <<br>>)
  BY <1>24, <1>25, <1>26, EndRuns
<1>28. CodeRuns(hugr, d, more) /\ Keeps(e, d, more, more) /\ Keeps(m, d, mid, more)
       /\ Keeps(c, d, entry, more)
  BY <1>19, <1>27, KeepsFurther DEF Added
<1>29. exit \in DOMAIN d.blocks /\ Have(m, mid, exit) \subseteq Have(d, more, exit)
  <2>1. exit \in DOMAIN m.blocks /\ Shaped(d)
    BY <1>9, <1>28 DEF Enters, CodeRuns
  <2> QED BY <1>14, <1>28, <2>1, HasStays DEF Keeps
<1>30. has \cup ToSet(OutsOf(hugr, n)) \subseteq Have(d, more, exit)
  BY <1>9, <1>29
<1>31. GuardOpens(c, n, vs, has, entry, more)
  BY <1>28, <1>29, <1>30 DEF GuardOpens, d, exit
<1> QED BY <1>31

LEMMA GuardedRuns ==
  ASSUME IInv, RInv, NEW n, EmitGuarded(n)
  PROVE  RInv'
<1> DEFINE c == ArgsRead(n)
           e == GuardedCode(c, n, Args(n))
           exit == NewBlock(c)
           d == At(e, exit)
           v == Visited(n)
<1>1. /\ Visit(n) /\ hugr.kind[n] = Guarded /\ SetCode(d)
      /\ stack' = ReplaceTop(v) /\ hugr' = hugr
  BY DEF EmitGuarded
<1>2. /\ hugr \in Hugrs /\ n \in NodesOf(hugr) /\ Code.pos = pos
      /\ Wired(hugr, stack) /\ SameLink(stack[Len(stack)], v)
  BY <1>1, VisitRuns
<1>3. PICK entry, bases : LET known == Known(hugr, bases[Len(stack)], Top) IN
              /\ CodeRuns(hugr, Code, entry) /\ StackRuns(hugr, Code, entry, bases, stack)
              /\ FrameRuns(hugr, Code, entry, bases[Len(stack)], v)
              /\ known \subseteq Have(Code, entry, pos)
              /\ ToSet(InsOf(hugr, n)) \subseteq known
              /\ Known(hugr, bases[Len(stack)], v) \subseteq known \cup ToSet(OutsOf(hugr, n))
                    \cup (IF hugr.kind[n] = "Output" THEN ToSet(Top.outputs) ELSE {})
  BY <1>1, VisitRuns
<1> DEFINE known == Known(hugr, bases[Len(stack)], Top)
<1>4. ToSet(InsOf(hugr, n)) \subseteq Have(Code, entry, pos)
  BY <1>3
<1>5. /\ CodeRuns(hugr, c, entry) /\ Keeps(Code, c, entry, entry) /\ c.pos = pos
      /\ Fetched(hugr, c, Args(n), InsOf(hugr, n))
      /\ Have(Code, entry, pos) \subseteq Have(c, entry, pos)
  BY <1>2, <1>3, <1>4, ArgsRuns
<1> HIDE DEF c, v, known
<1>6. known \subseteq Have(c, entry, c.pos)
  BY <1>3, <1>5 DEF known
<1>7. PICK more : GuardOpens(c, n, Args(n), known, entry, more)
  BY <1>1, <1>2, <1>5, <1>6, GuardedCodeRuns
<1>8. /\ CodeRuns(hugr, e, more) /\ Keeps(c, e, entry, more) /\ exit \in DOMAIN e.blocks
      /\ known \cup ToSet(OutsOf(hugr, n)) \subseteq Have(e, more, exit)
  BY <1>7 DEF GuardOpens
<1> HIDE DEF e, exit
<1>9. /\ CodeRuns(hugr, d, more) /\ d.pos = exit /\ Keeps(e, d, more, more)
      /\ Have(d, more, exit) = Have(e, more, exit)
  BY <1>8, AtRuns
<1> HIDE DEF d
<1>10. Keeps(Code, d, entry, more)
  BY <1>5, <1>8, <1>9, KeepsFurther
<1>11. hugr.kind[n] # "Output"
  BY <1>1 DEF Guarded
<1>12. Known(hugr, bases[Len(stack)], v) \subseteq Have(d, more, d.pos)
  BY <1>3, <1>8, <1>9, <1>11 DEF known
<1> QED BY <1>1, <1>2, <1>3, <1>9, <1>10, <1>12, VisitStraightRuns DEF v

LEMMA EnterConditionalRuns ==
  ASSUME IInv, RInv, NEW n, EnterConditional(n)
  PROVE  RInv'
<1> DEFINE c == ArgsRead(n)
           exit == NewBlock(c)
           d == WithExit(c, n)
           g == ConditionalFrame(n, Args(n), exit)
           v == Visited(n)
<1>1. /\ Visit(n) /\ hugr.kind[n] = "Conditional" /\ SetCode(d)
      /\ stack' = Append(ReplaceTop(v), g) /\ hugr' = hugr
  BY DEF EnterConditional
<1>2. /\ hugr \in Hugrs /\ n \in NodesOf(hugr) /\ Code.pos = pos
      /\ Wired(hugr, stack) /\ SameLink(stack[Len(stack)], v) /\ v.is = "dataflow"
  BY <1>1, VisitRuns
<1>3. PICK entry, bases : LET known == Known(hugr, bases[Len(stack)], Top) IN
              /\ CodeRuns(hugr, Code, entry) /\ StackRuns(hugr, Code, entry, bases, stack)
              /\ FrameRuns(hugr, Code, entry, bases[Len(stack)], v)
              /\ known \subseteq Have(Code, entry, pos)
              /\ ToSet(InsOf(hugr, n)) \subseteq known
              /\ Boxes(hugr, hugr.scope[n]) \subseteq known
              /\ Known(hugr, bases[Len(stack)], v) \subseteq known \cup ToSet(OutsOf(hugr, n))
                    \cup (IF hugr.kind[n] = "Output" THEN ToSet(Top.outputs) ELSE {})
  BY <1>1, VisitRuns
<1> DEFINE base == Known(hugr, bases[Len(stack)], Top)
<1>4. ToSet(InsOf(hugr, n)) \subseteq Have(Code, entry, pos)
  BY <1>3
<1>5. /\ CodeRuns(hugr, c, entry) /\ Keeps(Code, c, entry, entry) /\ c.pos = pos
      /\ Fetched(hugr, c, Args(n), InsOf(hugr, n))
      /\ Have(Code, entry, pos) \subseteq Have(c, entry, pos)
  BY <1>2, <1>3, <1>4, ArgsRuns
<1>6. /\ g.is = "conditional" /\ g.node = n /\ g.inputs = Args(n) /\ g.exit = exit
      /\ g.cases = <<>> /\ g.home = pos
  BY DEF ConditionalFrame
<1> HIDE DEF c, g, v, base
<1>7. Shaped(c) /\ pos \in DOMAIN c.blocks
  BY <1>5, ShapeFacts DEF CodeRuns
<1>8. PICK more : ExitOpens(c, n, base, entry, more)
  BY <1>2, <1>5, WithExitRuns
<1>9. /\ CodeRuns(hugr, d, more) /\ Keeps(c, d, entry, more) /\ d.pos = pos
      /\ Enters(d, more, exit, base \cup ToSet(ExitRowOf(hugr, n)))
      /\ base \cup ToSet(OutsOf(hugr, n)) \subseteq Have(d, more, exit)
  BY <1>5, <1>8 DEF ExitOpens
<1> HIDE DEF d, exit
<1>10. Keeps(Code, d, entry, more)
  BY <1>5, <1>9, KeepsFurther
<1>11. Shaped(d)
  BY <1>9 DEF CodeRuns
<1>12. ConditionalRuns(hugr, d, more, base, g)
  <2>1. Fetched(hugr, d, g.inputs, InsOf(hugr, n))
    BY <1>5, <1>6, <1>9, FetchedStays
  <2>2. g.home \in DOMAIN d.blocks /\ base \subseteq Have(d, more, g.home)
    <3>1. Have(c, entry, pos) \subseteq Have(d, more, pos)
      BY <1>7, <1>9, <1>11, HasStays
    <3>2. base \subseteq Have(c, entry, pos)
      BY <1>3, <1>5 DEF base
    <3>3. pos \in DOMAIN d.blocks
      BY <1>7, <1>9 DEF Keeps
    <3> QED BY <1>6, <3>1, <3>2, <3>3
  <2>3. Enters(d, more, g.exit, base \cup ToSet(ExitRowOf(hugr, n)))
    BY <1>6, <1>9
  <2>4. 1 .. Len(g.cases) = {}
    BY <1>6
  <2> QED BY <1>6, <2>1, <2>2, <2>3, <2>4 DEF ConditionalRuns
<1>13. FrameRuns(hugr, d, more, base, g)
  BY <1>3, <1>6, <1>12 DEF FrameRuns, base
<1>14. LinkRuns(hugr, d, more, bases[Len(stack)], v, base, g)
  <2>1. hugr.kind[n] # "Output"
    BY <1>1
  <2>2. Known(hugr, bases[Len(stack)], v) \subseteq Have(d, more, g.exit)
    BY <1>3, <1>6, <1>9, <2>1 DEF base
  <2> QED BY <1>2, <1>6, <2>2 DEF LinkRuns
<1>15. ~(g.is = "dataflow")
  BY <1>6
<1> QED BY <1>1, <1>2, <1>3, <1>9, <1>10, <1>13, <1>14, <1>15, VisitCallRuns DEF v

\* Nothing but what is in scope can be referred to in the entry block.
LEMMA EntryAddsNothing ==
  ASSUME NEW h, NEW n, ~IsRegion(h, n)
  PROVE  Boxes(h, Adds(h, n, h.kids[n][1])) = {}
<1>1. \A a : ~Dominates(h, n, a, h.kids[n][1])
  BY DEF Dominates
<1>2. Adds(h, n, h.kids[n][1]) = {}
  BY <1>1 DEF Adds
<1> QED BY <1>2 DEF Boxes

LEMMA EnterCfgRuns ==
  ASSUME IInv, IInv', RInv, NEW n, EnterCfg(n)
  PROVE  RInv'
<1> DEFINE c == ArgsRead(n)
           dfbs == SetToSeq(DataflowBlocks(n))
           K == Len(dfbs)
           bb == [m \in ToSet(dfbs) \cup {Exit(n)} |->
                    IF m = Exit(n) THEN NewBlock(c)
                    ELSE NewBlock(c) + CHOOSE i \in DOMAIN dfbs : dfbs[i] = m]
           ready == AddBlocks(c, 1 + K)
           first == Entry(n)
           row == BlockRowOf(hugr, n, first)
           written == Write(ready, row, Args(n))
           br == Branch(bb[first])
           d == Build(written, <<br>>)
           g == CfgFrame(n, bb, OutsRow(n))
           v == Visited(n)
<1>1. /\ Visit(n) /\ hugr.kind[n] = "CFG" /\ SetCode(d)
      /\ stack' = Append(ReplaceTop(v), g) /\ hugr' = hugr
  <2>1. InputRow(n, first) = row
    BY RowsAre
  <2> HIDE DEF row
  <2> QED BY <2>1 DEF EnterCfg
<1>2. /\ hugr \in Hugrs /\ n \in NodesOf(hugr) /\ Code.pos = pos /\ Code.blocks = blocks
      /\ Wired(hugr, stack) /\ SameLink(stack[Len(stack)], v) /\ v.is = "dataflow"
      /\ IsSeq(stack) /\ stack # <<>>
  BY <1>1, VisitRuns
<1>3. PICK entry, bases : LET known == Known(hugr, bases[Len(stack)], Top) IN
              /\ CodeRuns(hugr, Code, entry) /\ StackRuns(hugr, Code, entry, bases, stack)
              /\ FrameRuns(hugr, Code, entry, bases[Len(stack)], v)
              /\ known \subseteq Have(Code, entry, pos)
              /\ ToSet(InsOf(hugr, n)) \subseteq known
              /\ Boxes(hugr, hugr.scope[n]) \subseteq known
              /\ Known(hugr, bases[Len(stack)], v) \subseteq known \cup ToSet(OutsOf(hugr, n))
                    \cup (IF hugr.kind[n] = "Output" THEN ToSet(Top.outputs) ELSE {})
  BY <1>1, VisitRuns
<1> DEFINE base == Known(hugr, bases[Len(stack)], Top)
<1>4. /\ ToSet(dfbs) = DataflowBlocks(n) /\ K \in Nat /\ DOMAIN dfbs = 1 .. K
  <2>1. IsFiniteSet(DataflowBlocks(n))
    BY <1>1, <1>2, CfgFacts
  <2> QED BY <2>1, SetToSeqFacts
<1>5. /\ Exit(n) \in CfgBlocks(hugr, n) /\ first \in CfgBlocks(hugr, n)
      /\ CfgBlocks(hugr, n) = ToSet(dfbs) \cup {Exit(n)} /\ hugr.kind[first] = "DataflowBlock"
      /\ first # Exit(n) /\ DOMAIN bb = CfgBlocks(hugr, n)
  <2>1. DOMAIN bb = ToSet(dfbs) \cup {Exit(n)}
    OBVIOUS
  <2> HIDE DEF bb, dfbs
  <2>2. /\ Exit(n) \in CfgBlocks(hugr, n) /\ first \in CfgBlocks(hugr, n)
        /\ CfgBlocks(hugr, n) = DataflowBlocks(n) \cup {Exit(n)} /\ hugr.kind[first] = "DataflowBlock"
        /\ \A m \in CfgBlocks(hugr, n) : hugr.kind[m] = "ExitBlock" <=> m = Exit(n)
    BY <1>1, <1>2, CfgFacts
  <2> QED BY <1>4, <2>1, <2>2
<1>6. ToSet(InsOf(hugr, n)) \subseteq Have(Code, entry, pos)
  BY <1>3
<1>7. /\ CodeRuns(hugr, c, entry) /\ Keeps(Code, c, entry, entry) /\ c.pos = pos
      /\ Fetched(hugr, c, Args(n), InsOf(hugr, n))
      /\ Have(Code, entry, pos) \subseteq Have(c, entry, pos)
  BY <1>2, <1>3, <1>6, ArgsRuns
<1>8. /\ g.is = "cfg" /\ g.node = n /\ g.outputs = OutsOf(hugr, n) /\ g.bb = bb /\ g.next = 1
  <2> HIDE DEF bb
  <2> QED BY RowsAre DEF CfgFrame
<1>9. /\ IsSeq(row) /\ Len(row) = Len(hugr.ins[n])
      /\ \A i \in 1 .. Len(row) : BoxType(hugr, row[i]) = TypesIn(hugr, first)[i]
  <2> HIDE DEF bb, dfbs, row
  <2>1. /\ IsSeq(row) /\ Len(row) = BlockTakes(hugr, n, first)
        /\ \A i \in 1 .. BlockTakes(hugr, n, first) :
             BoxType(hugr, row[i]) = BlockTypes(hugr, n, first)[i]
    BY <1>2, <1>5, BlockRowTypes DEF row
  <2>2. /\ BlockTakes(hugr, n, first) = Entering(hugr, first)
        /\ BlockTypes(hugr, n, first) = TypesIn(hugr, first)
    BY <1>5 DEF BlockTakes, BlockTypes, Exit
  <2>3. Entering(hugr, first) = Len(hugr.ins[n])
    BY <1>1, <1>2, Fits DEF RowsFit, Entry
  <2> QED BY <2>1, <2>2, <2>3
<1> DEFINE L == Len(c.blocks)
<1>10. Shaped(c) /\ L \in Nat /\ c.pos \in DOMAIN c.blocks /\ DOMAIN c.blocks = 1 .. L
  <2> HIDE DEF c
  <2> QED BY <1>7, ShapeFacts DEF CodeRuns
<1>11. ASSUME NEW m \in CfgBlocks(hugr, n) PROVE \E i \in 1 .. 1 + K : bb[m] = L + i
  <2> HIDE DEF c
  <2>1. CASE m = Exit(n)
    <3>1. bb[m] = L + 1 /\ 1 \in 1 .. 1 + K
      BY <1>4, <1>5, <2>1 DEF NewBlock
    <3> HIDE DEF bb, L, K
    <3> QED BY <3>1
  <2>2. CASE m # Exit(n)
    <3> DEFINE i == CHOOSE i \in DOMAIN dfbs : dfbs[i] = m
    <3>1. \E j \in DOMAIN dfbs : dfbs[j] = m
      BY <1>5, <2>2 DEF ToSet
    <3>2. i \in DOMAIN dfbs
      BY <3>1
    <3>3. m \in ToSet(dfbs) \cup {Exit(n)}
      BY <1>5
    <3>4. bb[m] = L + 1 + i
      BY <2>2, <3>3 DEF NewBlock
    <3> HIDE DEF bb, L, K, i
    <3>5. 1 + i \in 1 .. 1 + K /\ bb[m] = L + (1 + i)
      BY <1>4, <1>10, <3>2, <3>4
    <3> QED BY <3>5
  <2> QED BY <2>1, <2>2
<1> HIDE DEF c, v, row
<1>12. \A m, k \in CfgBlocks(hugr, n) : bb[m] = bb[k] => m = k
  <2> HIDE DEF d, g
  <2>1. stack' = Append(Append(Front(stack), v), g)
    BY <1>1 DEF ReplaceTop
  <2>2. Len(stack') = Len(stack) + 1 /\ stack'[Len(stack) + 1] = g /\ Len(stack) \in Nat
    BY <1>2, <2>1, PushFacts, SeqFacts
  <2>3. FrameOK(hugr', stack'[Len(stack) + 1], Len(Code'.blocks), mailboxes')
    <3>1. FramesOK(hugr', stack', Len(Code'.blocks), mailboxes')
      BY DEF IInv, Sound
    <3>2. Len(stack) + 1 \in 1 .. Len(stack')
      BY <2>2
    <3> QED BY <3>1, <3>2 DEF FramesOK
  <2>4. IsCfg(hugr, g, Len(Code'.blocks), mailboxes')
    BY <1>1, <1>8, <2>2, <2>3 DEF FrameOK, IsDataflow, IsConditional
  <2> HIDE DEF bb
  <2> QED BY <1>8, <2>4 DEF IsCfg
<1> HIDE DEF bb, K, dfbs, d, g
<1> DEFINE is(i) == CHOOSE m \in CfgBlocks(hugr, n) : bb[m] = L + i
           has == [i \in 1 .. 1 + K |-> Within(hugr, base, n, is(i))]
<1>13. ASSUME NEW m \in CfgBlocks(hugr, n)
       PROVE  \E i \in 1 .. 1 + K : bb[m] = L + i /\ has[i] = Within(hugr, base, n, m)
  <2>1. PICK i \in 1 .. 1 + K : bb[m] = L + i
    BY <1>11
  <2>2. is(i) = m
    BY <1>12, <2>1
  <2>3. has[i] = Within(hugr, base, n, is(i))
    OBVIOUS
  <2> QED BY <2>1, <2>2, <2>3
<1> HIDE DEF is, has, base
<1>14. PICK more : Opens(hugr, c, ready, 1 + K, has, entry, more)
  <2>1. 1 + K \in Nat
    BY <1>4
  <2> QED BY <1>7, <2>1, AddRuns
<1>15. ready.pos = pos /\ DOMAIN ready.blocks = 1 .. L + (1 + K)
  <2> DEFINE k == 1 + K
  <2>1. k \in Nat
    BY <1>4
  <2>2. ready = AddBlocks(c, k)
    OBVIOUS
  <2> HIDE DEF k, ready
  <2>3. ready.pos = c.pos /\ DOMAIN ready.blocks = 1 .. Len(c.blocks) + k
    BY <1>7, <2>1, <2>2, AddRuns
  <2> QED BY <1>7, <2>3 DEF k
<1> HIDE DEF ready
<1>16. CodeRuns(hugr, ready, more) /\ Keeps(c, ready, entry, more) /\ Shaped(ready)
  BY <1>14 DEF Opens, CodeRuns
<1>17. \A m \in CfgBlocks(hugr, n) : Enters(ready, more, bb[m], Within(hugr, base, n, m))
  <2> SUFFICES ASSUME NEW m \in CfgBlocks(hugr, n)
               PROVE  Enters(ready, more, bb[m], Within(hugr, base, n, m))
    OBVIOUS
  <2>1. PICK i \in 1 .. 1 + K : bb[m] = L + i /\ has[i] = Within(hugr, base, n, m)
    BY <1>13
  <2>2. L + i \in 1 .. L + (1 + K)
    <3>1. L \in Nat /\ K \in Nat /\ i \in 1 .. 1 + K
      BY <1>4, <1>10
    <3> HIDE DEF L
    <3> QED BY <3>1
  <2>3. more[L + i] = Plain(has[i])
    BY <1>14 DEF Opens
  <2> QED BY <1>15, <2>1, <2>2, <2>3 DEF Enters
<1>18. base \subseteq Have(ready, more, pos)
  <2>1. Have(c, entry, pos) \subseteq Have(ready, more, pos)
    BY <1>7, <1>10, <1>16, HasStays
  <2> QED BY <1>3, <1>7, <2>1 DEF base
<1>19. Fills(hugr, ready, Args(n), row)
  <2> DEFINE from == InsOf(hugr, n)
             S == TypesIn(hugr, first)
  <2>1. Fetched(hugr, ready, Args(n), from)
    BY <1>7, <1>16, FetchedStays
  <2>2. /\ IsSeq(from) /\ Len(from) = Len(hugr.ins[n])
        /\ \A i \in 1 .. Len(from) : BoxType(hugr, from[i]) = InTypes(hugr, n)[i]
        /\ DOMAIN InTypes(hugr, n) = 1 .. Len(from)
    BY <1>2, InsFacts, InTypesFacts
  <2>3. Passes(InTypes(hugr, n), S)
    BY <1>1, <1>2, Fit DEF TypesFit, Guarded, Entry
  <2> HIDE DEF from, S
  <2>4. Gives(hugr, from, S)
    BY <2>2, <2>3 DEF Gives, Passes
  <2>5. InputsHold(hugr, ready, Args(n), S) /\ Len(Args(n)) = Len(from)
    BY <1>16, <2>1, <2>2, <2>4, FetchedHold
  <2> QED BY <1>9, <2>2, <2>5 DEF InputsHold, Fills, S
<1>20. /\ CodeRuns(hugr, written, more) /\ Keeps(ready, written, more, more) /\ written.pos = ready.pos
       /\ Have(ready, more, ready.pos) \cup ToSet(row) \subseteq Have(written, more, ready.pos)
  BY <1>9, <1>16, <1>19, WriteRuns
<1> HIDE DEF written
<1>21. Added(hugr, written, d, more, <<br>>)
  <2>1. /\ bb[first] \in DOMAIN written.blocks
        /\ more[bb[first]] = Plain(Within(hugr, base, n, first))
    BY <1>5, <1>17, <1>20 DEF Enters, Keeps
  <2>2. Within(hugr, base, n, first) \subseteq Have(written, more, written.pos)
    <3>1. Boxes(hugr, Adds(hugr, n, first)) = {}
      <4>1. ~IsRegion(hugr, n)
        BY <1>1, <1>2, HugrAssumption DEF IsRegion
      <4> QED BY <4>1, EntryAddsNothing DEF Entry
    <3>2. Within(hugr, base, n, first) = base \cup ToSet(row)
      BY <3>1 DEF Within, row
    <3> QED BY <1>15, <1>18, <1>20, <3>2
  <2>3. br.op = "br" /\ br.to = bb[first]
    BY DEF Branch
  <2> HIDE DEF br
  <2>4. Reaches(written, more, Have(written, more, written.pos), {}, br.to)
    BY <2>1, <2>2, <2>3 DEF Reaches, Plain
  <2>5. InstrRuns(hugr, written, more, Have(written, more, written.pos), more[written.pos].when, br)
    BY <2>3, <2>4 DEF InstrRuns
  <2> QED BY <1>20, <2>5, EndRuns DEF d
<1>22. CodeRuns(hugr, d, more) /\ Keeps(written, d, more, more)
  BY <1>21 DEF Added
<1>23. Keeps(ready, d, more, more) /\ Keeps(c, d, entry, more) /\ Keeps(Code, d, entry, more)
  BY <1>7, <1>16, <1>20, <1>22, KeepsFurther
<1>24. \A m \in CfgBlocks(hugr, n) : Enters(d, more, bb[m], Within(hugr, base, n, m))
  BY <1>17, <1>23 DEF Enters, Keeps
<1>25. CfgRuns(hugr, d, more, base, g)
  <2>1. /\ Len(OutsOf(hugr, n)) = hugr.nout[n]
        /\ \A p \in 1 .. hugr.nout[n] : BoxType(hugr, OutsOf(hugr, n)[p]) = hugr.types[n][p]
    BY <1>2, OutsFacts
  <2>2. ~(g.next > 2)
    BY <1>8
  <2> QED BY <1>8, <1>24, <2>1, <2>2 DEF CfgRuns, Takes
<1>26. FrameRuns(hugr, d, more, base, g)
  BY <1>3, <1>8, <1>25 DEF FrameRuns, base
<1>27. LinkRuns(hugr, d, more, bases[Len(stack)], v, base, g)
  <2>1. more[bb[Exit(n)]] = Plain(Within(hugr, base, n, Exit(n)))
    BY <1>5, <1>24 DEF Enters
  <2>2. base \subseteq more[bb[Exit(n)]].has
    BY <2>1 DEF Plain, Within
  <2>3. Known(hugr, bases[Len(stack)], v) \subseteq base \cup ToSet(OutsOf(hugr, n))
    BY <1>1, <1>3 DEF base
  <2>4. Known(hugr, bases[Len(stack)], v) \subseteq
          more[g.bb[hugr.kids[g.node][2]]].has \cup ToSet(g.outputs)
    BY <1>8, <2>2, <2>3 DEF Exit
  <2> QED BY <1>2, <1>8, <2>4 DEF LinkRuns
<1>28. ~(g.is = "dataflow")
  BY <1>8
<1> QED BY <1>1, <1>2, <1>3, <1>22, <1>23, <1>26, <1>27, <1>28, VisitCallRuns DEF v

\* The innermost activation, whatever it is.
LEMMA TopRuns ==
  ASSUME IInv, RInv, NEW is, Running(is)
  PROVE  /\ hugr \in Hugrs /\ IsSeq(stack) /\ stack # <<>> /\ Wired(hugr, stack)
         /\ Code.pos = pos /\ Code.blocks = blocks /\ Len(blocks) \in Nat
         /\ DOMAIN blocks = 1 .. Len(blocks) /\ pos \in DOMAIN blocks
         /\ Top = stack[Len(stack)] /\ Top.is = is
         /\ \E entry, bases :
              /\ CodeRuns(hugr, Code, entry) /\ StackRuns(hugr, Code, entry, bases, stack)
              /\ FrameRuns(hugr, Code, entry, bases[Len(stack)], Top)
              /\ is = "dataflow" => Known(hugr, bases[Len(stack)], Top) \subseteq Have(Code, entry, pos)
<1>1. /\ hugr \in Hugrs /\ IsSeq(stack) /\ stack # <<>> /\ Len(stack) \in Nat \ {0}
      /\ Code.pos = pos /\ Code.blocks = blocks /\ Len(blocks) \in Nat
      /\ DOMAIN blocks = 1 .. Len(blocks) /\ pos \in DOMAIN blocks
      /\ Top = stack[Len(stack)] /\ Top.is = is
  BY TopFacts
<1>2. PICK entry, bases : CodeRuns(hugr, Code, entry) /\ StackRuns(hugr, Code, entry, bases, stack)
  BY DEF RInv, Runs
<1>3. Len(stack) \in 1 .. Len(stack) /\ Len(stack) > 0
  BY <1>1
<1>4. /\ FrameRuns(hugr, Code, entry, bases[Len(stack)], Top)
      /\ is = "dataflow" => Known(hugr, bases[Len(stack)], Top) \subseteq Have(Code, entry, pos)
  BY <1>1, <1>2, <1>3 DEF StackRuns
<1>5. Wired(hugr, stack)
  BY IsWired
<1> QED BY <1>1, <1>2, <1>4, <1>5

\* It goes on without calling another.
LEMMA GoOnRuns ==
  ASSUME IInv, NEW is, Running(is), hugr' = hugr, NEW entry, NEW bases,
         CodeRuns(hugr, Code, entry), StackRuns(hugr, Code, entry, bases, stack),
         NEW d, SetCode(d), NEW more, CodeRuns(hugr, d, more), Keeps(Code, d, entry, more),
         NEW f, FrameRuns(hugr, d, more, bases[Len(stack)], f), SameLink(Top, f), f.is # "dataflow",
         stack' = ReplaceTop(f)
  PROVE  RInv'
<1>1. IsSeq(stack) /\ stack # <<>> /\ Top = stack[Len(stack)] /\ stack' = Append(Front(stack), f)
  BY TopFacts DEF ReplaceTop
<1>2. Shaped(Code) /\ Wired(hugr, stack)
  BY IsWired DEF CodeRuns
<1>3. Runs(hugr, d, Append(Front(stack), f))
  BY <1>1, <1>2, ReplaceRuns
<1> QED BY <1>1, <1>3, Rerun

\* It calls a dataflow parent.
LEMMA CallRuns ==
  ASSUME IInv, NEW is, Running(is), hugr' = hugr, NEW entry, NEW bases,
         CodeRuns(hugr, Code, entry), StackRuns(hugr, Code, entry, bases, stack),
         NEW d, SetCode(d), NEW more, CodeRuns(hugr, d, more), Keeps(Code, d, entry, more),
         NEW f, FrameRuns(hugr, d, more, bases[Len(stack)], f), SameLink(Top, f),
         NEW g, NEW base, FrameRuns(hugr, d, more, base, g),
         LinkRuns(hugr, d, more, bases[Len(stack)], f, base, g),
         Known(hugr, base, g) \subseteq Have(d, more, d.pos),
         stack' = Append(ReplaceTop(f), g)
  PROVE  RInv'
<1>1. /\ IsSeq(stack) /\ stack # <<>> /\ Top = stack[Len(stack)]
      /\ stack' = Append(Append(Front(stack), f), g)
  BY TopFacts DEF ReplaceTop
<1>2. Shaped(Code) /\ Wired(hugr, stack)
  BY IsWired DEF CodeRuns
<1>3. Runs(hugr, d, Append(Append(Front(stack), f), g))
  BY <1>1, <1>2, PushRuns
<1> QED BY <1>1, <1>3, Rerun

\* A node's cases see what it sees.
LEMMA CaseScope ==
  ASSUME NEW h \in Hugrs, NEW n \in NodesOf(h), h.kind[n] = "Conditional", NEW m \in ChildrenOf(h, n)
  PROVE  h.scope[m] = h.scope[n]
<1>1. ~IsRegion(h, n)
  BY HugrAssumption DEF IsRegion
<1>2. CfgBlocks(h, n) = {}
  BY KidsFacts DEF ChildrenFit, CfgBlocks
<1>3. Adds(h, n, m) = {}
  <2>1. {b \in CfgBlocks(h, n) : Dominates(h, n, b, m)} = {}
    BY <1>2
  <2> QED BY <1>1, <2>1 DEF Adds
<1>4. h.scope[m] = h.scope[n] \cup Adds(h, n, m)
  BY ScopeFacts
<1> QED BY <1>3, <1>4

LEMMA EnterCaseRuns ==
  ASSUME IInv, RInv, EnterCase
  PROVE  RInv'
<1> DEFINE n == Top.node
           kids == hugr.kids[n]
           k == Len(Top.cases)
           case == kids[k + 1]
           b == NewBlock(Code)
           a == AddBlocks(Code, 1)
           c == At(a, b)
           row == CaseRowOf(hugr, case)
           d == Read(c, row)
           f == [Top EXCEPT !.cases = Append(@, b), !.home = pos]
           g == DataflowFrame(case, Upcoming(c, Len(row)), ExitRowOf(hugr, n))
<1>1. /\ Running("conditional") /\ k < Len(kids) /\ SetCode(d)
      /\ stack' = Append(ReplaceTop(f), g) /\ hugr' = hugr
  <2>1. CaseRow(case) = row /\ ExitRow(n) = ExitRowOf(hugr, n)
    BY RowsAre DEF ExitRow, ExitRowOf
  <2> HIDE DEF row
  <2> QED BY <2>1 DEF EnterCase
<1>2. /\ hugr \in Hugrs /\ Code.pos = pos /\ Code.blocks = blocks
      /\ Len(blocks) \in Nat /\ DOMAIN blocks = 1 .. Len(blocks) /\ pos \in DOMAIN blocks
  BY <1>1, TopRuns
<1>3. PICK entry, bases :
              /\ CodeRuns(hugr, Code, entry) /\ StackRuns(hugr, Code, entry, bases, stack)
              /\ FrameRuns(hugr, Code, entry, bases[Len(stack)], Top)
  BY <1>1, TopRuns
<1>4. /\ IsConditional(hugr, Top, Len(blocks), mailboxes) /\ Top.is = "conditional"
      /\ n \in NodesOf(hugr) /\ hugr.kind[n] = "Conditional" /\ pos = Top.home
      /\ \A m \in ChildrenOf(hugr, n) : IsRegion(hugr, m) /\ hugr.kind[m] = "Case"
  BY <1>1, ConditionalFacts
<1>5. IsSeq(Top.cases) /\ k \in Nat
  BY <1>4, SeqFacts DEF IsConditional
<1>6. /\ Len(kids) \in Nat /\ ChildrenOf(hugr, n) \subseteq NodesOf(hugr) /\ DOMAIN kids = 1 .. Len(kids)
      /\ \A i \in 1 .. Len(kids) : kids[i] \in ChildrenOf(hugr, n)
  BY <1>2, <1>4, KidsFacts
<1>7. k + 1 \in 1 .. Len(kids)
  <2>1. k < Len(kids) /\ k \in Nat /\ Len(kids) \in Nat
    BY <1>1, <1>5, <1>6
  <2> HIDE DEF k, kids
  <2> QED BY <2>1
<1>8. case \in NodesOf(hugr) /\ IsRegion(hugr, case) /\ hugr.kind[case] = "Case"
      /\ case \in ChildrenOf(hugr, n)
  BY <1>4, <1>6, <1>7
<1>9. Leaving(hugr, case) = hugr.nout[n]
  <2>1. \A i \in DOMAIN kids : Leaving(hugr, kids[i]) = hugr.nout[n]
    BY <1>2, <1>4, Fits DEF RowsFit
  <2> QED BY <1>6, <1>7, <2>1
<1>10. /\ f.is = "conditional" /\ f.node = n /\ f.inputs = Top.inputs /\ f.exit = Top.exit
       /\ f.cases = Append(Top.cases, b) /\ f.home = pos
  <2>1. Top = [is |-> Top.is, node |-> n, inputs |-> Top.inputs, exit |-> Top.exit,
               cases |-> Top.cases, home |-> Top.home]
    BY <1>4 DEF IsConditional
  <2> DEFINE x == Append(Top.cases, b)
  <2>2. f = [Top EXCEPT !.cases = x, !.home = pos]
    OBVIOUS
  <2> HIDE DEF f, x, n, b
  <2>3. [Top EXCEPT !.cases = x, !.home = pos]
          = [is |-> Top.is, node |-> Top.node, inputs |-> Top.inputs, exit |-> Top.exit,
             cases |-> x, home |-> pos]
    <3>1. Top = [is |-> Top.is, node |-> Top.node, inputs |-> Top.inputs, exit |-> Top.exit,
                 cases |-> Top.cases, home |-> Top.home]
      BY <2>1 DEF n
    <3> QED BY <3>1, CaseFrame
  <2>4. /\ f.is = Top.is /\ f.node = Top.node /\ f.inputs = Top.inputs /\ f.exit = Top.exit
        /\ f.cases = x /\ f.home = pos
    BY <2>2, <2>3
  <2> QED BY <1>4, <2>4 DEF x, n
<1>11. /\ g.is = "dataflow" /\ g.node = case /\ g.outputs = ExitRowOf(hugr, n)
       /\ g.inputs = Upcoming(c, Len(row)) /\ g.left = ChildrenOf(hugr, case)
  <2> HIDE DEF c, row, case
  <2> QED BY DEF DataflowFrame
<1>12. b = Len(blocks) + 1
  BY <1>2 DEF NewBlock
<1>13. /\ IsSeq(row) /\ Len(row) = Entering(hugr, case)
       /\ \A i \in 1 .. Entering(hugr, case) : BoxType(hugr, row[i]) = TypesIn(hugr, case)[i]
  BY <1>2, <1>8, CaseRowTypes
<1>14. /\ Len(ExitRowOf(hugr, n)) = hugr.nout[n]
       /\ \A i \in 1 .. hugr.nout[n] : BoxType(hugr, ExitRowOf(hugr, n)[i]) = hugr.types[n][i]
  BY <1>2, <1>4, ExitRowTypes
<1>15. Passes(TypesOut(hugr, case), hugr.types[n])
  BY <1>2, <1>4, <1>8, Fit DEF TypesFit, Guarded
<1>16. Takes(hugr, ExitRowOf(hugr, n), TypesOut(hugr, case))
  <2> DEFINE out == TheChild(hugr, case, "Output")
             S == InTypes(hugr, out)
  <2>1. out \in NodesOf(hugr)
    BY <1>2, <1>8, RegionFacts
  <2>2. DOMAIN S = 1 .. hugr.nout[n]
    BY <1>2, <1>9, <2>1, InTypesFacts DEF Leaving
  <2>3. S = TypesOut(hugr, case)
    BY DEF TypesOut
  <2> HIDE DEF S
  <2> QED BY <1>14, <1>15, <2>2, <2>3 DEF Takes, Passes
<1> DEFINE base == bases[Len(stack)]
<1>17. ConditionalRuns(hugr, Code, entry, base, Top) /\ Boxes(hugr, hugr.scope[n]) \subseteq base
  BY <1>3, <1>4 DEF FrameRuns
<1>18. Boxes(hugr, hugr.scope[case]) \subseteq base
  BY <1>2, <1>4, <1>8, <1>17, CaseScope
<1> HIDE DEF f, g, b, base, case, row
<1>19. /\ a.pos = pos /\ DOMAIN a.blocks = 1 .. Len(blocks) + 1
       /\ \E more : /\ CodeRuns(hugr, a, more) /\ Keeps(Code, a, entry, more)
                    /\ more[b] = Plain(base \cup ToSet(row))
  <2> DEFINE one == 1
             has == [i \in 1 .. 1 |-> base \cup ToSet(row)]
  <2>1. one \in Nat /\ has[1] = base \cup ToSet(row) /\ 1 \in 1 .. one
    OBVIOUS
  <2>2. a = AddBlocks(Code, one)
    OBVIOUS
  <2> HIDE DEF has, a, one
  <2>3. /\ a.pos = Code.pos /\ DOMAIN a.blocks = 1 .. Len(Code.blocks) + one
        /\ \E more : Opens(hugr, Code, a, one, has, entry, more)
    BY <1>3, <2>1, <2>2, AddRuns
  <2>4. PICK more : Opens(hugr, Code, a, one, has, entry, more)
    BY <2>3
  <2>5. more[b] = Plain(base \cup ToSet(row))
    BY <1>2, <1>12, <2>1, <2>4 DEF Opens
  <2> QED BY <1>2, <2>3, <2>4, <2>5 DEF Opens, one
<1>20. PICK more : /\ CodeRuns(hugr, a, more) /\ Keeps(Code, a, entry, more)
                   /\ more[b] = Plain(base \cup ToSet(row))
  BY <1>19
<1>21. b \in DOMAIN a.blocks
  BY <1>2, <1>12, <1>19
<1> HIDE DEF a
<1>22. CodeRuns(hugr, c, more) /\ c.pos = b /\ Keeps(a, c, more, more)
  BY <1>20, <1>21, AtRuns
<1> HIDE DEF c
<1>23. base \cup ToSet(row) \subseteq Have(c, more, c.pos)
  BY <1>20, <1>22 DEF Have, Has, Plain
<1>24. /\ CodeRuns(hugr, d, more) /\ Keeps(c, d, more, more) /\ d.pos = c.pos
       /\ Fetched(hugr, d, Upcoming(c, Len(row)), row)
  <2>1. ToSet(row) \subseteq Have(c, more, c.pos)
    BY <1>23
  <2> QED BY <1>13, <1>22, <2>1, ReadRuns
<1> HIDE DEF d
<1>25. Keeps(a, d, more, more) /\ Keeps(Code, d, entry, more)
  BY <1>20, <1>22, <1>24, KeepsFurther
<1>26. Shaped(Code) /\ Shaped(d) /\ Shaped(c) /\ c.pos \in DOMAIN c.blocks
  BY <1>3, <1>22, <1>24 DEF CodeRuns, Shaped
<1>27. base \subseteq Have(d, more, d.pos)
  <2>1. Have(c, more, c.pos) \subseteq Have(d, more, c.pos)
    BY <1>24, <1>26, HasStays
  <2> QED BY <1>23, <1>24, <2>1
<1>28. FrameRuns(hugr, d, more, base, g) /\ Known(hugr, base, g) \subseteq Have(d, more, d.pos)
  <2>1. Gives(hugr, row, TypesIn(hugr, case))
    BY <1>13 DEF Gives
  <2>2. Len(g.outputs) = Leaving(hugr, case) /\ Takes(hugr, g.outputs, TypesOut(hugr, case))
    BY <1>9, <1>11, <1>14, <1>16
  <2>3. hugr.kind[case] # "DataflowBlock"
    BY <1>8
  <2>4. Fetched(hugr, d, g.inputs, row)
    BY <1>11, <1>24
  <2> QED BY <1>2, <1>8, <1>11, <1>13, <1>18, <1>26, <1>27, <2>1, <2>2, <2>3, <2>4, RegionRuns
<1>29. FrameRuns(hugr, d, more, base, f)
  <2>1. FrameRuns(hugr, d, more, base, Top)
    BY <1>3, <1>4, <1>25, <1>26, FrameRunsStays DEF base
  <2>2. ConditionalRuns(hugr, d, more, base, Top)
    BY <1>4, <2>1 DEF FrameRuns
  <2>3. Enters(d, more, b, base \cup ToSet(row))
    BY <1>20, <1>21, <1>25 DEF Enters, Keeps
  <2>4. ASSUME NEW i \in 1 .. Len(f.cases)
        PROVE  Enters(d, more, f.cases[i], base \cup ToSet(CaseRowOf(hugr, kids[i])))
    <3>1. /\ Len(f.cases) = k + 1 /\ f.cases[k + 1] = b
          /\ \A j \in 1 .. k : f.cases[j] = Top.cases[j]
      BY <1>5, <1>10, AppendSeq
    <3>2. CASE i \in 1 .. k
      BY <2>2, <3>1, <3>2 DEF ConditionalRuns
    <3>3. CASE i = k + 1
      BY <2>3, <3>1, <3>3 DEF case, row
    <3>4. i \in 1 .. k \/ i = k + 1
      BY <1>5, <3>1
    <3> QED BY <3>2, <3>3, <3>4
  <2>5. ConditionalRuns(hugr, d, more, base, f)
    BY <1>4, <1>10, <2>2, <2>4 DEF ConditionalRuns
  <2> QED BY <1>10, <1>17, <2>5 DEF FrameRuns
<1>30. LinkRuns(hugr, d, more, base, f, base, g)
  <2>1. more[Top.exit] = Plain(base \cup ToSet(ExitRowOf(hugr, n)))
    BY <1>17, <1>25 DEF ConditionalRuns, Enters, Keeps
  <2>2. more[f.exit].has \subseteq base \cup ToSet(g.outputs)
    BY <1>10, <1>11, <2>1 DEF Plain
  <2> QED BY <1>10, <2>2 DEF LinkRuns
<1>31. SameLink(Top, f)
  BY <1>4, <1>10 DEF SameLink
<1> QED BY <1>1, <1>3, <1>24, <1>25, <1>28, <1>29, <1>30, <1>31, CallRuns DEF base

\* The second child of a CFG is its exit block.
LEMMA ExitIsSecond ==
  ASSUME IInv, Running("cfg"), Top.next <= Len(hugr.kids[Top.node])
  PROVE  hugr.kind[hugr.kids[Top.node][Top.next]] = "ExitBlock" <=> Top.next = 2
<1> DEFINE n == Top.node
           kids == hugr.kids[n]
<1>1. hugr \in Hugrs /\ n \in NodesOf(hugr) /\ hugr.kind[n] = "CFG" /\ Top.next \in 1 .. Len(kids) + 1
  BY TopFacts, CfgTopFacts
<1>2. /\ Exit(n) \in CfgBlocks(hugr, n)
      /\ \A m \in CfgBlocks(hugr, n) : hugr.kind[m] = "ExitBlock" <=> m = Exit(n)
      /\ \A i, j \in 1 .. Len(kids) : kids[i] = kids[j] => i = j
  BY <1>1, CfgFacts
<1>3. Len(kids) \in Nat /\ DOMAIN kids = 1 .. Len(kids) /\ Len(kids) >= 2
      /\ \A i \in 1 .. Len(kids) : kids[i] \in ChildrenOf(hugr, n)
  BY <1>1, KidsFacts DEF ChildrenFit
<1> DEFINE x == Top.next
<1>4. x \in 1 .. Len(kids) /\ 2 \in 1 .. Len(kids)
  <2>1. x <= Len(kids)
    OBVIOUS
  <2> HIDE DEF x, kids
  <2> QED BY <1>1, <1>3, <2>1 DEF x
<1>5. kids[x] \in ChildrenOf(hugr, n)
  BY <1>3, <1>4
<1> HIDE DEF x, kids, n
<1>6. Exit(n) = kids[2]
  BY DEF Exit, kids
<1>7. ASSUME hugr.kind[kids[x]] = "ExitBlock" PROVE x = 2
  <2>1. kids[x] \in CfgBlocks(hugr, n)
    BY <1>5, <1>7 DEF CfgBlocks
  <2> QED BY <1>2, <1>4, <1>6, <1>7, <2>1
<1>8. ASSUME x = 2 PROVE hugr.kind[kids[x]] = "ExitBlock"
  BY <1>2, <1>6, <1>8
<1> QED BY <1>7, <1>8 DEF x, kids, n

LEMMA EnterBlockRuns ==
  ASSUME IInv, RInv, EnterBlock
  PROVE  RInv'
<1> DEFINE n == Top.node
           kids == hugr.kids[n]
           block == kids[Top.next]
           row == BlockRowOf(hugr, n, block)
           out == TheChild(hugr, block, "Output")
           b == Top.bb[block]
           c == At(Code, b)
           d == Read(c, row)
           x == Top.next + 1
           f == [Top EXCEPT !.next = x, !.home = pos]
           g == DataflowFrame(block, Upcoming(c, Len(row)), InsOf(hugr, out))
<1>1. /\ Running("cfg") /\ Top.next <= Len(kids) /\ hugr.kind[block] = "DataflowBlock"
      /\ SetCode(d) /\ stack' = Append(ReplaceTop(f), g) /\ hugr' = hugr
  <2>1. InputRow(n, block) = row /\ InsRow(out) = InsOf(hugr, out)
    BY RowsAre
  <2> HIDE DEF row
  <2> QED BY <2>1 DEF EnterBlock, CfgChild
<1>2. hugr \in Hugrs /\ Code.pos = pos /\ Code.blocks = blocks
  BY <1>1, TopRuns
<1>3. PICK entry, bases :
              /\ CodeRuns(hugr, Code, entry) /\ StackRuns(hugr, Code, entry, bases, stack)
              /\ FrameRuns(hugr, Code, entry, bases[Len(stack)], Top)
  BY <1>1, TopRuns
<1>4. /\ Top.is = "cfg" /\ n \in NodesOf(hugr) /\ hugr.kind[n] = "CFG"
      /\ Top = [is |-> Top.is, node |-> n, bb |-> Top.bb, outputs |-> Top.outputs,
                next |-> Top.next, home |-> Top.home]
      /\ Top.next \in 1 .. Len(kids) + 1
  BY <1>1, CfgTopFacts
<1>5. /\ f.is = "cfg" /\ f.node = n /\ f.bb = Top.bb /\ f.outputs = Top.outputs /\ f.next = x
  <2> HIDE DEF x
  <2>1. [Top EXCEPT !.next = x, !.home = pos]
          = [is |-> Top.is, node |-> Top.node, bb |-> Top.bb, outputs |-> Top.outputs,
             next |-> x, home |-> pos]
    BY <1>4, NextFrame
  <2>2. f = [Top EXCEPT !.next = x, !.home = pos]
    OBVIOUS
  <2> HIDE DEF f
  <2> QED BY <1>4, <2>1, <2>2
<1>6. /\ g.is = "dataflow" /\ g.node = block /\ g.outputs = InsOf(hugr, out)
      /\ g.inputs = Upcoming(c, Len(row)) /\ g.left = ChildrenOf(hugr, block)
  <2> HIDE DEF c, row, block, out
  <2> QED BY DEF DataflowFrame
<1>7. x > 2 => Top.next > 2
  <2>1. Top.next # 2
    BY <1>1, ExitIsSecond
  <2> QED BY <1>4, <2>1
<1> HIDE DEF f, g, x
<1>8. block \in ChildrenOf(hugr, n) /\ block \in NodesOf(hugr) /\ block \in CfgBlocks(hugr, n)
  <2>1. Top.next \in 1 .. Len(kids)
    BY <1>1, <1>2, <1>4, KidsFacts
  <2> QED BY <1>1, <1>2, <1>4, <2>1, KidsFacts DEF CfgBlocks
<1> HIDE DEF block
<1>9. IsRegion(hugr, block) /\ block # hugr.kids[n][2]
  BY <1>1, <1>2, <1>4, <1>8, CfgFacts DEF IsRegion, Exit
<1>10. /\ IsSeq(row) /\ Len(row) = Entering(hugr, block)
       /\ \A i \in 1 .. Len(row) : BoxType(hugr, row[i]) = TypesIn(hugr, block)[i]
  <2>1. /\ IsSeq(row) /\ Len(row) = BlockTakes(hugr, n, block)
        /\ \A i \in 1 .. BlockTakes(hugr, n, block) :
             BoxType(hugr, row[i]) = BlockTypes(hugr, n, block)[i]
    BY <1>1, <1>2, <1>4, <1>8, BlockRowTypes
  <2> HIDE DEF row
  <2> QED BY <1>9, <2>1 DEF BlockTakes, BlockTypes
<1>11. /\ out \in NodesOf(hugr) /\ Len(InsOf(hugr, out)) = Leaving(hugr, block)
       /\ Takes(hugr, InsOf(hugr, out), TypesOut(hugr, block))
  <2>1. out \in NodesOf(hugr)
    BY <1>2, <1>8, <1>9, RegionFacts
  <2>2. /\ Len(InsOf(hugr, out)) = Len(hugr.ins[out])
        /\ \A i \in 1 .. Len(hugr.ins[out]) : BoxType(hugr, InsOf(hugr, out)[i]) = InTypes(hugr, out)[i]
    BY <1>2, <2>1, InsFacts
  <2> QED BY <2>1, <2>2 DEF Takes, TypesOut, Leaving
<1> DEFINE base == bases[Len(stack)]
           inner == Within(hugr, base, n, block)
<1>12. CfgRuns(hugr, Code, entry, base, Top) /\ Boxes(hugr, hugr.scope[n]) \subseteq base
  BY <1>3, <1>4 DEF FrameRuns
<1>13. b \in DOMAIN Code.blocks /\ entry[b] = Plain(inner)
  BY <1>8, <1>12 DEF CfgRuns, Enters
<1>14. Boxes(hugr, hugr.scope[block]) \subseteq inner /\ ToSet(row) \subseteq inner
  <2>1. hugr.scope[block] = hugr.scope[n] \cup Adds(hugr, n, block)
    BY <1>2, <1>4, <1>8, ScopeFacts
  <2>2. Boxes(hugr, hugr.scope[block]) \subseteq Boxes(hugr, hugr.scope[n]) \cup Boxes(hugr, Adds(hugr, n, block))
    BY <2>1 DEF Boxes
  <2> QED BY <1>12, <2>2 DEF Within
<1> HIDE DEF base, inner, row, b, out
<1>15. /\ CodeRuns(hugr, c, entry) /\ c.pos = b /\ c.blocks = Code.blocks /\ Keeps(Code, c, entry, entry)
  BY <1>3, <1>13, AtRuns
<1> HIDE DEF c
<1>16. inner \subseteq Have(c, entry, c.pos)
  BY <1>13, <1>15 DEF Have, Has, Plain
<1>17. /\ CodeRuns(hugr, d, entry) /\ Keeps(c, d, entry, entry) /\ d.pos = c.pos
       /\ Fetched(hugr, d, Upcoming(c, Len(row)), row)
  <2>1. ToSet(row) \subseteq Have(c, entry, c.pos)
    BY <1>14, <1>16
  <2> QED BY <1>10, <1>15, <2>1, ReadRuns
<1> HIDE DEF d
<1>18. Keeps(Code, d, entry, entry)
  BY <1>15, <1>17, KeepsFurther
<1>19. Shaped(Code) /\ Shaped(d) /\ Shaped(c) /\ c.pos \in DOMAIN c.blocks
  BY <1>3, <1>15, <1>17 DEF CodeRuns, Shaped
<1>20. inner \subseteq Have(d, entry, d.pos)
  <2>1. Have(c, entry, c.pos) \subseteq Have(d, entry, c.pos)
    BY <1>17, <1>19, HasStays
  <2> QED BY <1>16, <1>17, <2>1
<1>21. FrameRuns(hugr, d, entry, inner, g) /\ Known(hugr, inner, g) \subseteq Have(d, entry, d.pos)
  <2>1. Gives(hugr, row, TypesIn(hugr, block))
    BY <1>10 DEF Gives
  <2>2. Len(g.outputs) = Leaving(hugr, block) /\ Takes(hugr, g.outputs, TypesOut(hugr, block))
    BY <1>6, <1>11
  <2>3. g.outputs = InsOf(hugr, TheChild(hugr, block, "Output"))
    BY <1>6 DEF out
  <2>4. Fetched(hugr, d, g.inputs, row)
    BY <1>6, <1>17
  <2> QED BY <1>2, <1>6, <1>8, <1>9, <1>10, <1>14, <1>19, <1>20, <2>1, <2>2, <2>3, <2>4, RegionRuns
<1>22. FrameRuns(hugr, d, entry, base, f)
  <2>1. FrameRuns(hugr, d, entry, base, Top)
    <3>1. hugr.kids[Top.node][2] \in CfgBlocks(hugr, Top.node)
      BY <1>2, <1>4, CfgFacts DEF Exit
    <3> QED BY <1>3, <1>18, <1>19, <3>1, FrameRunsStays DEF base
  <2>2. CfgRuns(hugr, d, entry, base, Top)
    BY <1>4, <2>1 DEF FrameRuns
  <2>3. CfgRuns(hugr, d, entry, base, f)
    BY <1>5, <1>7, <2>2 DEF CfgRuns
  <2> QED BY <1>5, <1>12, <2>3 DEF FrameRuns
<1>23. LinkRuns(hugr, d, entry, base, f, inner, g)
  <2>1. entry[f.bb[g.node]].has \subseteq inner
    BY <1>5, <1>6, <1>13 DEF Plain, b
  <2> QED BY <1>5, <2>1 DEF LinkRuns
<1>24. SameLink(Top, f)
  BY <1>4, <1>5 DEF SameLink
<1> QED BY <1>1, <1>3, <1>17, <1>18, <1>21, <1>22, <1>23, <1>24, CallRuns DEF base

LEMMA ExitBlockRuns ==
  ASSUME IInv, RInv, EmitExitBlock
  PROVE  RInv'
<1> DEFINE n == Top.node
           b == Top.bb[hugr.kids[n][2]]
           row == ExitRowOf(hugr, n)
           to == Top.outputs
           c == At(Code, b)
           m == Write(Read(c, row), to, Upcoming(c, Len(row)))
           d == At(m, pos)
           x == Top.next + 1
           f == [Top EXCEPT !.next = x]
<1>1. /\ Running("cfg") /\ SetCode(d) /\ stack' = ReplaceTop(f) /\ hugr' = hugr
  <2>1. ExitRow(n) = row
    BY DEF ExitRow, ExitRowOf
  <2> HIDE DEF row
  <2> QED BY <2>1 DEF EmitExitBlock, CfgChild, Exit
<1>2. hugr \in Hugrs /\ Code.pos = pos /\ Code.blocks = blocks /\ pos \in DOMAIN blocks
  BY <1>1, TopRuns
<1>3. PICK entry, bases :
              /\ CodeRuns(hugr, Code, entry) /\ StackRuns(hugr, Code, entry, bases, stack)
              /\ FrameRuns(hugr, Code, entry, bases[Len(stack)], Top)
  BY <1>1, TopRuns
<1>4. /\ Top.is = "cfg" /\ n \in NodesOf(hugr) /\ hugr.kind[n] = "CFG"
      /\ Top = [is |-> Top.is, node |-> n, bb |-> Top.bb, outputs |-> Top.outputs,
                next |-> Top.next, home |-> Top.home]
      /\ IsSeq(to)
  BY <1>1, CfgTopFacts DEF IsCfg
<1>5. /\ f.is = "cfg" /\ f.node = n /\ f.bb = Top.bb /\ f.outputs = Top.outputs /\ f.next = x
  <2> HIDE DEF x
  <2>1. [Top EXCEPT !.next = x]
          = [is |-> Top.is, node |-> Top.node, bb |-> Top.bb, outputs |-> Top.outputs,
             next |-> x, home |-> Top.home]
    BY <1>4, NextFrame
  <2>2. f = [Top EXCEPT !.next = x]
    OBVIOUS
  <2> HIDE DEF f
  <2> QED BY <1>4, <2>1, <2>2
<1> HIDE DEF f, x
<1> DEFINE base == bases[Len(stack)]
           exit == hugr.kids[n][2]
<1>6. exit \in CfgBlocks(hugr, n)
  BY <1>2, <1>4, CfgFacts DEF Exit
<1>7. CfgRuns(hugr, Code, entry, base, Top) /\ Boxes(hugr, hugr.scope[n]) \subseteq base
  BY <1>3, <1>4 DEF FrameRuns
<1>8. b \in DOMAIN Code.blocks /\ entry[b] = Plain(Within(hugr, base, n, exit))
  BY <1>6, <1>7 DEF CfgRuns, Enters
<1>9. /\ IsSeq(row) /\ Len(row) = hugr.nout[n] /\ Len(to) = Len(row)
      /\ \A i \in 1 .. Len(to) : BoxType(hugr, row[i]) \subseteq BoxType(hugr, to[i])
  <2>1. /\ IsSeq(row) /\ Len(row) = hugr.nout[n]
        /\ \A i \in 1 .. hugr.nout[n] : BoxType(hugr, row[i]) = hugr.types[n][i]
    BY <1>2, <1>4, ExitRowTypes
  <2>2. Len(to) = hugr.nout[n] /\ \A i \in 1 .. Len(to) : hugr.types[n][i] \subseteq BoxType(hugr, to[i])
    BY <1>7 DEF CfgRuns, Takes
  <2> HIDE DEF row, to
  <2> QED BY <2>1, <2>2
<1>10. ToSet(row) \subseteq Within(hugr, base, n, exit)
  BY DEF Within, BlockRowOf, ExitRowOf
<1> HIDE DEF base, b, row, to, exit
<1>11. CodeRuns(hugr, c, entry) /\ c.pos = b /\ Keeps(Code, c, entry, entry)
  BY <1>3, <1>8, AtRuns
<1> HIDE DEF c
<1>12. ToSet(row) \subseteq Have(c, entry, c.pos)
  BY <1>8, <1>10, <1>11 DEF Have, Has, Plain
<1>13. /\ CodeRuns(hugr, m, entry) /\ Keeps(c, m, entry, entry)
       /\ Have(c, entry, c.pos) \cup ToSet(to) \subseteq Have(m, entry, c.pos)
  BY <1>4, <1>9, <1>11, <1>12, MoveRuns
<1> HIDE DEF m
<1>14. Keeps(Code, m, entry, entry) /\ pos \in DOMAIN m.blocks
  <2>1. Keeps(Code, m, entry, entry)
    BY <1>11, <1>13, KeepsFurther
  <2> QED BY <1>2, <2>1 DEF Keeps
<1>15. CodeRuns(hugr, d, entry) /\ Keeps(m, d, entry, entry) /\ \A a : Have(d, entry, a) = Have(m, entry, a)
  BY <1>13, <1>14, AtRuns
<1> HIDE DEF d
<1>16. Keeps(Code, d, entry, entry)
  BY <1>14, <1>15, KeepsFurther
<1>17. FrameRuns(hugr, d, entry, base, f)
  <2>1. Shaped(Code) /\ Shaped(d)
    BY <1>3, <1>15 DEF CodeRuns
  <2>2. FrameRuns(hugr, d, entry, base, Top)
    BY <1>3, <1>6, <1>16, <2>1, FrameRunsStays DEF base, exit
  <2>3. CfgRuns(hugr, d, entry, base, Top)
    BY <1>4, <2>2 DEF FrameRuns
  <2>4. ToSet(f.outputs) \subseteq Have(d, entry, f.bb[hugr.kids[f.node][2]])
    BY <1>5, <1>11, <1>13, <1>15 DEF to, b
  <2>5. CfgRuns(hugr, d, entry, base, f)
    BY <1>5, <2>3, <2>4 DEF CfgRuns
  <2> QED BY <1>5, <1>7, <2>5 DEF FrameRuns, base
<1>18. SameLink(Top, f) /\ f.is # "dataflow"
  BY <1>4, <1>5 DEF SameLink
<1> QED BY <1>1, <1>3, <1>15, <1>16, <1>17, <1>18, GoOnRuns DEF base

LEMMA CfgDefinitionRuns ==
  ASSUME IInv, RInv, EmitCfgDefinition
  PROVE  RInv'
<1> DEFINE n == Top.node
           x == Top.next + 1
           f == [Top EXCEPT !.next = x]
<1>1. /\ Running("cfg") /\ SetCode(Code) /\ stack' = ReplaceTop(f) /\ hugr' = hugr
      /\ Top.next <= Len(hugr.kids[n]) /\ hugr.kind[hugr.kids[n][Top.next]] \in Silent
  BY DEF EmitCfgDefinition, CfgChild, SetCode, Code
<1>2. PICK entry, bases :
              /\ CodeRuns(hugr, Code, entry) /\ StackRuns(hugr, Code, entry, bases, stack)
              /\ FrameRuns(hugr, Code, entry, bases[Len(stack)], Top)
  BY <1>1, TopRuns
<1>3. /\ Top.is = "cfg" /\ Top.next \in 1 .. Len(hugr.kids[n]) + 1
      /\ Top = [is |-> Top.is, node |-> n, bb |-> Top.bb, outputs |-> Top.outputs,
                next |-> Top.next, home |-> Top.home]
  BY <1>1, CfgTopFacts
<1>4. /\ f.is = "cfg" /\ f.node = n /\ f.bb = Top.bb /\ f.outputs = Top.outputs /\ f.next = x
  <2> HIDE DEF x
  <2>1. [Top EXCEPT !.next = x]
          = [is |-> Top.is, node |-> Top.node, bb |-> Top.bb, outputs |-> Top.outputs,
             next |-> x, home |-> Top.home]
    BY <1>3, NextFrame
  <2>2. f = [Top EXCEPT !.next = x]
    OBVIOUS
  <2> HIDE DEF f
  <2> QED BY <1>3, <2>1, <2>2
<1>5. x > 2 => Top.next > 2
  <2>1. Top.next # 2
    BY <1>1, ExitIsSecond DEF Silent
  <2> QED BY <1>3, <2>1
<1> HIDE DEF f, x
<1>6. FrameRuns(hugr, Code, entry, bases[Len(stack)], f)
  BY <1>2, <1>3, <1>4, <1>5 DEF FrameRuns, CfgRuns
<1>7. Keeps(Code, Code, entry, entry)
  BY DEF Keeps
<1>8. SameLink(Top, f) /\ f.is # "dataflow"
  BY <1>3, <1>4 DEF SameLink
<1> QED BY <1>1, <1>2, <1>6, <1>7, <1>8, GoOnRuns

-----------------------------------------------------------------------------
(* Returning.                                                              *)

LEMMA ReturnRuns ==
  ASSUME IInv, NEW is, Running(is), hugr' = hugr, stack' = Pop, NEW entry, NEW bases,
         CodeRuns(hugr, Code, entry), StackRuns(hugr, Code, entry, bases, stack),
         NEW d, SetCode(d), NEW more, CodeRuns(hugr, d, more), Keeps(Code, d, entry, more),
         Len(stack) > 1 /\ Below.is = "dataflow" =>
           Known(hugr, bases[Len(stack) - 1], Below) \subseteq Have(d, more, d.pos)
  PROVE  RInv'
<1>1. IsSeq(stack) /\ stack # <<>>
  BY TopFacts
<1>2. Shaped(Code) /\ Wired(hugr, stack)
  BY IsWired DEF CodeRuns
<1>3. Runs(hugr, d, Front(stack))
  BY <1>1, <1>2, PopRuns DEF Below
<1> QED BY <1>1, <1>3, Rerun DEF Pop

\* What an activation needs when its callee returns.
LEMMA LinkTop ==
  ASSUME IInv, NEW is, Running(is), Len(stack) > 1, NEW entry, NEW bases,
         StackRuns(hugr, Code, entry, bases, stack)
  PROVE  /\ FrameRuns(hugr, Code, entry, bases[Len(stack) - 1], Below)
         /\ LinkRuns(hugr, Code, entry, bases[Len(stack) - 1], Below, bases[Len(stack)], Top)
         /\ Calls(hugr, Below, Top)
<1>1. Len(stack) \in Nat /\ Top = stack[Len(stack)] /\ Calls(hugr, Below, Top)
  BY TopFacts, BelowFacts
<1> DEFINE k == Len(stack) - 1
<1>2. k \in 1 .. Len(stack) /\ k \in 1 .. Len(stack) - 1 /\ k + 1 = Len(stack) /\ Below = stack[k]
  BY <1>1 DEF Below
<1> HIDE DEF k
<1>3. /\ FrameRuns(hugr, Code, entry, bases[k], stack[k])
      /\ LinkRuns(hugr, Code, entry, bases[k], stack[k], bases[k + 1], stack[k + 1])
  BY <1>2 DEF StackRuns
<1> QED BY <1>1, <1>2, <1>3 DEF k

\* An activation all of whose children have been visited.
LEMMA DoneRuns ==
  ASSUME IInv, RInv, Running("dataflow"), Top.left = {}
  PROVE  \E entry, bases :
           /\ CodeRuns(hugr, Code, entry) /\ StackRuns(hugr, Code, entry, bases, stack)
           /\ DataflowRuns(hugr, Code, Top)
           /\ bases[Len(stack)] \subseteq Have(Code, entry, pos)
           /\ ToSet(Top.outputs) \subseteq Have(Code, entry, pos)
           /\ Boxes(hugr, ChildrenOf(hugr, Top.node)) \subseteq Have(Code, entry, pos)
<1>1. PICK entry, bases :
              /\ CodeRuns(hugr, Code, entry) /\ StackRuns(hugr, Code, entry, bases, stack)
              /\ FrameRuns(hugr, Code, entry, bases[Len(stack)], Top)
              /\ Known(hugr, bases[Len(stack)], Top) \subseteq Have(Code, entry, pos)
  BY TopRuns
<1>2. Top.is = "dataflow"
  BY TopRuns
<1>3. DataflowRuns(hugr, Code, Top)
  BY <1>1, <1>2 DEF FrameRuns
<1>4. ChildrenOf(hugr, Top.node) \ Top.left = ChildrenOf(hugr, Top.node)
  OBVIOUS
<1>5. Known(hugr, bases[Len(stack)], Top) =
        bases[Len(stack)] \cup Boxes(hugr, ChildrenOf(hugr, Top.node)) \cup ToSet(Top.outputs)
  BY <1>4 DEF Known
<1> QED BY <1>1, <1>3, <1>5

LEMMA LeaveDfgRuns ==
  ASSUME IInv, RInv, LeaveDfg
  PROVE  RInv'
<1>1. /\ Running("dataflow") /\ Top.left = {} /\ Len(stack) > 1 /\ Below.is = "dataflow"
      /\ stack' = Pop /\ SetCode(Code) /\ hugr' = hugr /\ Code.pos = pos /\ Top.is = "dataflow"
  BY DEF LeaveDfg, Completed, SetCode, Code, Running
<1>2. PICK entry, bases :
           /\ CodeRuns(hugr, Code, entry) /\ StackRuns(hugr, Code, entry, bases, stack)
           /\ bases[Len(stack)] \subseteq Have(Code, entry, pos)
           /\ ToSet(Top.outputs) \subseteq Have(Code, entry, pos)
  BY <1>1, DoneRuns
<1>3. LinkRuns(hugr, Code, entry, bases[Len(stack) - 1], Below, bases[Len(stack)], Top)
  BY <1>1, <1>2, LinkTop
<1>4. Known(hugr, bases[Len(stack) - 1], Below) \subseteq bases[Len(stack)] \cup ToSet(Top.outputs)
  BY <1>1, <1>3 DEF LinkRuns
<1>5. Keeps(Code, Code, entry, entry)
  BY DEF Keeps
<1> QED BY <1>1, <1>2, <1>4, <1>5, ReturnRuns

LEMMA LeaveCaseRuns ==
  ASSUME IInv, RInv, LeaveCase
  PROVE  RInv'
<1> DEFINE br == Branch(Below.exit)
           c == Build(Code, <<br>>)
           d == At(c, Below.home)
<1>1. /\ Running("dataflow") /\ Top.left = {} /\ Len(stack) > 1 /\ Below.is = "conditional"
      /\ stack' = Pop /\ SetCode(d) /\ hugr' = hugr /\ Code.pos = pos
  BY DEF LeaveCase, Completed, Code
<1>2. PICK entry, bases :
           /\ CodeRuns(hugr, Code, entry) /\ StackRuns(hugr, Code, entry, bases, stack)
           /\ bases[Len(stack)] \subseteq Have(Code, entry, pos)
           /\ ToSet(Top.outputs) \subseteq Have(Code, entry, pos)
  BY <1>1, DoneRuns
<1> DEFINE base == bases[Len(stack) - 1]
<1>3. /\ LinkRuns(hugr, Code, entry, base, Below, bases[Len(stack)], Top)
      /\ FrameRuns(hugr, Code, entry, base, Below)
  BY <1>1, <1>2, LinkTop
<1> HIDE DEF base
<1>4. entry[Below.exit].has \subseteq Have(Code, entry, Code.pos)
  BY <1>1, <1>2, <1>3 DEF LinkRuns
<1>5. ConditionalRuns(hugr, Code, entry, base, Below)
  BY <1>1, <1>3 DEF FrameRuns
<1>6. Below.exit \in DOMAIN Code.blocks /\ entry[Below.exit].when = {} /\ Below.home \in DOMAIN Code.blocks
  BY <1>5 DEF ConditionalRuns, Enters, Plain
<1>7. InstrRuns(hugr, Code, entry, Have(Code, entry, Code.pos), entry[Code.pos].when, br)
  <2>1. br.op = "br" /\ br.to = Below.exit
    BY DEF Branch
  <2> HIDE DEF br
  <2>2. Reaches(Code, entry, Have(Code, entry, Code.pos), {}, br.to)
    BY <1>4, <1>6, <2>1 DEF Reaches
  <2> QED BY <2>1, <2>2 DEF InstrRuns
<1> HIDE DEF br
<1>8. CodeRuns(hugr, c, entry) /\ Keeps(Code, c, entry, entry)
  BY <1>2, <1>7, EndRuns DEF Added
<1> HIDE DEF c
<1>9. Below.home \in DOMAIN c.blocks
  BY <1>6, <1>8 DEF Keeps
<1>10. CodeRuns(hugr, d, entry) /\ Keeps(c, d, entry, entry)
  BY <1>8, <1>9, AtRuns
<1> HIDE DEF d
<1>11. Keeps(Code, d, entry, entry)
  BY <1>8, <1>10, KeepsFurther
<1> QED BY <1>1, <1>2, <1>10, <1>11, ReturnRuns

LEMMA LeaveCfgRuns ==
  ASSUME IInv, RInv, LeaveCfg
  PROVE  RInv'
<1> DEFINE n == Top.node
           exit == hugr.kids[n][2]
           b == Top.bb[exit]
           d == At(Code, b)
<1>1. /\ Running("cfg") /\ stack' = Pop /\ pos' = b /\ blocks' = blocks /\ hugr' = hugr
      /\ Top.next > Len(hugr.kids[n])
  BY DEF LeaveCfg, Exit
<1>2. hugr \in Hugrs /\ Code.blocks = blocks
  BY <1>1, TopRuns
<1>3. PICK entry, bases :
              /\ CodeRuns(hugr, Code, entry) /\ StackRuns(hugr, Code, entry, bases, stack)
              /\ FrameRuns(hugr, Code, entry, bases[Len(stack)], Top)
  BY <1>1, TopRuns
<1>4. Top.is = "cfg" /\ n \in NodesOf(hugr) /\ hugr.kind[n] = "CFG"
      /\ Top.next \in 1 .. Len(hugr.kids[n]) + 1
  BY <1>1, CfgTopFacts
<1>5. exit \in CfgBlocks(hugr, n) /\ Top.next > 2
  <2>1. Len(hugr.kids[n]) >= 2 /\ Len(hugr.kids[n]) \in Nat
    BY <1>2, <1>4, KidsFacts DEF ChildrenFit
  <2> QED BY <1>1, <1>2, <1>4, <2>1, CfgFacts DEF Exit
<1>6. CfgRuns(hugr, Code, entry, bases[Len(stack)], Top)
  BY <1>3, <1>4 DEF FrameRuns
<1>7. b \in DOMAIN Code.blocks /\ ToSet(Top.outputs) \subseteq Have(Code, entry, b)
  BY <1>5, <1>6 DEF CfgRuns, Enters
<1>8. /\ CodeRuns(hugr, d, entry) /\ d.pos = b /\ d.blocks = blocks /\ Keeps(Code, d, entry, entry)
      /\ \A a : Have(d, entry, a) = Have(Code, entry, a)
  BY <1>2, <1>3, <1>7, AtRuns
<1> HIDE DEF d
<1>9. SetCode(d)
  BY <1>1, <1>8 DEF SetCode
<1>10. ASSUME Len(stack) > 1, Below.is = "dataflow"
       PROVE  Known(hugr, bases[Len(stack) - 1], Below) \subseteq Have(d, entry, d.pos)
  <2>1. LinkRuns(hugr, Code, entry, bases[Len(stack) - 1], Below, bases[Len(stack)], Top)
    BY <1>1, <1>3, <1>10, LinkTop
  <2>2. Known(hugr, bases[Len(stack) - 1], Below) \subseteq entry[b].has \cup ToSet(Top.outputs)
    BY <1>4, <1>10, <2>1 DEF LinkRuns
  <2>3. entry[b].has \subseteq Have(Code, entry, b)
    BY DEF Have, Has
  <2> QED BY <1>7, <1>8, <2>2, <2>3
<1> QED BY <1>1, <1>3, <1>8, <1>9, <1>10, ReturnRuns

LEMMA PanicsRuns ==
  ASSUME RInv, UNCHANGED <<hugr, blocks, pos, stack>>
  PROVE  RInv'
<1>1. Code' = Code
  BY DEF Code
<1> QED BY <1>1 DEF RInv

\* What enters the variants of a sum that is taken apart together with the other
\* of the values vs.
Receives(h, c, entry, k, widths, rows, T, targets) == \A i \in 1 .. Len(widths) :
    /\ IsSeq(rows[i]) /\ Len(rows[i]) = widths[i] + k
    /\ \A j \in 1 .. Len(rows[i]) : BoxType(h, rows[i][j]) = T[i][j]
    /\ Reaches(c, entry, Have(c, entry, c.pos) \cup ToSet(rows[i]), {}, targets[i])

LEMMA Distributed ==
  ASSUME NEW h, NEW c, NEW entry, NEW vs, AreLoads(c, vs), vs # <<>>,
         NEW S, LoadTypes(h, c, vs) = S, Len(S) = Len(vs),
         NEW widths \in Seq(Nat), NEW T, Distributes(S, widths, T),
         NEW rows, NEW targets, Receives(h, c, entry, Len(vs) - 1, widths, rows, T, targets)
  PROVE  /\ IsLoad(c, vs[1]) /\ AreLoads(c, Tail(vs))
         /\ HandsOver(h, c, entry, vs[1], widths, rows, Tail(vs), targets)
<1> DEFINE rest == Tail(vs)
<1>1. IsSeq(vs) /\ Len(vs) \in Nat /\ DOMAIN vs = 1 .. Len(vs)
  BY SeqFacts DEF AreLoads
<1>2. /\ IsSeq(rest) /\ Len(rest) = Len(vs) - 1 /\ 1 \in 1 .. Len(vs)
      /\ \A i \in 1 .. Len(rest) : rest[i] = vs[i + 1] /\ i + 1 \in 1 .. Len(vs)
  BY <1>1, TailFacts
<1> HIDE DEF rest
<1>3. \A i \in 1 .. Len(vs) : IsLoad(c, vs[i]) /\ LoadType(h, c, vs[i]) = S[i]
  BY <1>1 DEF AreLoads, LoadTypes
<1>4. IsLoad(c, vs[1]) /\ AreLoads(c, rest)
  BY <1>2, <1>3 DEF AreLoads
<1>5. DOMAIN widths = 1 .. Len(widths) /\ \A i \in 1 .. Len(widths) : widths[i] \in Nat
  OBVIOUS
<1>6. ASSUME NEW x \in LoadType(h, c, vs[1])
      PROVE  /\ x.tag \in Nat /\ x.tag + 1 \in 1 .. Len(widths)
             /\ \A j \in 1 .. widths[x.tag + 1] : x.fields[j] \in BoxType(h, rows[x.tag + 1][j])
  <2> DEFINE i == x.tag + 1
  <2>1. x \in S[1]
    BY <1>2, <1>3
  <2>2. x.tag \in Nat /\ i \in 1 .. Len(widths) /\ \A j \in 1 .. widths[i] : x.fields[j] \in T[i][j]
    BY <1>5, <2>1 DEF Distributes
  <2> HIDE DEF i
  <2>3. Len(rows[i]) = widths[i] + (Len(vs) - 1) /\ \A j \in 1 .. Len(rows[i]) : BoxType(h, rows[i][j]) = T[i][j]
    BY <2>2 DEF Receives
  <2>4. widths[i] \in Nat
    BY <1>5, <2>2
  <2>5. \A j \in 1 .. widths[i] : j \in 1 .. Len(rows[i])
    <3> DEFINE w == widths[i]
               l == Len(rows[i])
               m == Len(vs)
    <3>1. w \in Nat /\ m \in Nat /\ 1 <= m /\ l = w + (m - 1)
      BY <1>1, <1>2, <2>3, <2>4
    <3> HIDE DEF w, l, m
    <3>2. \A j \in 1 .. w : j \in 1 .. l
      BY <3>1
    <3> QED BY <3>2 DEF w, l
  <2> QED BY <2>2, <2>3, <2>5 DEF i
<1>7. ASSUME NEW i \in 1 .. Len(widths)
      PROVE  /\ IsSeq(rows[i]) /\ Len(rows[i]) = widths[i] + Len(rest)
             /\ \A j \in 1 .. Len(rest) : LoadType(h, c, rest[j]) \subseteq BoxType(h, rows[i][widths[i] + j])
             /\ Reaches(c, entry, Have(c, entry, c.pos) \cup ToSet(rows[i]), {}, targets[i])
  <2>1. /\ IsSeq(rows[i]) /\ Len(rows[i]) = widths[i] + Len(rest)
        /\ \A j \in 1 .. Len(rows[i]) : BoxType(h, rows[i][j]) = T[i][j]
        /\ Reaches(c, entry, Have(c, entry, c.pos) \cup ToSet(rows[i]), {}, targets[i])
    BY <1>2 DEF Receives
  <2>2. \A j \in 2 .. Len(vs) : S[j] \subseteq T[i][widths[i] + j - 1]
    BY <1>5 DEF Distributes
  <2>3. ASSUME NEW j \in 1 .. Len(rest)
        PROVE  LoadType(h, c, rest[j]) \subseteq BoxType(h, rows[i][widths[i] + j])
    <3> DEFINE w == widths[i]
               l == Len(rows[i])
               m == Len(vs)
               r == Len(rest)
    <3>1. w \in Nat /\ m \in Nat /\ r = m - 1 /\ l = w + r /\ j \in 1 .. r
      BY <1>1, <1>2, <1>5, <2>1
    <3> HIDE DEF w, l, m, r
    <3>2. j + 1 \in 2 .. m /\ w + j \in 1 .. l /\ w + (j + 1) - 1 = w + j
      BY <3>1
    <3>3. S[j + 1] \subseteq T[i][w + (j + 1) - 1]
      BY <2>2, <3>2 DEF w, m
    <3>4. LoadType(h, c, rest[j]) = S[j + 1]
      BY <1>2, <1>3
    <3>5. BoxType(h, rows[i][w + j]) = T[i][w + j]
      BY <2>1, <3>2 DEF l
    <3>6. T[i][w + (j + 1) - 1] = T[i][w + j]
      BY <3>2
    <3> QED BY <3>3, <3>4, <3>5, <3>6 DEF w
  <2> QED BY <2>1, <2>3
<1>8. HandsOver(h, c, entry, vs[1], widths, rows, rest, targets)
  BY <1>6, <1>7 DEF HandsOver
<1> QED BY <1>4, <1>8 DEF rest

LEMMA LeaveConditionalRuns ==
  ASSUME IInv, RInv, LeaveConditional
  PROVE  RInv'
<1> DEFINE n == Top.node
           kids == hugr.kids[n]
           vs == Top.inputs
           widths == hugr.rows[n]
           rows == [i \in DOMAIN widths |-> CaseRowOf(hugr, kids[i])]
           targets == Top.cases
           a == Destructure(Code, vs[1], widths, rows, Tail(vs), targets)
           d == At(a, Top.exit)
<1>1. /\ Running("conditional") /\ Len(Top.cases) = Len(kids) /\ hugr' = hugr
      /\ \/ UNCHANGED <<blocks, pos, stack>>
         \/ SetCode(d) /\ stack' = Pop
  <2>1. \A m : CaseRow(m) = CaseRowOf(hugr, m)
    BY RowsAre
  <2> QED BY <2>1 DEF LeaveConditional
<1>2. CASE UNCHANGED <<blocks, pos, stack>>
  BY <1>1, <1>2, PanicsRuns
<1>3. CASE SetCode(d) /\ stack' = Pop
  <2>1. hugr \in Hugrs /\ Code.pos = pos /\ Code.blocks = blocks
    BY <1>1, TopRuns
  <2>2. PICK entry, bases :
              /\ CodeRuns(hugr, Code, entry) /\ StackRuns(hugr, Code, entry, bases, stack)
              /\ FrameRuns(hugr, Code, entry, bases[Len(stack)], Top)
    BY <1>1, TopRuns
  <2> DEFINE base == bases[Len(stack)]
  <2>3. /\ IsSeq(vs) /\ Top.is = "conditional" /\ n \in NodesOf(hugr)
        /\ hugr.kind[n] = "Conditional" /\ pos = Top.home
        /\ \A m \in ChildrenOf(hugr, n) : IsRegion(hugr, m)
        /\ Len(widths) = Len(kids)
    BY <1>1, ConditionalFacts DEF IsConditional
  <2>4. ConditionalRuns(hugr, Code, entry, base, Top)
    BY <2>2, <2>3 DEF FrameRuns
  <2> HIDE DEF base
  <2>5. /\ Fetched(hugr, Code, vs, InsOf(hugr, n)) /\ base \subseteq Have(Code, entry, Code.pos)
        /\ Enters(Code, entry, Top.exit, base \cup ToSet(ExitRowOf(hugr, n)))
    BY <2>1, <2>3, <2>4 DEF ConditionalRuns
  <2>6. /\ hugr.ins[n] # <<>> /\ DOMAIN kids = 1 .. Len(kids)
        /\ \A i \in 1 .. Len(kids) : /\ kids[i] \in NodesOf(hugr) /\ IsRegion(hugr, kids[i])
                                     /\ Entering(hugr, kids[i]) = widths[i] + Len(hugr.ins[n]) - 1
    <3>1. RowsFit(hugr, n)
      BY <2>1, <2>3, Fits
    <3>2. /\ DOMAIN kids = 1 .. Len(kids) /\ ChildrenOf(hugr, n) \subseteq NodesOf(hugr)
          /\ \A i \in 1 .. Len(kids) : kids[i] \in ChildrenOf(hugr, n)
      BY <2>1, <2>3, KidsFacts
    <3> QED BY <2>3, <3>1, <3>2 DEF RowsFit
  <2>7. widths \in Seq(Nat) /\ DOMAIN widths = 1 .. Len(widths)
    <3>1. hugr.rows \in [NodesOf(hugr) -> Seq(Nat)]
      BY <2>1, HugrAssumption
    <3>2. widths \in Seq(Nat)
      BY <2>3, <3>1
    <3> QED BY <3>2
  <2> DEFINE S == InTypes(hugr, n)
             T == [i \in DOMAIN kids |-> TypesIn(hugr, kids[i])]
  <2>8. /\ AreLoads(Code, vs) /\ Len(vs) = Len(hugr.ins[n]) /\ LoadTypes(hugr, Code, vs) = S
        /\ Len(S) = Len(vs)
    BY <2>1, <2>3, <2>5, FetchedTypes, InTypesFacts
  <2>9. Distributes(S, widths, T)
    BY <2>1, <2>3, Fit DEF TypesFit, Guarded
  <2>10. vs # <<>> /\ Len(vs) \in Nat
    <3>1. hugr.ins[n] \in Seq(NodesOf(hugr) \X Nat)
      <4>1. hugr.ins \in [NodesOf(hugr) -> Seq(NodesOf(hugr) \X Nat)]
        BY <2>1, HugrAssumption
      <4> QED BY <2>3, <4>1
    <3>2. Len(hugr.ins[n]) # 0
      BY <2>6, <3>1
    <3>3. Len(<<>>) = 0
      OBVIOUS
    <3> QED BY <2>3, <2>8, <3>2, <3>3, SeqFacts
  <2> HIDE DEF S
  <2>11. ASSUME NEW i \in 1 .. Len(widths)
         PROVE  /\ IsSeq(rows[i]) /\ Len(rows[i]) = widths[i] + (Len(vs) - 1)
                /\ \A j \in 1 .. Len(rows[i]) : BoxType(hugr, rows[i][j]) = T[i][j]
                /\ Reaches(Code, entry, Have(Code, entry, Code.pos) \cup ToSet(rows[i]), {}, targets[i])
    <3> DEFINE m == kids[i]
    <3>1. /\ i \in 1 .. Len(kids) /\ i \in 1 .. Len(Top.cases)
          /\ rows[i] = CaseRowOf(hugr, m) /\ T[i] = TypesIn(hugr, m)
      BY <1>1, <2>3, <2>6, <2>7
    <3>2. Enters(Code, entry, targets[i], base \cup ToSet(CaseRowOf(hugr, m)))
      BY <2>4, <3>1 DEF ConditionalRuns
    <3>3. m \in NodesOf(hugr) /\ IsRegion(hugr, m) /\ Entering(hugr, m) = widths[i] + Len(hugr.ins[n]) - 1
      BY <2>6, <3>1
    <3> HIDE DEF m, rows, T
    <3>4. /\ IsSeq(CaseRowOf(hugr, m)) /\ Len(CaseRowOf(hugr, m)) = Entering(hugr, m)
          /\ \A j \in 1 .. Entering(hugr, m) : BoxType(hugr, CaseRowOf(hugr, m)[j]) = TypesIn(hugr, m)[j]
      BY <2>1, <3>3, CaseRowTypes
    <3>5. widths[i] \in Nat
      BY <2>7
    <3>6. Len(rows[i]) = widths[i] + (Len(vs) - 1)
      <4> DEFINE w == widths[i]
                 l == Len(rows[i])
                 k == Len(vs)
      <4>1. l = w + k - 1 /\ w \in Nat /\ k \in Nat
        BY <2>8, <2>10, <3>1, <3>3, <3>4, <3>5
      <4> HIDE DEF w, l, k
      <4>2. l = w + (k - 1)
        BY <4>1
      <4> QED BY <4>2 DEF w, l, k
    <3>7. Reaches(Code, entry, Have(Code, entry, Code.pos) \cup ToSet(rows[i]), {}, targets[i])
      BY <2>5, <3>1, <3>2 DEF Enters, Plain, Reaches
    <3> QED BY <3>1, <3>4, <3>6, <3>7
  <2>12. Receives(hugr, Code, entry, Len(vs) - 1, widths, rows, T, targets)
    BY <2>11 DEF Receives
  <2> HIDE DEF rows, targets, widths, vs, T
  <2>13. /\ IsLoad(Code, vs[1]) /\ AreLoads(Code, Tail(vs))
         /\ HandsOver(hugr, Code, entry, vs[1], widths, rows, Tail(vs), targets)
    BY <2>7, <2>8, <2>9, <2>10, <2>12, Distributed
  <2>14. PICK more : CodeRuns(hugr, a, more) /\ Keeps(Code, a, entry, more)
    BY <2>2, <2>7, <2>13, DestructureRuns
  <2> HIDE DEF a
  <2>15. Top.exit \in DOMAIN Code.blocks /\ Top.exit \in DOMAIN a.blocks
    BY <2>5, <2>14 DEF Enters, Keeps
  <2>16. CodeRuns(hugr, d, more) /\ Keeps(a, d, more, more) /\ d.pos = Top.exit
    BY <2>14, <2>15, AtRuns
  <2> HIDE DEF d
  <2>17. Keeps(Code, d, entry, more)
    BY <2>14, <2>16, KeepsFurther
  <2>18. ASSUME Len(stack) > 1, Below.is = "dataflow"
         PROVE  Known(hugr, bases[Len(stack) - 1], Below) \subseteq Have(d, more, d.pos)
    <3>1. LinkRuns(hugr, Code, entry, bases[Len(stack) - 1], Below, bases[Len(stack)], Top)
      BY <1>1, <2>2, <2>18, LinkTop
    <3>2. Known(hugr, bases[Len(stack) - 1], Below) \subseteq Have(Code, entry, Top.exit)
      BY <2>3, <2>18, <3>1 DEF LinkRuns
    <3>3. Shaped(Code) /\ Shaped(d)
      BY <2>2, <2>16 DEF CodeRuns
    <3>4. Have(Code, entry, Top.exit) \subseteq Have(d, more, Top.exit)
      BY <2>15, <2>17, <3>3, HasStays
    <3> QED BY <2>16, <3>2, <3>4
  <2> QED BY <1>1, <1>3, <2>2, <2>16, <2>17, <2>18, ReturnRuns
<1> QED BY <1>1, <1>2, <1>3

\* What dominates a block dominates its successors, itself apart, and nothing
\* else but the block does so.
LEMMA DominatesFurther ==
  ASSUME NEW h, NEW n, NEW m \in CfgBlocks(h, n), h.kind[m] = "DataflowBlock",
         NEW i \in DOMAIN h.rows[m], NEW a, Dominates(h, n, a, h.succ[m][i]), a # m
  PROVE  Dominates(h, n, a, m)
<1> DEFINE b == h.succ[m][i]
<1>1. PICK S \in SUBSET (CfgBlocks(h, n) \ {a, b}) :
         /\ h.kids[n][1] \in S \cup {a}
         /\ \A s \in {t \in S : h.kind[t] = "DataflowBlock"} :
              \A j \in DOMAIN h.rows[s] : h.succ[s][j] \in S \cup {a}
  BY DEF Dominates
<1>2. a # b
  BY DEF Dominates
<1>3. m \notin S
  BY <1>1, <1>2
<1>4. S \in SUBSET (CfgBlocks(h, n) \ {a, m})
  BY <1>1, <1>3
<1> QED BY <1>1, <1>4 DEF Dominates

LEMMA AddsFurther ==
  ASSUME NEW h, NEW n, ~IsRegion(h, n), NEW m \in CfgBlocks(h, n), h.kind[m] = "DataflowBlock",
         NEW i \in DOMAIN h.rows[m]
  PROVE  Boxes(h, Adds(h, n, h.succ[m][i])) \subseteq
           Boxes(h, Adds(h, n, m)) \cup Boxes(h, ChildrenOf(h, m))
<1> DEFINE t == h.succ[m][i]
<1>1. \A a \in CfgBlocks(h, n) : Dominates(h, n, a, t) => a = m \/ Dominates(h, n, a, m)
  BY DominatesFurther
<1> HIDE DEF t
<1>2. Adds(h, n, t) \subseteq Adds(h, n, m) \cup ChildrenOf(h, m)
  BY <1>1 DEF Adds
<1> QED BY <1>2 DEF Boxes, t

LEMMA LeaveBlockRuns ==
  ASSUME IInv, RInv, LeaveBlock
  PROVE  RInv'
<1> DEFINE block == Top.node
           cfg == Below.node
           widths == hugr.rows[block]
           succ == hugr.succ[block]
           out == TheChild(hugr, block, "Output")
           results == InsOf(hugr, out)
           vs == Upcoming(Code, Len(results))
           rows == [i \in DOMAIN widths |-> BlockRowOf(hugr, cfg, succ[i])]
           targets == [i \in DOMAIN widths |-> Below.bb[succ[i]]]
           r == Read(Code, results)
           a == Destructure(r, vs[1], widths, rows, Tail(vs), targets)
           d == At(a, Below.home)
<1>1. /\ Running("dataflow") /\ Top.left = {} /\ Len(stack) > 1 /\ Below.is = "cfg" /\ hugr' = hugr
      /\ Completed("cfg")
      /\ \/ UNCHANGED <<blocks, pos, stack>>
         \/ SetCode(d) /\ stack' = Pop
  <2>1. \A m : InputRow(cfg, m) = BlockRowOf(hugr, cfg, m) /\ InsRow(m) = InsOf(hugr, m)
    BY RowsAre
  <2> QED BY <2>1 DEF LeaveBlock, Completed
<1>2. CASE UNCHANGED <<blocks, pos, stack>>
  BY <1>1, <1>2, PanicsRuns
<1>3. CASE SetCode(d) /\ stack' = Pop
  <2>1. hugr \in Hugrs /\ Code.pos = pos /\ Code.blocks = blocks /\ Top.is = "dataflow"
    BY <1>1, TopRuns
  <2>2. PICK entry, bases :
           /\ CodeRuns(hugr, Code, entry) /\ StackRuns(hugr, Code, entry, bases, stack)
           /\ DataflowRuns(hugr, Code, Top)
           /\ bases[Len(stack)] \subseteq Have(Code, entry, pos)
           /\ ToSet(Top.outputs) \subseteq Have(Code, entry, pos)
           /\ Boxes(hugr, ChildrenOf(hugr, block)) \subseteq Have(Code, entry, pos)
    BY <1>1, DoneRuns
  <2> DEFINE base == bases[Len(stack) - 1]
  <2>3. /\ LinkRuns(hugr, Code, entry, base, Below, bases[Len(stack)], Top)
        /\ FrameRuns(hugr, Code, entry, base, Below) /\ Calls(hugr, Below, Top)
    BY <1>1, <2>2, LinkTop
  <2>4. /\ CfgRuns(hugr, Code, entry, base, Below)
        /\ entry[Below.bb[block]].has \subseteq Have(Code, entry, pos)
    BY <1>1, <2>2, <2>3 DEF FrameRuns, LinkRuns
  <2> HIDE DEF base
  <2>5. /\ FrameOK(hugr, Below, Len(blocks), mailboxes)
        /\ DOMAIN blocks = 1 .. Len(blocks)
    BY <1>1, DataflowDone, TopFacts
  <2>6. /\ Below.home \in DOMAIN blocks /\ cfg \in NodesOf(hugr) /\ hugr.kind[cfg] = "CFG"
        /\ ~IsRegion(hugr, cfg)
    <3>1. Below.home \in DOMAIN blocks /\ cfg \in NodesOf(hugr) /\ hugr.kind[cfg] = "CFG"
      BY <1>1, <2>5 DEF FrameOK, IsDataflow, IsConditional, IsCfg
    <3> QED BY <2>1, <3>1, HugrAssumption DEF IsRegion
  <2>7. /\ block \in ChildrenOf(hugr, cfg) /\ hugr.kind[block] = "DataflowBlock"
        /\ block \in NodesOf(hugr) /\ IsRegion(hugr, block) /\ block \in CfgBlocks(hugr, cfg)
    <3>1. block \in ChildrenOf(hugr, cfg) /\ hugr.kind[block] = "DataflowBlock"
      BY <1>1, <2>3 DEF Calls
    <3> QED BY <2>1, <2>6, <3>1, KidsFacts DEF IsRegion, CfgBlocks
  <2>8. \A i \in DOMAIN widths : succ[i] \in CfgBlocks(hugr, cfg)
    <3>1. ChildrenFit(hugr, cfg)
      BY <2>1, <2>6, KidsFacts
    <3> QED BY <2>6, <2>7, <3>1 DEF ChildrenFit
  <2>9. /\ Leaving(hugr, block) > 0
        /\ \A i \in DOMAIN widths :
             BlockTakes(hugr, cfg, succ[i]) = widths[i] + Leaving(hugr, block) - 1
    <3>1. RowsFit(hugr, cfg)
      BY <2>1, <2>6, Fits
    <3> QED BY <2>6, <2>7, <3>1 DEF RowsFit
  <2>10. widths \in Seq(Nat) /\ DOMAIN widths = 1 .. Len(widths)
    <3>1. hugr.rows \in [NodesOf(hugr) -> Seq(Nat)]
      BY <2>1, HugrAssumption
    <3>2. widths \in Seq(Nat)
      BY <2>7, <3>1
    <3> QED BY <3>2
  <2>11. /\ out \in NodesOf(hugr) /\ IsSeq(results) /\ Len(results) = Leaving(hugr, block)
         /\ Len(results) \in Nat /\ ToSet(results) \subseteq Have(Code, entry, Code.pos)
    <3>1. out \in NodesOf(hugr)
      BY <2>1, <2>7, RegionFacts
    <3>2. IsSeq(results) /\ Len(results) = Leaving(hugr, block) /\ Len(results) \in Nat
      BY <2>1, <3>1, InsFacts DEF Leaving
    <3>3. results = Top.outputs
      BY <2>2, <2>7 DEF DataflowRuns
    <3> QED BY <2>1, <2>2, <3>1, <3>2, <3>3
  <2>12. \A i \in DOMAIN widths :
            Within(hugr, base, cfg, succ[i]) \subseteq
              Have(Code, entry, pos) \cup ToSet(BlockRowOf(hugr, cfg, succ[i]))
    <3> TAKE i \in DOMAIN widths
    <3>1. Boxes(hugr, Adds(hugr, cfg, succ[i])) \subseteq
            Boxes(hugr, Adds(hugr, cfg, block)) \cup Boxes(hugr, ChildrenOf(hugr, block))
      BY <2>6, <2>7, AddsFurther
    <3>2. Within(hugr, base, cfg, block) \subseteq Have(Code, entry, pos)
      <4> DEFINE w == Within(hugr, base, cfg, block)
      <4>1. entry[Below.bb[block]] = Plain(w)
        BY <2>4, <2>7 DEF CfgRuns, Enters
      <4> HIDE DEF w
      <4>2. entry[Below.bb[block]].has = w
        BY <4>1 DEF Plain
      <4> QED BY <2>4, <4>2 DEF w
    <3>3. base \cup Boxes(hugr, Adds(hugr, cfg, block)) \subseteq Have(Code, entry, pos)
      BY <3>2 DEF Within
    <3> QED BY <2>2, <3>1, <3>3 DEF Within
  <2> DEFINE S == TypesOut(hugr, block)
             T == [i \in DOMAIN widths |-> BlockTypes(hugr, cfg, succ[i])]
  <2>13. Distributes(S, widths, T)
    <3>1. TypesFit(hugr, cfg)
      BY <2>1, <2>6, Fit
    <3>2. \A m \in ChildrenOf(hugr, cfg) : hugr.kind[m] = "DataflowBlock" =>
                   Distributes(TypesOut(hugr, m), hugr.rows[m],
                          [i \in DOMAIN hugr.rows[m] |-> BlockTypes(hugr, cfg, hugr.succ[m][i])])
      BY <2>6, <3>1 DEF TypesFit, Guarded
    <3> QED BY <2>7, <3>2
  <2>14. /\ CodeRuns(hugr, r, entry) /\ Keeps(Code, r, entry, entry)
         /\ r.pos = Code.pos /\ Fetched(hugr, r, vs, results)
    BY <2>2, <2>11, ReadRuns
  <2>15. /\ AreLoads(r, vs) /\ Len(vs) = Leaving(hugr, block) /\ LoadTypes(hugr, r, vs) = S
         /\ Len(S) = Len(vs)
    <3>1. /\ AreLoads(r, vs) /\ Len(vs) = Len(hugr.ins[out]) /\ LoadTypes(hugr, r, vs) = InTypes(hugr, out)
      BY <2>1, <2>11, <2>14, FetchedTypes
    <3>2. Len(InTypes(hugr, out)) = Len(hugr.ins[out])
      BY <2>1, <2>11, InTypesFacts
    <3> QED BY <3>1, <3>2 DEF TypesOut, Leaving
  <2> HIDE DEF S, r, vs
  <2>16. vs # <<>> /\ Len(vs) \in Nat
    <3>1. Len(<<>>) = 0
      OBVIOUS
    <3> QED BY <2>9, <2>11, <2>15, <3>1
  <2>17. /\ Shaped(Code) /\ Shaped(r) /\ pos \in DOMAIN Code.blocks
    BY <2>1, <2>2, <2>14 DEF CodeRuns, Shaped
  <2>18. Have(Code, entry, pos) \subseteq Have(r, entry, r.pos)
    BY <2>1, <2>14, <2>17, HasStays
  <2>19. ASSUME NEW i \in 1 .. Len(widths)
         PROVE  /\ IsSeq(rows[i]) /\ Len(rows[i]) = widths[i] + (Len(vs) - 1)
                /\ \A j \in 1 .. Len(rows[i]) : BoxType(hugr, rows[i][j]) = T[i][j]
                /\ Reaches(r, entry, Have(r, entry, r.pos) \cup ToSet(rows[i]), {}, targets[i])
    <3> DEFINE m == succ[i]
    <3>1. /\ rows[i] = BlockRowOf(hugr, cfg, m) /\ targets[i] = Below.bb[m]
          /\ T[i] = BlockTypes(hugr, cfg, m) /\ m \in CfgBlocks(hugr, cfg) /\ i \in DOMAIN widths
      BY <2>8, <2>10
    <3>2. Enters(Code, entry, Below.bb[m], Within(hugr, base, cfg, m))
      BY <2>4, <3>1 DEF CfgRuns
    <3>3. BlockTakes(hugr, cfg, m) = widths[i] + Len(vs) - 1 /\ widths[i] \in Nat
      BY <2>9, <2>10, <2>15, <3>1
    <3>4. Within(hugr, base, cfg, m) \subseteq Have(Code, entry, pos) \cup ToSet(rows[i])
      BY <2>12, <3>1
    <3> HIDE DEF m, rows, T, targets
    <3>5. hugr.kind[m] = "DataflowBlock" \/ m = hugr.kids[cfg][2]
      BY <2>1, <2>6, <3>1, CfgFacts DEF CfgBlocks, Exit
    <3>6. /\ IsSeq(BlockRowOf(hugr, cfg, m)) /\ Len(BlockRowOf(hugr, cfg, m)) = BlockTakes(hugr, cfg, m)
          /\ \A j \in 1 .. BlockTakes(hugr, cfg, m) :
               BoxType(hugr, BlockRowOf(hugr, cfg, m)[j]) = BlockTypes(hugr, cfg, m)[j]
      BY <2>1, <2>6, <3>1, <3>5, BlockRowTypes
    <3>7. Len(rows[i]) = widths[i] + (Len(vs) - 1)
      <4> DEFINE w == widths[i]
                 l == Len(rows[i])
                 k == Len(vs)
      <4>1. l = w + k - 1 /\ w \in Nat /\ k \in Nat
        BY <2>16, <3>1, <3>3, <3>6
      <4> HIDE DEF w, l, k
      <4>2. l = w + (k - 1)
        BY <4>1
      <4> QED BY <4>2 DEF w, l, k
    <3>8. Reaches(r, entry, Have(r, entry, r.pos) \cup ToSet(rows[i]), {}, targets[i])
      <4>1. targets[i] \in DOMAIN r.blocks /\ entry[targets[i]] = Plain(Within(hugr, base, cfg, m))
        BY <2>14, <3>1, <3>2 DEF Enters, Keeps
      <4> QED BY <2>18, <3>4, <4>1 DEF Plain, Reaches
    <3> QED BY <3>1, <3>6, <3>7, <3>8
  <2>20. Receives(hugr, r, entry, Len(vs) - 1, widths, rows, T, targets)
    BY <2>19 DEF Receives
  <2> HIDE DEF rows, targets, widths, T
  <2>21. /\ IsLoad(r, vs[1]) /\ AreLoads(r, Tail(vs))
         /\ HandsOver(hugr, r, entry, vs[1], widths, rows, Tail(vs), targets)
    BY <2>10, <2>13, <2>15, <2>16, <2>20, Distributed
  <2>22. PICK more : CodeRuns(hugr, a, more) /\ Keeps(r, a, entry, more)
    BY <2>10, <2>14, <2>21, DestructureRuns
  <2> HIDE DEF a
  <2>23. Keeps(Code, a, entry, more)
    BY <2>14, <2>22, KeepsFurther
  <2>24. Below.home \in DOMAIN a.blocks
    BY <2>1, <2>6, <2>23 DEF Keeps
  <2>25. CodeRuns(hugr, d, more) /\ Keeps(a, d, more, more)
    BY <2>22, <2>24, AtRuns
  <2> HIDE DEF d
  <2>26. Keeps(Code, d, entry, more)
    BY <2>23, <2>25, KeepsFurther
  <2>27. ~(Below.is = "dataflow")
    BY <1>1
  <2> QED BY <1>1, <1>3, <2>2, <2>25, <2>26, <2>27, ReturnRuns
<1> QED BY <1>1, <1>2, <1>3

LEMMA FinishRuns ==
  ASSUME IInv, RInv, FinishFunc
  PROVE  RInv'
<1> DEFINE row == Top.outputs
           vs == Upcoming(Code, Len(row))
           r == Read(Code, row)
           a == Build(r, <<Return(vs)>>)
           e == At(a, 1)
           d == Build(e, <<Branch(2)>>)
<1>1. /\ Running("dataflow") /\ Top.left = {} /\ SetCode(d) /\ stack' = <<>> /\ hugr' = hugr
      /\ Code.pos = pos
  BY DEF FinishFunc, Code
<1>2. IsSeq(row)
  <2>1. FrameOK(hugr, Top, Len(blocks), mailboxes) /\ Top.is = "dataflow"
    BY <1>1, TopFacts
  <2> QED BY <2>1 DEF FrameOK, IsDataflow, IsConditional, IsCfg
<1>3. PICK entry, bases : CodeRuns(hugr, Code, entry) /\ ToSet(row) \subseteq Have(Code, entry, pos)
  BY <1>1, DoneRuns
<1>4. CodeRuns(hugr, r, entry) /\ Fetched(hugr, r, vs, row)
  BY <1>1, <1>2, <1>3, ReadRuns
<1> HIDE DEF row, vs, r
<1>5. InstrRuns(hugr, r, entry, Have(r, entry, r.pos), entry[r.pos].when, Return(vs))
  <2> DEFINE ret == Return(vs)
  <2>1. ret.op = "ret" /\ ret.vals = vs
    BY DEF Return
  <2> HIDE DEF ret
  <2>2. InstrRuns(hugr, r, entry, Have(r, entry, r.pos), entry[r.pos].when, ret)
    BY <1>4, <2>1 DEF InstrRuns, Fetched
  <2> QED BY <2>2 DEF ret
<1>6. CodeRuns(hugr, a, entry)
  BY <1>4, <1>5, EndRuns DEF Added
<1> HIDE DEF a
<1>7. 1 \in DOMAIN a.blocks
  BY <1>6 DEF CodeRuns, Shaped
<1>8. CodeRuns(hugr, e, entry) /\ e.pos = 1
  BY <1>6, <1>7, AtRuns
<1> HIDE DEF e
<1>9. InstrRuns(hugr, e, entry, Have(e, entry, e.pos), entry[e.pos].when, Branch(2))
  <2> DEFINE br == Branch(2)
  <2>1. br.op = "br" /\ br.to = 2
    BY DEF Branch
  <2> HIDE DEF br
  <2>2. 2 \in DOMAIN e.blocks /\ entry[2] = Nothing
    BY <1>8 DEF CodeRuns, Shaped
  <2>3. Reaches(e, entry, Have(e, entry, e.pos), {}, br.to)
    BY <2>1, <2>2 DEF Reaches, Nothing
  <2>4. InstrRuns(hugr, e, entry, Have(e, entry, e.pos), entry[e.pos].when, br)
    BY <2>1, <2>3 DEF InstrRuns
  <2> QED BY <2>4 DEF br
<1>10. CodeRuns(hugr, d, entry)
  BY <1>8, <1>9, EndRuns DEF Added
<1> HIDE DEF d
<1>11. StackRuns(hugr, d, entry, <<>>, <<>>)
  <2>1. Len(<<>>) = 0 /\ 1 .. 0 = {} /\ 1 .. 0 - 1 = {}
    OBVIOUS
  <2> QED BY <2>1 DEF StackRuns
<1>12. Runs(hugr, d, <<>>)
  BY <1>10, <1>11 DEF Runs
<1> QED BY <1>1, <1>12, Rerun

LEMMA InitRuns ==
  ASSUME Init
  PROVE  RInv
<1> DEFINE root == hugr.root
           ret == AnonymousRow("ret", root, hugr.results)
           ins == [i \in 1 .. hugr.params |-> <<0, i>>]
           f == DataflowFrame(root, ins, ret)
           entry == [b \in {1, 2} |-> Nothing]
           bases == [k \in {1} |-> {}]
<1>1. /\ hugr \in Hugrs /\ blocks = <<<<>>, <<>>>> /\ pos = 2 /\ stack = <<f>>
  BY DEF Init
<1>2. /\ root \in NodesOf(hugr) /\ hugr.params \in Nat /\ hugr.results \in Nat
      /\ hugr.kind[root] = "FuncDefn" /\ RowsFit(hugr, root) /\ IsRegion(hugr, root)
      /\ hugr.scope[root] = {}
  BY <1>1, HugrAssumption, ScopeAssumption DEF IsRegion
<1>3. Len(ret) = Leaving(hugr, root) /\ Takes(hugr, ret, TypesOut(hugr, root))
  <2>1. Len(ret) = hugr.results
    BY <1>2, AnonymousFacts
  <2>2. ASSUME NEW i \in 1 .. hugr.results PROVE BoxType(hugr, ret[i]) = TypesOut(hugr, root)[i]
    <3>1. ret[i] = <<"ret", root, i>>
      BY DEF AnonymousRow
    <3>2. BoxType(hugr, <<"ret", root, i>>) = TypesOut(hugr, root)[i]
      BY DEF BoxType
    <3> QED BY <3>1, <3>2
  <2> HIDE DEF ret
  <2> QED BY <1>2, <2>1, <2>2 DEF RowsFit, Takes
<1>4. Len(ins) = Entering(hugr, root) /\ \A i \in 1 .. hugr.params : ins[i] = <<0, i>>
  <2>1. Len(ins) = hugr.params
    BY <1>2, FunSeq
  <2> QED BY <1>2, <2>1 DEF RowsFit
<1>5. /\ f.is = "dataflow" /\ f.node = root /\ f.inputs = ins /\ f.outputs = ret
      /\ f.left = ChildrenOf(hugr, root)
  <2> HIDE DEF ins, ret, root
  <2> QED BY DEF DataflowFrame
<1> HIDE DEF ret, f
<1>6. /\ Code = [blocks |-> Code.blocks, pos |-> Code.pos]
      /\ Code.blocks = <<<<>>, <<>>>> /\ Code.pos = 2
  BY <1>1 DEF Code
<1>7. /\ IsSeq(Code.blocks) /\ DOMAIN Code.blocks = {1, 2}
      /\ \A b \in {1, 2} : Code.blocks[b] = <<>>
  <2>1. <<<<>>, <<>>>> \in Seq({<<>>})
    OBVIOUS
  <2>2. IsSeq(<<<<>>, <<>>>>)
    BY <2>1, KnownSeq
  <2>3. DOMAIN <<<<>>, <<>>>> = {1, 2} /\ <<<<>>, <<>>>>[1] = <<>> /\ <<<<>>, <<>>>>[2] = <<>>
    OBVIOUS
  <2> QED BY <1>6, <2>2, <2>3
<1>8. CodeRuns(hugr, Code, entry)
  <2>1. IsSeq(<<>>) /\ DOMAIN <<>> = {}
    BY DEF IsSeq, ToSet
  <2>2. entry[1] = Nothing /\ entry[2] = Nothing /\ Nothing.when = {}
    BY DEF Nothing
  <2> HIDE DEF entry
  <2>3. Shaped(Code)
    BY <1>6, <1>7, <2>1 DEF Shaped
  <2> QED BY <1>7, <2>1, <2>2, <2>3 DEF CodeRuns
<1>9. FrameRuns(hugr, Code, entry, bases[1], f) /\ Known(hugr, bases[1], f) = {}
  <2>1. InputsHold(hugr, Code, f.inputs, TypesIn(hugr, root))
    <3>1. ASSUME NEW i \in 1 .. Len(ins) PROVE Holds(hugr, Code, ins[i], TypesIn(hugr, root)[i])
      <4>1. ins[i] = <<0, i>> /\ i \in 1 .. hugr.params
        BY <1>2, <1>4 DEF RowsFit
      <4>2. ins[i][1] = 0 /\ ins[i][2] = i
        BY <4>1
      <4> HIDE DEF ins
      <4> QED BY <4>1, <4>2 DEF Holds
    <3> HIDE DEF ins
    <3> QED BY <1>5, <3>1 DEF InputsHold
  <2> HIDE DEF ins
  <2>2. DataflowRuns(hugr, Code, f)
    BY <1>2, <1>3, <1>4, <1>5, <2>1 DEF DataflowRuns
  <2>3. Boxes(hugr, hugr.scope[root]) = {}
    BY <1>2 DEF Boxes
  <2>4. bases[1] = {}
    OBVIOUS
  <2> HIDE DEF bases, root
  <2>5. Known(hugr, bases[1], f) = bases[1]
    BY <1>1, <1>2, <1>5, NewKnown
  <2> QED BY <1>5, <2>2, <2>3, <2>4, <2>5 DEF FrameRuns
<1>10. StackRuns(hugr, Code, entry, bases, stack)
  <2>1. Len(stack) = 1 /\ stack[1] = f /\ 1 .. 1 = {1} /\ 1 .. 1 - 1 = {}
    BY <1>1, OneSeq
  <2> HIDE DEF entry, bases, ins
  <2> QED BY <1>9, <2>1 DEF StackRuns
<1> QED BY <1>8, <1>10 DEF RInv, Runs

LEMMA NextRunsOn ==
  ASSUME IInv, IInv', RInv, [Next]_vars
  PROVE  RInv'
<1>1. CASE VisitChild
  <2>1. PICK n : \/ EmitInput(n) \/ EmitOutput(n) \/ EmitLeaf(n) \/ EmitGuarded(n)
                 \/ EmitSilent(n) \/ EnterDfg(n) \/ EnterConditional(n) \/ EnterCfg(n)
    BY <1>1 DEF VisitChild
  <2> QED BY <2>1, InputRuns, OutputRuns, LeafRuns, GuardedRuns, SilentRuns, DfgRuns,
             EnterConditionalRuns, EnterCfgRuns
<1>2. CASE LeaveDfg
  BY <1>2, LeaveDfgRuns
<1>3. CASE EnterCase
  BY <1>3, EnterCaseRuns
<1>4. CASE LeaveCase
  BY <1>4, LeaveCaseRuns
<1>5. CASE LeaveConditional
  BY <1>5, LeaveConditionalRuns
<1>6. CASE EnterBlock
  BY <1>6, EnterBlockRuns
<1>7. CASE LeaveBlock
  BY <1>7, LeaveBlockRuns
<1>8. CASE EmitExitBlock
  BY <1>8, ExitBlockRuns
<1>9. CASE EmitCfgDefinition
  BY <1>9, CfgDefinitionRuns
<1>10. CASE LeaveCfg
  BY <1>10, LeaveCfgRuns
<1>11. CASE FinishFunc
  BY <1>11, FinishRuns
<1>12. CASE UNCHANGED vars
  <2>1. UNCHANGED <<hugr, blocks, pos, stack>>
    BY <1>12 DEF vars
  <2> QED BY <2>1, PanicsRuns
<1> QED BY <1>1, <1>2, <1>3, <1>4, <1>5, <1>6, <1>7, <1>8, <1>9, <1>10, <1>11, <1>12
        DEF Next, Emit, Halted

\* At all times there is a certificate for the code so far: whichever way
\* control comes to an instruction, the mailboxes it loads from have been
\* written, and with values of their types.
THEOREM EmissionRuns == Spec => []RInv
<1>1. Init => RInv
  BY InitRuns
<1>2. IInv /\ IInv' /\ RInv /\ [Next]_vars => RInv'
  BY NextRunsOn
<1> QED BY <1>1, <1>2, Invariant, PTL DEF Spec


-----------------------------------------------------------------------------
(***************************************************************************)
(* Execution.  The two certificates are read at the next instruction: what *)
(* has been computed on every path to it is there, and of its type.        *)
(***************************************************************************)

Computes(instr) == instr.op \in {"load", "const", "tag", "apply", "field"}

\* v has been computed whenever control is at p.
Passed(c, dom, v, p) ==
    /\ IsAt(c, v) /\ Computes(InstrAt(c, v))
    /\ \/ v[1] \in dom[p[1]] /\ v[1] # p[1]
       \/ v[1] = p[1] /\ v[2] < p[2]

Executing(h, c, dom, entry, a, vals, mem, p) ==
    /\ IsAt(c, p)
    /\ \A v : Passed(c, dom, v, p) => v \in DOMAIN vals
    /\ \A v \in DOMAIN vals : \A T : Holds(h, c, v, T) => vals[v] \in T
    /\ Has(c, entry, p[1], p[2] - 1) \subseteq DOMAIN mem
    /\ \A mb \in DOMAIN mem : mem[mb] \in BoxType(h, mb)
    /\ \A fact \in entry[p[1]].when : /\ fact[1] \in DOMAIN vals
                                      /\ vals[fact[1]].tag = fact[2] - 1
    /\ \A i \in 1 .. h.params : a[i] \in TypesIn(h, h.root)[i]

\* Every block ends with its only terminator.
Ended(c) == \A b \in DOMAIN c.blocks : Closed(c, b) /\ EndsWell(c.blocks[b])

\* The complete code c, with both certificates.
Complete(h, c, dom, entry) ==
    Ended(c) /\ (\E boxes : CodeSound(h, c, dom, boxes)) /\ CodeRuns(h, c, entry)

\* After an instruction that is not a terminator there is another.
LEMMA NextAt ==
  ASSUME NEW h, NEW c, NEW dom, NEW entry, Complete(h, c, dom, entry),
         NEW p, IsAt(c, p), ~IsTerminator(InstrAt(c, p))
  PROVE  /\ p[1] \in Nat /\ p[2] \in Nat /\ p[1] # 0 /\ p[2] > 0
         /\ IsAt(c, <<p[1], p[2] + 1>>)
<1> DEFINE b == p[1]
           i == p[2]
           block == c.blocks[b]
<1>1. b \in DOMAIN c.blocks /\ i \in DOMAIN block
  BY DEF IsAt
<1>2. IsSeq(c.blocks) /\ IsSeq(block)
  BY <1>1 DEF Complete, CodeRuns, Shaped
<1>3. block # <<>> /\ IsTerminator(block[Len(block)])
  BY <1>1 DEF Complete, Ended, Closed, Last
<1>4. ~IsTerminator(block[i])
  BY DEF InstrAt
<1> HIDE DEF b, i, block
<1>5. i # Len(block)
  BY <1>3, <1>4
<1>6. b \in Nat /\ b # 0
  BY <1>1, <1>2, SeqFacts
<1>7. i \in Nat /\ i > 0 /\ i + 1 \in DOMAIN block
  BY <1>1, <1>2, <1>5, SeqFacts
<1>8. IsAt(c, <<b, i + 1>>)
  BY <1>1, <1>7 DEF IsAt, block
<1> QED BY <1>6, <1>7, <1>8 DEF b, i

LEMMA PassedIs ==
  ASSUME NEW c, NEW dom, NEW v, NEW p, IsAt(c, v), Computes(InstrAt(c, v)),
         \/ v[1] \in dom[p[1]] /\ v[1] # p[1]
         \/ v[1] = p[1] /\ v[2] < p[2]
  PROVE  Passed(c, dom, v, p)
BY DEF Passed

\* An instruction that is not a terminator leads to the next.
LEMMA PassedNext ==
  ASSUME NEW h, NEW c, NEW dom, NEW entry, Complete(h, c, dom, entry),
         NEW p, IsAt(c, p), ~IsTerminator(InstrAt(c, p)),
         NEW v, Passed(c, dom, v, <<p[1], p[2] + 1>>)
  PROVE  Passed(c, dom, v, p) \/ (v = p /\ Computes(InstrAt(c, p)))
<1>1. p[1] \in Nat /\ p[2] \in Nat /\ p = <<p[1], p[2]>>
  BY NextAt DEF IsAt
<1>2. IsAt(c, v) /\ Computes(InstrAt(c, v))
  BY DEF Passed
<1>3. v = <<v[1], v[2]>> /\ v[1] \in DOMAIN c.blocks /\ v[2] \in DOMAIN c.blocks[v[1]]
  BY <1>2 DEF IsAt
<1>4. IsSeq(c.blocks[v[1]])
  BY <1>3 DEF Complete, CodeRuns, Shaped
<1>5. v[2] \in Nat
  BY <1>3, <1>4, SeqFacts
<1> DEFINE b == p[1]
           i == p[2]
           w == v[1]
           l == v[2]
<1>6. \/ w \in dom[b] /\ w # b
      \/ w = b /\ l < i + 1
  <2> DEFINE q == <<b, i + 1>>
  <2>1. q[1] = b /\ q[2] = i + 1
    OBVIOUS
  <2>2. Passed(c, dom, v, q)
    OBVIOUS
  <2> HIDE DEF q, b, i
  <2> QED BY <2>1, <2>2 DEF Passed
<1>7. CASE \/ v[1] \in dom[p[1]] /\ v[1] # p[1]
           \/ v[1] = p[1] /\ v[2] < p[2]
  <2>1. Passed(c, dom, v, p)
    BY <1>2, <1>7, PassedIs
  <2> QED BY <2>1
<1>9. CASE w = b /\ l = i
  BY <1>1, <1>2, <1>3, <1>9
<1>10. l < i + 1 => l < i \/ l = i
  BY <1>1, <1>5
<1> QED BY <1>6, <1>7, <1>9, <1>10

LEMMA StoredNext ==
  ASSUME NEW block, NEW i \in Nat
  PROVE  /\ block[i].op # "store" /\ i > 0 => Stored(block, i) \subseteq Stored(block, i - 1)
         /\ i > 0 => Stored(block, i) \subseteq Stored(block, i - 1) \cup {block[i].mb}
         /\ Stored(block, 0) = {}
<1>1. Stored(block, 0) = {}
  BY DEF Stored
<1>2. ASSUME i > 0, NEW mb \in Stored(block, i)
      PROVE  mb \in Stored(block, i - 1) \/ (block[i].op = "store" /\ mb = block[i].mb)
  <2>1. PICK j \in 1 .. i : block[j].op = "store" /\ mb = block[j].mb
    BY <1>2 DEF Stored
  <2>2. CASE j = i
    BY <2>1, <2>2
  <2>3. CASE j # i
    <3>1. j \in 1 .. i - 1
      BY <1>2, <2>3
    <3>2. j \in {k \in 1 .. i - 1 : block[k].op = "store"}
      BY <2>1, <3>1
    <3> DEFINE m == i - 1
    <3> HIDE DEF m
    <3>3. block[j].mb \in Stored(block, m)
      BY <3>2 DEF Stored, m
    <3> QED BY <2>1, <3>3 DEF m
  <2> QED BY <2>2, <2>3
<1> QED BY <1>1, <1>2

LEMMA HasNext ==
  ASSUME NEW c, NEW entry, NEW b, NEW i \in Nat, i > 0
  PROVE  /\ c.blocks[b][i].op # "store" =>
              Has(c, entry, b, i + 1 - 1) \subseteq Has(c, entry, b, i - 1)
         /\ Has(c, entry, b, i + 1 - 1) \subseteq Has(c, entry, b, i - 1) \cup {c.blocks[b][i].mb}
<1>1. i + 1 - 1 = i
  OBVIOUS
<1> QED BY <1>1, StoredNext DEF Has


\* What an instruction uses is a parameter, or was computed.
LEMMA OperandComputed ==
  ASSUME NEW h, NEW c, NEW entry, NEW has, NEW when, NEW instr,
         InstrRuns(h, c, entry, has, when, instr),
         NEW v \in Operands(instr), v[1] # 0
  PROVE  IsAt(c, v) /\ Computes(InstrAt(c, v))
<1>1. ASSUME IsLoad(c, v) PROVE IsAt(c, v) /\ Computes(InstrAt(c, v))
  BY <1>1 DEF IsLoad, Computes
<1>2. ASSUME NEW vs, AreLoads(c, vs), v \in ToSet(vs) PROVE IsLoad(c, v)
  <2>1. IsSeq(vs)
    BY <1>2 DEF AreLoads
  <2>2. PICK i \in 1 .. Len(vs) : v = vs[i]
    BY <1>2, <2>1, SeqFacts DEF ToSet
  <2> QED BY <1>2, <2>2 DEF AreLoads
<1>3. CASE instr.op = "store"
  <2>1. v = instr.val
    BY <1>3 DEF Operands
  <2>2. Holds(h, c, v, BoxType(h, instr.mb))
    BY <1>3, <2>1 DEF InstrRuns
  <2>3. IsAt(c, v) /\ Yields(h, c, InstrAt(c, v), BoxType(h, instr.mb))
    BY <2>2 DEF Holds
  <2> QED BY <2>3 DEF Yields, Computes
<1>4. CASE instr.op \in {"tag", "apply"}
  <2>1. v \in ToSet(instr.args)
    BY <1>4 DEF Operands
  <2>2. AreLoads(c, instr.args)
    BY <1>4 DEF InstrRuns
  <2> QED BY <1>1, <1>2, <2>1, <2>2
<1>5. CASE instr.op = "field"
  <2>1. v = instr.sum
    BY <1>5 DEF Operands
  <2>2. IsLoad(c, v)
    BY <1>5, <2>1 DEF InstrRuns
  <2> QED BY <1>1, <2>2
<1>6. CASE instr.op = "switch"
  <2>1. v = instr.on
    BY <1>6 DEF Operands
  <2>2. Selects(h, c, v, instr.to)
    BY <1>6, <2>1 DEF InstrRuns
  <2>3. PICK T : Holds(h, c, v, T)
    BY <2>2 DEF Selects
  <2>4. IsAt(c, v) /\ Yields(h, c, InstrAt(c, v), T)
    BY <2>3 DEF Holds
  <2> QED BY <2>4 DEF Yields, Computes
<1>7. CASE instr.op = "ret"
  <2>1. v \in ToSet(instr.vals)
    BY <1>7 DEF Operands
  <2>2. AreLoads(c, instr.vals)
    BY <1>7 DEF InstrRuns
  <2> QED BY <1>1, <1>2, <2>1, <2>2
<1> QED BY <1>3, <1>4, <1>5, <1>6, <1>7 DEF Operands

\* Both certificates, where control is.
LEMMA AtInstr ==
  ASSUME NEW h, NEW c, NEW dom, NEW entry, Complete(h, c, dom, entry),
         NEW p, IsAt(c, p)
  PROVE  /\ p[1] \in DOMAIN c.blocks /\ p[2] \in DOMAIN c.blocks[p[1]]
         /\ InstrAt(c, p) = c.blocks[p[1]][p[2]]
         /\ \E boxes : InstrSound(h, c, dom, boxes, InstrAt(c, p), p[1], p[2])
         /\ InstrRuns(h, c, entry, Has(c, entry, p[1], p[2] - 1), entry[p[1]].when, InstrAt(c, p))
         /\ \A fact \in entry[p[1]].when : fact[1][1] # p[1]
<1> DEFINE b == p[1]
           i == p[2]
<1>1. b \in DOMAIN c.blocks /\ i \in DOMAIN c.blocks[b]
  BY DEF IsAt
<1>2. InstrAt(c, p) = c.blocks[b][i]
  BY DEF InstrAt
<1> HIDE DEF b, i
<1>3. PICK boxes : CodeSound(h, c, dom, boxes)
  BY DEF Complete
<1>4. InstrSound(h, c, dom, boxes, c.blocks[b][i], b, i)
  BY <1>1, <1>3 DEF CodeSound
<1>5. CodeRuns(h, c, entry)
  BY DEF Complete
<1>6. /\ InstrRuns(h, c, entry, Has(c, entry, b, i - 1), entry[b].when, c.blocks[b][i])
      /\ \A fact \in entry[b].when : fact[1][1] # b
  BY <1>1, <1>5 DEF CodeRuns
<1> QED BY <1>1, <1>2, <1>4, <1>6 DEF b, i

LEMMA OperandThere ==
  ASSUME NEW h, NEW c, NEW dom, NEW entry, Complete(h, c, dom, entry),
         NEW a, NEW vals, NEW mem, NEW p, Executing(h, c, dom, entry, a, vals, mem, p),
         NEW v \in Operands(InstrAt(c, p))
  PROVE  v[1] = 0 \/ v \in DOMAIN vals
<1> SUFFICES ASSUME v[1] # 0 PROVE v \in DOMAIN vals
  OBVIOUS
<1>1. IsAt(c, p) /\ \A w : Passed(c, dom, w, p) => w \in DOMAIN vals
  BY DEF Executing
<1>2. IsAt(c, v) /\ Computes(InstrAt(c, v))
  BY <1>1, AtInstr, OperandComputed
<1>3. PICK boxes : InstrSound(h, c, dom, boxes, InstrAt(c, p), p[1], p[2])
  BY <1>1, AtInstr
<1>4. Usable(h, c, dom[p[1]], v, p[1], p[2])
  BY <1>3 DEF InstrSound
<1>5. \/ v[1] \in dom[p[1]] /\ v[1] # p[1]
      \/ v[1] = p[1] /\ v[2] < p[2]
  BY <1>4 DEF Usable
<1>6. Passed(c, dom, v, p)
  BY <1>2, <1>5, PassedIs
<1> QED BY <1>1, <1>6

LEMMA LoadThere ==
  ASSUME NEW h, NEW c, NEW dom, NEW entry, Complete(h, c, dom, entry),
         NEW a, NEW vals, NEW mem, NEW p, Executing(h, c, dom, entry, a, vals, mem, p),
         NEW v \in Operands(InstrAt(c, p)), IsLoad(c, v)
  PROVE  v[1] # 0 /\ v \in DOMAIN vals /\ vals[v] \in LoadType(h, c, v)
<1>1. v[1] \in DOMAIN c.blocks /\ IsAt(c, v) /\ InstrAt(c, v).op = "load"
  BY DEF IsLoad, IsAt
<1>2. IsSeq(c.blocks)
  BY DEF Complete, CodeRuns, Shaped
<1>3. v[1] # 0
  BY <1>1, <1>2, SeqFacts
<1>4. v \in DOMAIN vals
  BY <1>3, OperandThere
<1>5. Yields(h, c, InstrAt(c, v), LoadType(h, c, v))
  BY <1>1 DEF Yields, LoadType
<1>6. Holds(h, c, v, LoadType(h, c, v))
  BY <1>1, <1>3, <1>5 DEF Holds
<1> QED BY <1>3, <1>4, <1>6 DEF Executing

\* A value computed where control is, which then moves on.
LEMMA ComputeOn ==
  ASSUME NEW h, NEW c, NEW dom, NEW entry, Complete(h, c, dom, entry),
         NEW a, NEW vals, NEW mem, NEW p, Executing(h, c, dom, entry, a, vals, mem, p),
         Computes(InstrAt(c, p)),
         NEW x, \A T : Yields(h, c, InstrAt(c, p), T) => x \in T
  PROVE  Executing(h, c, dom, entry, a, Set(vals, p, x), mem, <<p[1], p[2] + 1>>)
<1> DEFINE q == <<p[1], p[2] + 1>>
           more == Set(vals, p, x)
<1>1. InstrAt(c, p).op # "store" /\ ~IsTerminator(InstrAt(c, p))
  BY DEF Computes, IsTerminator
<1>2. /\ IsAt(c, p) /\ IsAt(c, q)
      /\ p[1] \in Nat /\ p[2] \in Nat /\ p[1] # 0 /\ p[2] > 0 /\ q[1] = p[1] /\ q[2] = p[2] + 1
  BY <1>1, NextAt DEF Executing
<1>3. /\ DOMAIN more = DOMAIN vals \cup {p} /\ more[p] = x
      /\ \A v \in DOMAIN vals : v # p => more[v] = vals[v]
  BY Zenon DEF Set
<1>4. ASSUME NEW v, Passed(c, dom, v, q) PROVE v \in DOMAIN more
  <2>1. Passed(c, dom, v, p) \/ v = p
    BY <1>1, <1>2, <1>4, PassedNext
  <2> HIDE DEF more
  <2> QED BY <1>3, <2>1 DEF Executing
<1>5. ASSUME NEW v \in DOMAIN more, NEW T, Holds(h, c, v, T) PROVE more[v] \in T
  <2>1. CASE v = p
    <3>1. Yields(h, c, InstrAt(c, p), T)
      BY <1>2, <1>5, <2>1 DEF Holds
    <3> HIDE DEF more
    <3> QED BY <1>3, <2>1, <3>1
  <2>2. CASE v # p
    <3> HIDE DEF more
    <3>1. v \in DOMAIN vals /\ more[v] = vals[v]
      BY <1>3, <2>2
    <3> QED BY <1>5, <3>1 DEF Executing
  <2> QED BY <2>1, <2>2
<1>6. Has(c, entry, q[1], q[2] - 1) \subseteq DOMAIN mem
  <2>1. c.blocks[p[1]][p[2]].op # "store"
    BY <1>1, <1>2, AtInstr
  <2>2. Has(c, entry, p[1], p[2] + 1 - 1) \subseteq Has(c, entry, p[1], p[2] - 1)
    BY <1>2, <2>1, HasNext
  <2> HIDE DEF q
  <2> QED BY <1>2, <2>2 DEF Executing
<1>7. ASSUME NEW fact \in entry[q[1]].when
      PROVE  fact[1] \in DOMAIN more /\ more[fact[1]].tag = fact[2] - 1
  <2>1. fact \in entry[p[1]].when
    BY <1>2, <1>7
  <2>2. fact[1][1] # p[1]
    BY <1>2, <2>1, AtInstr
  <2>3. fact[1] # p
    BY <2>2
  <2>4. fact[1] \in DOMAIN vals /\ vals[fact[1]].tag = fact[2] - 1
    BY <2>1 DEF Executing
  <2> HIDE DEF more
  <2> QED BY <1>3, <2>3, <2>4
<1>8. /\ \A mb \in DOMAIN mem : mem[mb] \in BoxType(h, mb)
      /\ \A i \in 1 .. h.params : a[i] \in TypesIn(h, h.root)[i]
  BY DEF Executing
<1> HIDE DEF more, q
<1>9. Executing(h, c, dom, entry, a, more, mem, q)
  <2>1. IsAt(c, q)
    BY <1>2
  <2> QED BY <2>1, <1>4, <1>5, <1>6, <1>7, <1>8 DEF Executing
<1> QED BY <1>9 DEF more, q


LEMMA StoreOn ==
  ASSUME NEW h, NEW c, NEW dom, NEW entry, Complete(h, c, dom, entry),
         NEW a, NEW vals, NEW mem, NEW p, Executing(h, c, dom, entry, a, vals, mem, p),
         NEW mb, InstrAt(c, p).op = "store", mb = InstrAt(c, p).mb,
         NEW x \in BoxType(h, mb)
  PROVE  Executing(h, c, dom, entry, a, vals, Set(mem, mb, x), <<p[1], p[2] + 1>>)
<1> DEFINE q == <<p[1], p[2] + 1>>
           more == Set(mem, mb, x)
<1>1. ~Computes(InstrAt(c, p)) /\ ~IsTerminator(InstrAt(c, p))
  BY DEF Computes, IsTerminator
<1>2. /\ IsAt(c, p) /\ IsAt(c, q)
      /\ p[1] \in Nat /\ p[2] \in Nat /\ p[1] # 0 /\ p[2] > 0 /\ q[1] = p[1] /\ q[2] = p[2] + 1
  BY <1>1, NextAt DEF Executing
<1>3. /\ DOMAIN more = DOMAIN mem \cup {mb} /\ more[mb] = x
      /\ \A b \in DOMAIN mem : b # mb => more[b] = mem[b]
  BY Zenon DEF Set
<1>4. ASSUME NEW v, Passed(c, dom, v, q) PROVE v \in DOMAIN vals
  <2>1. Passed(c, dom, v, p)
    BY <1>1, <1>2, <1>4, PassedNext
  <2> QED BY <2>1 DEF Executing
<1>5. Has(c, entry, q[1], q[2] - 1) \subseteq DOMAIN more
  <2>1. c.blocks[p[1]][p[2]].mb = mb
    BY <1>2, AtInstr
  <2>2. Has(c, entry, p[1], p[2] + 1 - 1) \subseteq Has(c, entry, p[1], p[2] - 1) \cup {mb}
    BY <1>2, <2>1, HasNext
  <2>3. Has(c, entry, p[1], p[2] - 1) \subseteq DOMAIN mem
    BY DEF Executing
  <2> HIDE DEF q, more
  <2> QED BY <1>2, <1>3, <2>2, <2>3
<1>6. ASSUME NEW fact \in entry[q[1]].when
      PROVE  fact[1] \in DOMAIN vals /\ vals[fact[1]].tag = fact[2] - 1
  <2>1. fact \in entry[p[1]].when
    BY <1>2, <1>6
  <2> QED BY <2>1 DEF Executing
<1>7. ASSUME NEW b \in DOMAIN more PROVE more[b] \in BoxType(h, b)
  <2> HIDE DEF more
  <2>1. CASE b = mb
    BY <1>3, <2>1
  <2>2. CASE b # mb
    BY <1>3, <2>2 DEF Executing
  <2> QED BY <2>1, <2>2
<1>8. /\ \A v \in DOMAIN vals : \A T : Holds(h, c, v, T) => vals[v] \in T
      /\ \A i \in 1 .. h.params : a[i] \in TypesIn(h, h.root)[i]
  BY DEF Executing
<1> HIDE DEF more, q
<1>9. Executing(h, c, dom, entry, a, vals, more, q)
  <2>1. IsAt(c, q)
    BY <1>2
  <2> QED BY <2>1, <1>4, <1>5, <1>6, <1>7, <1>8 DEF Executing
<1> QED BY <1>9 DEF more, q

\* At the start of a block the same has been computed as at the end of
\* those that lead to it.
LEMMA PassedJump ==
  ASSUME NEW h, NEW c, NEW dom, NEW entry, Complete(h, c, dom, entry),
         NEW p, IsAt(c, p), IsTerminator(InstrAt(c, p)),
         NEW t \in Targets(InstrAt(c, p)),
         NEW v, Passed(c, dom, v, <<t, 1>>)
  PROVE  Passed(c, dom, v, p)
<1> DEFINE b == p[1]
           i == p[2]
           l == v[2]
           n == Len(c.blocks[p[1]])
<1>1. b \in DOMAIN c.blocks /\ i \in DOMAIN c.blocks[b] /\ InstrAt(c, p) = c.blocks[b][i]
  BY AtInstr
<1>2. dom[t] \subseteq dom[b] \cup {t}
  BY AtInstr DEF InstrSound
<1>3. IsAt(c, v) /\ Computes(InstrAt(c, v))
  BY DEF Passed
<1>4. \/ v[1] \in dom[t] /\ v[1] # t
      \/ v[1] = t /\ l < 1
  <2> DEFINE q == <<t, 1>>
  <2>1. q[1] = t /\ q[2] = 1
    OBVIOUS
  <2>2. Passed(c, dom, v, q)
    OBVIOUS
  <2> HIDE DEF q
  <2> QED BY <2>1, <2>2 DEF Passed
<1>5. v[1] \in DOMAIN c.blocks /\ l \in DOMAIN c.blocks[v[1]] /\ InstrAt(c, v) = c.blocks[v[1]][l]
  BY <1>3 DEF IsAt, InstrAt
<1>6. IsSeq(c.blocks[v[1]]) /\ IsSeq(c.blocks[b])
  BY <1>1, <1>5 DEF Complete, CodeRuns, Shaped
<1>7. l \in 1 .. Len(c.blocks[v[1]]) /\ Len(c.blocks[v[1]]) \in Nat
  BY <1>5, <1>6, SeqFacts
<1>8. v[1] \in dom[b] /\ v[1] # t
  <2>1. ~(l < 1)
    BY <1>7
  <2> HIDE DEF b, l
  <2> QED BY <1>2, <1>4, <2>1
<1>9. i = n
  <2>1. EndsWell(c.blocks[b])
    BY <1>1 DEF Complete, Ended
  <2> QED BY <1>1, <2>1 DEF EndsWell
<1>10. ASSUME v[1] = b PROVE l < i
  <2>1. l # i
    BY <1>1, <1>3, <1>5, <1>10 DEF Computes, IsTerminator
  <2>2. l \in 1 .. n /\ n \in Nat
    BY <1>7, <1>10
  <2> HIDE DEF l, i, n
  <2> QED BY <1>9, <2>1, <2>2
<1>11. \/ v[1] \in dom[p[1]] /\ v[1] # p[1]
       \/ v[1] = p[1] /\ v[2] < p[2]
  BY <1>8, <1>10
<1> QED BY <1>3, <1>11, PassedIs

LEMMA JumpOn ==
  ASSUME NEW h, NEW c, NEW dom, NEW entry, Complete(h, c, dom, entry),
         NEW a, NEW vals, NEW mem, NEW p, Executing(h, c, dom, entry, a, vals, mem, p),
         IsTerminator(InstrAt(c, p)), NEW t \in Targets(InstrAt(c, p)), NEW when,
         Reaches(c, entry, Has(c, entry, p[1], p[2] - 1), when, t),
         \A fact \in when : fact[1] \in DOMAIN vals /\ vals[fact[1]].tag = fact[2] - 1
  PROVE  Executing(h, c, dom, entry, a, vals, mem, <<t, 1>>)
<1> DEFINE q == <<t, 1>>
<1>1. IsAt(c, p) /\ q[1] = t /\ q[2] = 1
  BY DEF Executing
<1>2. IsAt(c, q)
  <2>1. t \in DOMAIN c.blocks
    BY DEF Reaches
  <2>2. IsSeq(c.blocks[t]) /\ c.blocks[t] # <<>>
    BY <2>1 DEF Complete, Ended, Closed, CodeRuns, Shaped
  <2>3. 1 \in DOMAIN c.blocks[t]
    BY <2>2, SeqFacts
  <2> QED BY <2>1, <2>3 DEF IsAt
<1>3. ASSUME NEW v, Passed(c, dom, v, q) PROVE v \in DOMAIN vals
  <2>1. Passed(c, dom, v, p)
    BY <1>1, <1>3, PassedJump
  <2> QED BY <2>1 DEF Executing
<1>4. Has(c, entry, q[1], q[2] - 1) \subseteq DOMAIN mem
  <2>1. Has(c, entry, t, 1 - 1) = entry[t].has
    <3>1. 1 - 1 = 0 /\ Stored(c.blocks[t], 0) = {}
      BY StoredNext
    <3> QED BY <3>1 DEF Has
  <2>2. entry[t].has \subseteq Has(c, entry, p[1], p[2] - 1)
    BY DEF Reaches
  <2>3. Has(c, entry, p[1], p[2] - 1) \subseteq DOMAIN mem
    BY DEF Executing
  <2> QED BY <2>1, <2>2, <2>3
<1>5. \A fact \in entry[q[1]].when : fact[1] \in DOMAIN vals /\ vals[fact[1]].tag = fact[2] - 1
  <2>1. entry[t].when \subseteq when
    BY DEF Reaches
  <2> HIDE DEF q
  <2> QED BY <1>1, <2>1
<1>6. /\ \A v \in DOMAIN vals : \A T : Holds(h, c, v, T) => vals[v] \in T
      /\ \A mb \in DOMAIN mem : mem[mb] \in BoxType(h, mb)
      /\ \A i \in 1 .. h.params : a[i] \in TypesIn(h, h.root)[i]
  BY DEF Executing
<1> HIDE DEF q
<1>7. Executing(h, c, dom, entry, a, vals, mem, q)
  BY <1>2, <1>3, <1>4, <1>5, <1>6 DEF Executing
<1> QED BY <1>7 DEF q


-----------------------------------------------------------------------------
(* The instructions.                                                       *)

\* The complete function is being executed.
Executes(dom, entry) ==
    /\ phase = "emitted"
    /\ Complete(hugr, Code, dom, entry)
    /\ Executing(hugr, Code, dom, entry, args, values, memory, pc)

Idle == pc = <<0, 0>> /\ values = <<>> /\ memory = <<>>

MInv == Idle \/ \E dom, entry : Executes(dom, entry)

LEMMA InstrIs ==
  ASSUME NEW dom, NEW entry, Executes(dom, entry)
  PROVE  /\ IsAt(Code, pc) /\ InstrAt(Code, pc) = Instr /\ Code.blocks = blocks
         /\ InstrRuns(hugr, Code, entry, Has(Code, entry, pc[1], pc[2] - 1),
                      entry[pc[1]].when, Instr)
         /\ Has(Code, entry, pc[1], pc[2] - 1) \subseteq DOMAIN memory
<1>1. IsAt(Code, pc) /\ Has(Code, entry, pc[1], pc[2] - 1) \subseteq DOMAIN memory
  BY DEF Executes, Executing
<1>2. Code.blocks = blocks
  BY DEF Code
<1>3. InstrAt(Code, pc) = Instr
  BY <1>2 DEF InstrAt, Instr
<1> QED BY <1>1, <1>2, <1>3, AtInstr DEF Executes

LEMMA LoadOperand ==
  ASSUME NEW dom, NEW entry, Executes(dom, entry),
         NEW v \in Operands(Instr), IsLoad(Code, v)
  PROVE  Of(v) \in LoadType(hugr, Code, v) /\ Of(v) = values[v] /\ v \in DOMAIN values
<1>1. v[1] # 0 /\ v \in DOMAIN values /\ values[v] \in LoadType(hugr, Code, v)
  BY InstrIs, LoadThere DEF Executes
<1> QED BY <1>1 DEF Of

LEMMA ArgsPicked ==
  ASSUME NEW dom, NEW entry, Executes(dom, entry),
         NEW vs, AreLoads(Code, vs), ToSet(vs) \subseteq Operands(Instr)
  PROVE  AllOf(vs) \in Picks(LoadTypes(hugr, Code, vs))
<1> DEFINE S == LoadTypes(hugr, Code, vs)
           a == AllOf(vs)
<1>1. IsSeq(vs) /\ DOMAIN vs = 1 .. Len(vs)
  BY SeqFacts DEF AreLoads
<1>2. DOMAIN S = DOMAIN vs /\ \A i \in DOMAIN vs : S[i] = LoadType(hugr, Code, vs[i])
  BY DEF LoadTypes
<1>3. a = [i \in DOMAIN vs |-> Of(vs[i])]
  BY DEF AllOf
<1>4. ASSUME NEW i \in DOMAIN vs PROVE Of(vs[i]) \in S[i]
  <2>1. vs[i] \in Operands(Instr)
    BY DEF ToSet
  <2>2. IsLoad(Code, vs[i])
    BY <1>1 DEF AreLoads
  <2> HIDE DEF S
  <2> QED BY <1>2, <2>1, <2>2, LoadOperand
<1> HIDE DEF S, a
<1>5. a \in [DOMAIN S -> UNION {S[i] : i \in DOMAIN S}]
  BY <1>2, <1>3, <1>4
<1>6. \A i \in DOMAIN S : a[i] \in S[i]
  BY <1>2, <1>3, <1>4
<1>7. a \in Picks(S)
  BY <1>5, <1>6 DEF Picks
<1> QED BY <1>7 DEF S, a

LEMMA ComputeStep ==
  ASSUME NEW dom, NEW entry, Executes(dom, entry), Computes(Instr),
         NEW x, \A T : Yields(hugr, Code, Instr, T) => x \in T
  PROVE  Executing(hugr, Code, dom, entry, args, Set(values, pc, x), memory, <<pc[1], pc[2] + 1>>)
BY InstrIs, ComputeOn DEF Executes

LEMMA LoadStep ==
  ASSUME NEW dom, NEW entry, Executes(dom, entry), ExecLoad
  PROVE  Executing(hugr, Code, dom, entry, args, values', memory, pc')
<1>1. Instr.op = "load" /\ Instr.mb \in DOMAIN memory
  BY DEF ExecLoad, Is
<1>2. values' = Set(values, pc, memory[Instr.mb]) /\ pc' = <<pc[1], pc[2] + 1>>
  BY DEF ExecLoad, Compute
<1>3. ASSUME NEW T, Yields(hugr, Code, Instr, T) PROVE memory[Instr.mb] \in T
  <2>1. BoxType(hugr, Instr.mb) \subseteq T
    BY <1>1, <1>3 DEF Yields
  <2>2. memory[Instr.mb] \in BoxType(hugr, Instr.mb)
    BY <1>1 DEF Executes, Executing
  <2> QED BY <2>1, <2>2
<1>4. Computes(Instr)
  BY <1>1 DEF Computes
<1> QED BY <1>2, <1>3, <1>4, ComputeStep

LEMMA TagStep ==
  ASSUME NEW dom, NEW entry, Executes(dom, entry), ExecTag
  PROVE  Executing(hugr, Code, dom, entry, args, values', memory, pc')
<1> DEFINE x == [tag |-> Instr.tag, fields |-> AllOf(Instr.args)]
<1>1. Instr.op = "tag"
  BY DEF ExecTag, Is
<1>2. values' = Set(values, pc, x) /\ pc' = <<pc[1], pc[2] + 1>>
  BY DEF ExecTag, Compute
<1>3. ASSUME NEW T, Yields(hugr, Code, Instr, T) PROVE x \in T
  <2>1. /\ AreLoads(Code, Instr.args)
        /\ \A a \in Picks(LoadTypes(hugr, Code, Instr.args)) : [tag |-> Instr.tag, fields |-> a] \in T
    BY <1>1, <1>3 DEF Yields
  <2>2. AllOf(Instr.args) \in Picks(LoadTypes(hugr, Code, Instr.args))
    BY <1>1, <2>1, ArgsPicked DEF Operands
  <2> QED BY <2>1, <2>2
<1>4. Computes(Instr)
  BY <1>1 DEF Computes
<1> HIDE DEF x
<1> QED BY <1>2, <1>3, <1>4, ComputeStep

LEMMA ApplyStep ==
  ASSUME NEW dom, NEW entry, Executes(dom, entry), ExecApply
  PROVE  Executing(hugr, Code, dom, entry, args, values', memory, pc')
<1> DEFINE x == Meaning(Instr.f, AllOf(Instr.args))[Instr.port]
<1>1. Instr.op = "apply"
  BY DEF ExecApply, Is
<1>2. values' = Set(values, pc, x) /\ pc' = <<pc[1], pc[2] + 1>>
  BY DEF ExecApply, Compute
<1>3. ASSUME NEW T, Yields(hugr, Code, Instr, T) PROVE x \in T
  <2>1. /\ AreLoads(Code, Instr.args)
        /\ \A a \in Picks(LoadTypes(hugr, Code, Instr.args)) : Meaning(Instr.f, a)[Instr.port] \in T
    BY <1>1, <1>3 DEF Yields
  <2>2. AllOf(Instr.args) \in Picks(LoadTypes(hugr, Code, Instr.args))
    BY <1>1, <2>1, ArgsPicked DEF Operands
  <2> QED BY <2>1, <2>2
<1>4. Computes(Instr)
  BY <1>1 DEF Computes
<1> HIDE DEF x
<1> QED BY <1>2, <1>3, <1>4, ComputeStep

LEMMA ConstStep ==
  ASSUME NEW dom, NEW entry, Executes(dom, entry), ExecConst
  PROVE  Executing(hugr, Code, dom, entry, args, values', memory, pc')
<1>1. Instr.op = "const"
  BY DEF ExecConst, Is
<1>2. values' = Set(values, pc, Instr.const) /\ pc' = <<pc[1], pc[2] + 1>>
  BY DEF ExecConst, Compute
<1>3. ASSUME NEW T, Yields(hugr, Code, Instr, T) PROVE Instr.const \in T
  BY <1>1, <1>3 DEF Yields
<1>4. Computes(Instr)
  BY <1>1 DEF Computes
<1> QED BY <1>2, <1>3, <1>4, ComputeStep

\* The sum that a field is taken from is in the variant it is a field of.
LEMMA FieldIsThere ==
  ASSUME NEW dom, NEW entry, Executes(dom, entry), Instr.op = "field"
  PROVE  /\ IsLoad(Code, Instr.sum) /\ Of(Instr.sum) \in LoadType(hugr, Code, Instr.sum)
         /\ Of(Instr.sum).tag = Instr.tag - 1
<1> DEFINE instr == Instr
           fact == <<Instr.sum, Instr.tag>>
<1>1. /\ IsLoad(Code, Instr.sum) /\ fact \in entry[pc[1]].when
  BY InstrIs DEF InstrRuns
<1>2. Instr.sum \in Operands(Instr)
  BY DEF Operands
<1>3. Of(Instr.sum) \in LoadType(hugr, Code, Instr.sum) /\ Of(Instr.sum) = values[Instr.sum]
  BY <1>1, <1>2, LoadOperand
<1>4. values[fact[1]].tag = fact[2] - 1
  <2> HIDE DEF fact
  <2> QED BY <1>1 DEF Executes, Executing
<1>5. fact[1] = Instr.sum /\ fact[2] = Instr.tag
  OBVIOUS
<1> QED BY <1>1, <1>3, <1>4, <1>5

LEMMA FieldStep ==
  ASSUME NEW dom, NEW entry, Executes(dom, entry), ExecField
  PROVE  Executing(hugr, Code, dom, entry, args, values', memory, pc')
<1> DEFINE x == Of(Instr.sum).fields[Instr.ix]
<1>1. Instr.op = "field"
  BY DEF ExecField, Is
<1>2. values' = Set(values, pc, x) /\ pc' = <<pc[1], pc[2] + 1>>
  BY DEF ExecField, Compute
<1>3. ASSUME NEW T, Yields(hugr, Code, Instr, T) PROVE x \in T
  <2>1. \A y \in LoadType(hugr, Code, Instr.sum) : y.tag = Instr.tag - 1 => y.fields[Instr.ix] \in T
    BY <1>1, <1>3 DEF Yields
  <2> QED BY <1>1, <2>1, FieldIsThere
<1>4. Computes(Instr)
  BY <1>1 DEF Computes
<1> HIDE DEF x
<1> QED BY <1>2, <1>3, <1>4, ComputeStep


LEMMA StoreStep ==
  ASSUME NEW dom, NEW entry, Executes(dom, entry), ExecStore
  PROVE  Executing(hugr, Code, dom, entry, args, values, memory', pc')
<1> DEFINE v == Instr.val
           T == BoxType(hugr, Instr.mb)
<1>1. Instr.op = "store"
  BY DEF ExecStore, Is
<1>2. memory' = Set(memory, Instr.mb, Of(v)) /\ pc' = <<pc[1], pc[2] + 1>>
  BY DEF ExecStore
<1>3. Holds(hugr, Code, v, T)
  BY <1>1, InstrIs DEF InstrRuns
<1>4. v \in Operands(Instr)
  BY <1>1 DEF Operands
<1> HIDE DEF v, T
<1>5. Of(v) \in T
  <2>1. CASE v[1] = 0
    <3>1. v[2] \in 1 .. hugr.params /\ TypesIn(hugr, hugr.root)[v[2]] \subseteq T
      BY <1>3, <2>1 DEF Holds
    <3>2. args[v[2]] \in TypesIn(hugr, hugr.root)[v[2]]
      BY <3>1 DEF Executes, Executing
    <3> QED BY <2>1, <3>1, <3>2 DEF Of
  <2>2. CASE v[1] # 0
    <3>1. v \in DOMAIN values
      BY <1>4, <2>2, InstrIs, OperandThere DEF Executes
    <3>2. values[v] \in T
      BY <1>3, <3>1 DEF Executes, Executing
    <3> QED BY <2>2, <3>2 DEF Of
  <2> QED BY <2>1, <2>2
<1> QED BY <1>1, <1>2, <1>5, InstrIs, StoreOn DEF Executes, T

LEMMA JumpStep ==
  ASSUME NEW dom, NEW entry, Executes(dom, entry),
         IsTerminator(Instr), NEW t \in Targets(Instr), NEW when,
         Reaches(Code, entry, Has(Code, entry, pc[1], pc[2] - 1), when, t),
         \A fact \in when : fact[1] \in DOMAIN values /\ values[fact[1]].tag = fact[2] - 1
  PROVE  Executing(hugr, Code, dom, entry, args, values, memory, <<t, 1>>)
BY InstrIs, JumpOn DEF Executes

LEMMA BranchStep ==
  ASSUME NEW dom, NEW entry, Executes(dom, entry), ExecBranch
  PROVE  Executing(hugr, Code, dom, entry, args, values, memory, pc')
<1>1. Instr.op = "br"
  BY DEF ExecBranch, Is
<1>2. pc' = <<Instr.to, 1>>
  BY DEF ExecBranch, GoTo
<1>3. Reaches(Code, entry, Has(Code, entry, pc[1], pc[2] - 1), {}, Instr.to)
  BY <1>1, InstrIs DEF InstrRuns
<1>4. IsTerminator(Instr) /\ Instr.to \in Targets(Instr)
  BY <1>1 DEF IsTerminator, Targets
<1> QED BY <1>2, <1>3, <1>4, JumpStep

LEMMA SwitchStep ==
  ASSUME NEW dom, NEW entry, Executes(dom, entry), ExecSwitch
  PROVE  Executing(hugr, Code, dom, entry, args, values, memory, pc')
<1> DEFINE v == Instr.on
           to == Instr.to
           j == Of(v).tag + 1
           has == Has(Code, entry, pc[1], pc[2] - 1)
<1>1. Instr.op = "switch"
  BY DEF ExecSwitch, Is
<1>2. pc' = <<to[IF j \in DOMAIN to THEN j ELSE 1], 1>>
  BY DEF ExecSwitch, GoTo
<1>3. /\ Selects(hugr, Code, v, to)
      /\ \A k \in DOMAIN to : Reaches(Code, entry, has, {<<v, k>>}, to[k])
  BY <1>1, InstrIs DEF InstrRuns
<1>4. v \in Operands(Instr)
  BY <1>1 DEF Operands
<1>5. Of(v) = values[v] /\ v \in DOMAIN values
  <2>1. v[1] # 0
    BY <1>3 DEF Selects
  <2>2. v \in DOMAIN values
    BY <1>4, <2>1, InstrIs, OperandThere DEF Executes
  <2> QED BY <2>1, <2>2 DEF Of
<1>6. Of(v).tag \in Nat /\ j \in DOMAIN to
  <2>1. PICK T : /\ Holds(hugr, Code, v, T)
                 /\ \A x \in T : x.tag \in Nat /\ x.tag + 1 \in DOMAIN to
    BY <1>3 DEF Selects
  <2>2. values[v] \in T
    BY <1>5, <2>1 DEF Executes, Executing
  <2> QED BY <1>5, <2>1, <2>2
<1>7. values[v].tag = j - 1
  BY <1>5, <1>6
<1>8. to[j] \in Targets(Instr) /\ IsTerminator(Instr)
  BY <1>1, <1>6 DEF Targets, IsTerminator, ToSet
<1> HIDE DEF v, to, j, has
<1>9. Reaches(Code, entry, has, {<<v, j>>}, to[j])
  BY <1>3, <1>6
<1>10. \A fact \in {<<v, j>>} : fact[1] \in DOMAIN values /\ values[fact[1]].tag = fact[2] - 1
  BY <1>5, <1>7
<1>11. Executing(hugr, Code, dom, entry, args, values, memory, <<to[j], 1>>)
  BY <1>8, <1>9, <1>10, JumpStep DEF has
<1> QED BY <1>2, <1>6, <1>11

LEMMA ExecRuns ==
  ASSUME MInv, Exec
  PROVE  MInv'
<1>1. pc # <<0, 0>> /\ phase = "emitted" /\ UNCHANGED <<vars, args>>
  BY DEF Exec, ExecLoad, ExecStore, ExecTag, ExecField, ExecConst, ExecApply, ExecBranch,
         ExecSwitch, Is, Compute, GoTo
<1>2. PICK dom, entry : Executes(dom, entry)
  BY <1>1 DEF MInv, Idle
<1>3. hugr' = hugr /\ phase' = phase /\ args' = args /\ Code' = Code
  BY <1>1 DEF vars, Code
<1>4. Executing(hugr, Code, dom, entry, args, values', memory', pc')
  <2>1. CASE ExecLoad \/ ExecTag \/ ExecField \/ ExecConst \/ ExecApply
    <3>1. memory' = memory
      BY <2>1 DEF ExecLoad, ExecTag, ExecField, ExecConst, ExecApply, Compute
    <3> QED BY <1>2, <2>1, <3>1, LoadStep, TagStep, FieldStep, ConstStep, ApplyStep
  <2>2. CASE ExecStore
    <3>1. values' = values
      BY <2>2 DEF ExecStore
    <3> QED BY <1>2, <2>2, <3>1, StoreStep
  <2>3. CASE ExecBranch \/ ExecSwitch
    <3>1. values' = values /\ memory' = memory
      BY <2>3 DEF ExecBranch, ExecSwitch, GoTo
    <3> QED BY <1>2, <2>3, <3>1, BranchStep, SwitchStep
  <2> QED BY <2>1, <2>2, <2>3 DEF Exec
<1>5. Executes(dom, entry)'
  BY <1>2, <1>3, <1>4 DEF Executes
<1> QED BY <1>5 DEF MInv

LEMMA CallRunsOn ==
  ASSUME IInv, DInv, RInv, MInv, Call
  PROVE  MInv'
<1>1. /\ phase = "emitted" /\ pc = <<0, 0>> /\ args' \in Arguments(hugr) /\ pc' = <<1, 1>>
      /\ UNCHANGED <<vars, values, memory>>
  BY DEF Call
<1>2. hugr' = hugr /\ phase' = phase /\ Code' = Code /\ hugr \in Hugrs
  BY <1>1 DEF vars, Code, IInv
<1>3. PICK dom : CodeSound(hugr, Code, dom, mailboxes)
  BY DEF DInv, Certified
<1>4. PICK entry : CodeRuns(hugr, Code, entry)
  BY DEF RInv, Runs
<1>5. Complete(hugr, Code, dom, entry)
  <2>1. CodeOK(Code) /\ Open(Code) = {}
    BY <1>1 DEF IInv, Sound
  <2>2. Ended(Code)
    BY <2>1 DEF CodeOK, Open, Ended
  <2> QED BY <1>3, <1>4, <2>2 DEF Complete
<1>6. values = <<>> /\ memory = <<>> /\ DOMAIN values = {} /\ DOMAIN memory = {}
  <2>1. values = <<>> /\ memory = <<>>
    <3>1. ASSUME NEW d, NEW e, Executes(d, e) PROVE FALSE
      <4>1. pc[1] \in DOMAIN Code.blocks /\ pc[1] = 0
        BY <1>1, <3>1 DEF Executes, Executing, IsAt
      <4>2. IsSeq(Code.blocks)
        BY <1>4 DEF CodeRuns, Shaped
      <4> QED BY <4>1, <4>2, SeqFacts
    <3> QED BY <3>1 DEF MInv, Idle
  <2> QED BY <2>1
<1> DEFINE p == <<1, 1>>
           a == args'
<1>7. p[1] = 1 /\ p[2] = 1 /\ p = <<p[1], p[2]>> /\ pc' = p
  BY <1>1
<1>8. 1 \in DOMAIN Code.blocks /\ IsSeq(Code.blocks[1]) /\ dom[1] = {1} /\ entry[1] = Nothing
  BY <1>3, <1>4 DEF CodeSound, CodeRuns, Shaped
<1>9. 1 \in DOMAIN Code.blocks[1] /\ Code.blocks[1] # <<>>
  <2>1. Code.blocks[1] # <<>>
    BY <1>5, <1>8 DEF Complete, Ended, Closed
  <2> QED BY <1>8, <2>1, SeqFacts
<1>10. \A i \in 1 .. hugr.params : a[i] \in TypesIn(hugr, hugr.root)[i]
  BY <1>1, <1>2, TypesAssumption
<1> HIDE DEF p, a
<1>11. Executing(hugr, Code, dom, entry, a, values, memory, p)
  <2>1. IsAt(Code, p)
    BY <1>7, <1>8, <1>9 DEF IsAt
  <2>2. ASSUME NEW v PROVE ~Passed(Code, dom, v, p)
    <3>1. SUFFICES ASSUME Passed(Code, dom, v, p) PROVE FALSE
      OBVIOUS
    <3>2. v[1] = 1 /\ v[2] < 1
      BY <1>7, <1>8, <3>1 DEF Passed
    <3>3. v[2] \in DOMAIN Code.blocks[1]
      BY <3>1, <3>2 DEF Passed, IsAt
    <3>4. v[2] \in 1 .. Len(Code.blocks[1]) /\ Len(Code.blocks[1]) \in Nat
      BY <1>8, <3>3, SeqFacts
    <3> QED BY <3>2, <3>4
  <2>3. Has(Code, entry, p[1], p[2] - 1) = {}
    <3>1. 1 - 1 = 0 /\ Stored(Code.blocks[1], 0) = {}
      BY StoredNext
    <3> QED BY <1>7, <1>8, <3>1 DEF Has, Nothing
  <2>4. entry[p[1]].when = {}
    BY <1>7, <1>8 DEF Nothing
  <2> QED BY <1>6, <1>10, <2>1, <2>2, <2>3, <2>4 DEF Executing
<1>12. Executes(dom, entry)'
  BY <1>1, <1>2, <1>5, <1>7, <1>11 DEF Executes, a
<1> QED BY <1>12 DEF MInv


LEMMA EmitRuns ==
  ASSUME MInv, Emit, UNCHANGED machineVars
  PROVE  MInv'
<1>1. phase = "emitting"
  BY DEF Emit, VisitChild, LeaveDfg, EnterCase, LeaveCase, LeaveConditional, EnterBlock,
         LeaveBlock, EmitExitBlock, EmitCfgDefinition, LeaveCfg, FinishFunc, CfgChild,
         Completed, Running
<1>2. Idle
  BY <1>1 DEF MInv, Executes
<1> QED BY <1>2 DEF MInv, Idle, machineVars

LEMMA MachineRuns ==
  ASSUME IInv, DInv, RInv, MInv, [RunNext]_allVars
  PROVE  MInv'
<1>1. CASE Emit /\ UNCHANGED machineVars
  BY <1>1, EmitRuns
<1>2. CASE Call
  BY <1>2, CallRunsOn
<1>3. CASE Exec
  BY <1>3, ExecRuns
<1>4. CASE UNCHANGED allVars
  <2>1. UNCHANGED <<hugr, blocks, pos, phase, args, values, memory, pc>>
    BY <1>4 DEF allVars, vars, machineVars
  <2>2. Code' = Code
    BY <2>1 DEF Code
  <2>3. CASE Idle
    BY <2>1, <2>3 DEF MInv, Idle
  <2>4. CASE \E dom, entry : Executes(dom, entry)
    <3>1. PICK dom, entry : Executes(dom, entry)
      BY <2>4
    <3>2. Executes(dom, entry)'
      BY <2>1, <2>2, <3>1 DEF Executes
    <3> QED BY <3>2 DEF MInv
  <2> QED BY <2>3, <2>4 DEF MInv
<1> QED BY <1>1, <1>2, <1>3, <1>4 DEF RunNext, Done

\* The run starts with the emission.
LEMMA RunEmits == RunSpec => Spec
<1>1. RunInit => Init
  BY DEF RunInit
<1>2. [RunNext]_allVars => [Next]_vars
  <2>1. ASSUME Emit PROVE Next
    BY <2>1 DEF Next
  <2>2. ASSUME Call PROVE UNCHANGED vars
    BY <2>2 DEF Call
  <2>3. ASSUME Exec PROVE UNCHANGED vars
    BY <2>3 DEF Exec, ExecLoad, ExecStore, ExecTag, ExecField, ExecConst, ExecApply,
                ExecBranch, ExecSwitch, Compute, GoTo
  <2>4. ASSUME UNCHANGED allVars PROVE UNCHANGED vars
    BY <2>4 DEF allVars
  <2> QED BY <2>1, <2>2, <2>3, <2>4 DEF RunNext, Done
<1> QED BY <1>1, <1>2, PTL DEF RunSpec, Spec

\* While a function is executed, the certificates describe what has been
\* computed and written: every value that is needed later on this path.
THEOREM RunSound == RunSpec => []MInv
<1>1. RunInit => MInv
  BY DEF RunInit, MachineInit, MInv, Idle
<1>2. IInv /\ DInv /\ RInv /\ MInv /\ [RunNext]_allVars => MInv'
  BY MachineRuns
<1> QED BY <1>1, <1>2, RunEmits, Invariant, CertificateKept, EmissionRuns, PTL DEF RunSpec

\* EmitFuncContext and the mailboxes, at run time: whatever valid function is
\* emitted and whatever arguments it is called with, no mailbox is read before
\* it is written, no field is taken of a variant that a sum is not in, and no
\* value is used that this activation has not computed.
THEOREM UndefinedIsUnused == RunSpec => []NothingUndefinedIsUsed
<1>1. MInv => NothingUndefinedIsUsed
  <2> SUFFICES ASSUME MInv, pc # <<0, 0>>, phase = "emitted"
               PROVE  /\ Instr.op = "load" => Instr.mb \in DOMAIN memory
                      /\ \A v \in Operands(Instr) : v[1] = 0 \/ v \in DOMAIN values
                      /\ Instr.op = "field" => Of(Instr.sum).tag = Instr.tag - 1
    BY DEF NothingUndefinedIsUsed, Is
  <2>1. PICK dom, entry : Executes(dom, entry)
    BY DEF MInv, Idle
  <2>2. ASSUME Instr.op = "load" PROVE Instr.mb \in DOMAIN memory
    <3>1. Instr.mb \in Has(Code, entry, pc[1], pc[2] - 1)
      BY <2>1, <2>2, InstrIs DEF InstrRuns
    <3> QED BY <2>1, <3>1, InstrIs
  <2>3. ASSUME NEW v \in Operands(Instr) PROVE v[1] = 0 \/ v \in DOMAIN values
    BY <2>1, InstrIs, OperandThere DEF Executes
  <2>4. ASSUME Instr.op = "field" PROVE Of(Instr.sum).tag = Instr.tag - 1
    BY <2>1, <2>4, FieldIsThere
  <2> QED BY <2>2, <2>3, <2>4
<1> QED BY <1>1, RunSound, PTL
=============================================================================
