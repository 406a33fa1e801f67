------------------------- MODULE InlineConstFnsProofs -------------------------
(***************************************************************************)
(* Proofs about InlineConstFns, for all functions, whatever constants they *)
(* hold and however deep these nest.                                       *)
(***************************************************************************)
EXTENDS InlineConstFns, FiniteSetTheorems, WellFoundedInduction, TLAPS

-----------------------------------------------------------------------------
(* The invariant.                                                          *)

NodeType == [kind : Kind, parent : Nat, fn : Fns \cup {NoFn}, from : Nat]

\* Node n has its place in the HUGR h: its parent is a node that is not going to
\* be removed, or one of those above h, and its static edge joins like to like.
Placed(h, n, above) ==
    /\ h[n] \in NodeType
    /\ h[n].parent \in DOMAIN h \cup above
    /\ h[n].parent \in DOMAIN h => h[h[n].parent].kind \notin Consts
    /\ h[n].from \in DOMAIN h \cup {NoNode}
    /\ h[n].from \in DOMAIN h => h[h[n].from].fn = h[n].fn
    /\ h[n].kind = "FunctionConst" => h[n].fn \in Fns

Above(n) == IF n = Root THEN {NoNode} ELSE {}

\* A module, whose nodes have indices below limit.
IsModule(h, limit) ==
    /\ limit \in Nat
    /\ Root \in DOMAIN h /\ DOMAIN h \subseteq Root .. limit - 1
    /\ h[Root].kind = "Module"
    /\ \A n \in DOMAIN h : Placed(h, n, Above(n))

\* What was collected for a constant is still so.
Current(h, e) ==
    /\ e = [konst |-> e.konst, fn |-> e.fn, loads |-> e.loads]
    /\ e.konst \in DOMAIN h
    /\ h[e.konst].kind = "FunctionConst" /\ h[e.konst].fn = e.fn
    /\ OutputNeighbours(h, e.konst) = e.loads
    /\ \A n \in e.loads : h[n].kind = "LoadConstant"

\* Unless something has been inserted, no other constants are left.
NoneMissed ==
    /\ phase = "rewrite" /\ ~any_changes =>
         \A n \in FunctionConsts(hugr) : \E e \in const_funs : e.konst = n
    /\ phase = "done" => FunctionConsts(hugr) = {}

\* FuncDefn d of the module is of function fn, with one child, which stays.
Defines(h, d, fn) ==
    /\ h[d].kind = "FuncDefn" /\ h[d].parent = Root /\ h[d].fn = fn
    /\ \E c \in DOMAIN h : /\ h[c].kind # "FunctionConst"
                          /\ {m \in DOMAIN h : h[m].parent = d} = {c}

\* A load has the static source it had before the call.
LinkedIn(h, n) ==
    /\ h[n].kind = "LoadConstant" => h[n].from \in DOMAIN h /\ h[h[n].from].kind \in Consts
    /\ h[n].kind = "LoadFunction" => h[n].from \in DOMAIN h /\ h[h[n].from].kind = "FuncDefn"

\* There is a definition of the function a load loads, in the module or still
\* in a constant.
Served(h, n) == LinkedIn(h, n) \/ (/\ h[n].kind = "LoadFunction"
                                   /\ \E d \in DOMAIN h : Defines(h, d, h[n].fn))

AllServed == /\ \A n \in DOMAIN hugr : Served(hugr, n)
             /\ \A e \in const_funs : Body[e.fn][1].kind # "FunctionConst"

Inv == /\ phase \in {"collect", "rewrite", "done", "failed"} /\ any_changes \in BOOLEAN
       /\ IsModule(hugr, next)
       /\ \A e \in const_funs : Current(hugr, e)
       /\ NoneMissed

-----------------------------------------------------------------------------
(* The constants are rewritten in the order of their indices, and there is *)
(* always a first.                                                         *)

LEMMA Least ==
  ASSUME NEW S, S \subseteq Nat, S # {}
  PROVE  \E x \in S : \A y \in S : x <= y
<1> DEFINE R == {p \in Nat \X Nat : p[1] < p[2]}
<1>1. IsWellFoundedOn(R, Nat)
  BY NatLessThanWellFounded DEF OpToRel
<1>2. PICK x \in S : \A y \in S : <<y, x>> \notin R
  <2> HIDE DEF R
  <2> QED BY <1>1, WFMin
<1>3. ASSUME NEW y \in S PROVE x <= y
  <2>1. <<y, x>> \in Nat \X Nat /\ <<y, x>>[1] = y /\ <<y, x>>[2] = x
    OBVIOUS
  <2>2. ~(y < x)
    BY <1>2, <2>1
  <2> QED BY <2>2
<1> QED BY <1>3

LEMMA FirstIsOne ==
  ASSUME IsModule(hugr, next), const_funs # {}, \A e \in const_funs : Current(hugr, e)
  PROVE  First(const_funs) \in const_funs
<1> DEFINE S == {e.konst : e \in const_funs}
<1>1. S \subseteq Nat /\ S # {}
  BY DEF IsModule, Current, Root
<1>2. PICK x \in S : \A y \in S : x <= y
  <2> HIDE DEF S
  <2> QED BY <1>1, Least
<1>3. PICK e \in const_funs : e.konst = x
  OBVIOUS
<1>4. \A d \in const_funs : e.konst <= d.konst
  BY <1>2, <1>3
<1> QED BY <1>4 DEF First

-----------------------------------------------------------------------------
(* What is inserted.                                                       *)

\* Distinct indices for the nodes of f.
Indices(f, at) == /\ at \in [DOMAIN Body[f] -> Nat \ {NoNode}]
                  /\ \A i, j \in DOMAIN Body[f] : at[i] = at[j] => i = j

LEMMA BodyNodes ==
  ASSUME NEW f \in Fns
  PROVE  /\ Body[f] \in Seq(NodeType)
         /\ Len(Body[f]) \in Nat /\ DOMAIN Body[f] = 1 .. Len(Body[f]) /\ 1 \in DOMAIN Body[f]
         /\ \A i \in DOMAIN Body[f] : Body[f][i] \in NodeType
<1>1. Body[f] \in Seq(NodeType) /\ Body[f] # <<>>
  BY BodyAssumption DEF NodeType
<1> QED BY <1>1

\* insert_hugr: every index given is that of a node of the copy.
LEMMA CopyDomain ==
  ASSUME NEW f \in Fns, NEW parent, NEW at
  PROVE  /\ \A n \in DOMAIN Copies(f, parent, at) : \E i \in DOMAIN Body[f] : n = at[i]
         /\ \A i \in DOMAIN Body[f] : at[i] \in DOMAIN Copies(f, parent, at)
BY DEF Copies

\* The nodes of a copy are those of the function.
LEMMA CopyOf ==
  ASSUME NEW f \in Fns, NEW parent \in Nat, NEW at, Indices(f, at)
  PROVE  \A i \in DOMAIN Body[f] :
              Copies(f, parent, at)[at[i]] =
                   [kind |-> Body[f][i].kind,
                    parent |-> IF Body[f][i].parent = 0 THEN parent ELSE at[Body[f][i].parent],
                    fn |-> Body[f][i].fn,
                    from |-> IF Body[f][i].from = 0 THEN NoNode ELSE at[Body[f][i].from]]
<1>2. ASSUME NEW i \in DOMAIN Body[f]
      PROVE  Copies(f, parent, at)[at[i]] =
                   [kind |-> Body[f][i].kind,
                    parent |-> IF Body[f][i].parent = 0 THEN parent ELSE at[Body[f][i].parent],
                    fn |-> Body[f][i].fn,
                    from |-> IF Body[f][i].from = 0 THEN NoNode ELSE at[Body[f][i].from]]
  <2>1. (CHOOSE j \in DOMAIN Body[f] : at[j] = at[i]) = i
    BY DEF Indices
  <2> QED BY <2>1 DEF Copies, Node
<1> QED BY <1>2

\* The copy of a function is in order below its new parent.
LEMMA CopiesPlaced ==
  ASSUME NEW f \in Fns, NEW parent \in Nat, NEW at, Indices(f, at),
         \A i \in DOMAIN Body[f] : at[i] # parent
  PROVE  \A n \in DOMAIN Copies(f, parent, at) : Placed(Copies(f, parent, at), n, {parent})
<1> DEFINE c == Copies(f, parent, at)
<1>1. ASSUME NEW i \in DOMAIN Body[f]
      PROVE  /\ Body[f][i] \in NodeType
             /\ {Body[f][i].parent, Body[f][i].from} \subseteq DOMAIN Body[f] \cup {0}
             /\ Body[f][i].kind = "FunctionConst" => Body[f][i].fn \in Fns
             /\ Body[f][i].parent # 0 => Body[f][Body[f][i].parent].kind \notin Consts
             /\ Body[f][i].from # 0 => Body[f][Body[f][i].from].fn = Body[f][i].fn
  <2>1. Body[f][i] \in NodeType
    BY BodyNodes
  <2> QED BY <2>1, BodyAssumption
<1>2. /\ \A n \in DOMAIN c : \E i \in DOMAIN Body[f] : n = at[i]
      /\ \A i \in DOMAIN Body[f] : at[i] \in DOMAIN c
  BY CopyDomain
<1>3. \A i \in DOMAIN Body[f] : at[i] \in Nat /\ at[i] # NoNode /\ at[i] # parent
  BY DEF Indices
<1>4. ASSUME NEW i \in DOMAIN Body[f]
      PROVE  /\ c[at[i]].kind = Body[f][i].kind /\ c[at[i]].fn = Body[f][i].fn
             /\ c[at[i]].parent = IF Body[f][i].parent = 0 THEN parent ELSE at[Body[f][i].parent]
             /\ c[at[i]].from = IF Body[f][i].from = 0 THEN NoNode ELSE at[Body[f][i].from]
             /\ c[at[i]] \in NodeType
  <2> DEFINE above == IF Body[f][i].parent = 0 THEN parent ELSE at[Body[f][i].parent]
             from == IF Body[f][i].from = 0 THEN NoNode ELSE at[Body[f][i].from]
  <2>1. c[at[i]] = [kind |-> Body[f][i].kind, parent |-> above,
                    fn |-> Body[f][i].fn, from |-> from]
    BY CopyOf
  <2>2. above \in Nat
    BY <1>1, <1>3
  <2>3. from \in Nat
    BY <1>1, <1>3 DEF NoNode
  <2> HIDE DEF c, above, from
  <2>4. c[at[i]] \in NodeType
    BY <1>1, <2>1, <2>2, <2>3 DEF NodeType
  <2>5. /\ c[at[i]].kind = Body[f][i].kind /\ c[at[i]].fn = Body[f][i].fn
        /\ c[at[i]].parent = above /\ c[at[i]].from = from
    BY <2>1
  <2> QED BY <2>4, <2>5 DEF above, from
<1> HIDE DEF c
<1>5. ASSUME NEW i \in DOMAIN Body[f] PROVE Placed(c, at[i], {parent})
  <2> DEFINE b == Body[f][i]
  <2>1. /\ c[at[i]].kind = b.kind /\ c[at[i]].fn = b.fn
        /\ c[at[i]].parent = IF b.parent = 0 THEN parent ELSE at[b.parent]
        /\ c[at[i]].from = IF b.from = 0 THEN NoNode ELSE at[b.from]
    BY <1>4
  <2>2. ASSUME b.parent # 0
        PROVE  at[b.parent] \in DOMAIN c /\ c[at[b.parent]].kind \notin Consts
    <3>1. b.parent \in DOMAIN Body[f] /\ Body[f][b.parent].kind \notin Consts
      BY <1>1, <2>2
    <3> QED BY <1>2, <1>4, <3>1
  <2>3. ASSUME b.from # 0 PROVE at[b.from] \in DOMAIN c /\ c[at[b.from]].fn = b.fn
    <3>1. b.from \in DOMAIN Body[f] /\ Body[f][b.from].fn = b.fn
      BY <1>1, <2>3
    <3> QED BY <1>2, <1>4, <3>1
  <2>4. parent \notin DOMAIN c /\ NoNode \notin DOMAIN c
    BY <1>2, <1>3
  <2>5. c[at[i]] \in NodeType
    BY <1>4
  <2> HIDE DEF b
  <2>6. /\ c[at[i]].parent \in DOMAIN c \cup {parent}
        /\ c[at[i]].parent \in DOMAIN c => c[c[at[i]].parent].kind \notin Consts
    BY <2>1, <2>2, <2>4
  <2>7. /\ c[at[i]].from \in DOMAIN c \cup {NoNode}
        /\ c[at[i]].from \in DOMAIN c => c[c[at[i]].from].fn = c[at[i]].fn
    BY <2>1, <2>3, <2>4
  <2>8. c[at[i]].kind = "FunctionConst" => c[at[i]].fn \in Fns
    BY <1>1, <2>1 DEF b
  <2> QED BY <2>5, <2>6, <2>7, <2>8 DEF Placed
<1> QED BY <1>2, <1>5 DEF c

\* Indices for the FuncDefn of fn and its body that no node of the HUGR has.
Free(fn, at, last) ==
    /\ at \in [1 .. 1 + Len(Body[fn]) -> (Root .. last - 1) \ DOMAIN hugr]
    /\ \A i, j \in 1 .. 1 + Len(Body[fn]) : at[i] = at[j] => i = j

\* New nodes take the indices of removed nodes and unused ones.
LEMMA PlacesAreFree ==
  ASSUME NEW fn \in Fns, next \in Nat, next > Root, DOMAIN hugr \subseteq Root .. next - 1,
         NEW reused \in Reusable(hugr, 1 + Len(Body[fn]))
  PROVE  /\ next + (1 + Len(Body[fn])) - Len(reused) \in Nat
         /\ next <= next + (1 + Len(Body[fn])) - Len(reused)
         /\ Free(fn, [i \in 1 .. 1 + Len(Body[fn]) |-> Place(reused, i)],
                 next + (1 + Len(Body[fn])) - Len(reused))
<1>1. PICK k \in Nat : k = 1 + Len(Body[fn])
  BY BodyNodes
<1>2. PICK j \in 0 .. k : reused \in [1 .. j -> (Root .. next - 1) \ DOMAIN hugr]
  BY <1>1 DEF Reusable
<1>3. /\ DOMAIN reused = 1 .. j /\ Len(reused) = j
      /\ \A i \in 1 .. j : reused[i] \in (Root .. next - 1) \ DOMAIN hugr
      /\ \A i, l \in 1 .. j : reused[i] = reused[l] => i = l
  <2>1. reused \in Seq((Root .. next - 1) \ DOMAIN hugr) /\ Len(reused) = j
    BY <1>2
  <2> QED BY <1>1, <1>2, <2>1 DEF Reusable
<1> DEFINE at == [i \in 1 .. k |-> Place(reused, i)]
<1>4. ASSUME NEW i \in 1 .. k
      PROVE  at[i] = IF i \in 1 .. j THEN reused[i] ELSE next + i - j - 1
  BY <1>3 DEF Place
<1> HIDE DEF at
<1>5. ASSUME NEW i \in 1 .. k PROVE at[i] \in (Root .. next + k - j - 1) \ DOMAIN hugr
  <2>1. CASE i \in 1 .. j
    <3>1. at[i] = reused[i] /\ reused[i] \in Root .. next - 1 /\ reused[i] \notin DOMAIN hugr
      BY <1>3, <1>4, <2>1
    <3>2. next - 1 <= next + k - j - 1
      BY <1>2
    <3> QED BY <1>2, <3>1, <3>2 DEF Root
  <2>2. CASE i \notin 1 .. j
    <3>1. at[i] = next + i - j - 1 /\ i > j
      BY <1>2, <1>4, <2>2
    <3>2. at[i] \in Root .. next + k - j - 1 /\ ~(at[i] \in Root .. next - 1)
      BY <1>2, <3>1 DEF Root
    <3> QED BY <3>2
  <2> QED BY <2>1, <2>2
<1>6. ASSUME NEW i \in 1 .. k, NEW l \in 1 .. k, at[i] = at[l] PROVE i = l
  <2>1. ASSUME NEW x \in 1 .. k, x \in 1 .. j PROVE at[x] = reused[x] /\ at[x] < next
    <3>1. reused[x] \in Root .. next - 1
      BY <1>3, <2>1
    <3> QED BY <1>4, <2>1, <3>1 DEF Root
  <2>2. ASSUME NEW x \in 1 .. k, x \notin 1 .. j PROVE at[x] = next + x - j - 1 /\ at[x] >= next
    BY <1>2, <1>4, <2>2
  <2>3. CASE i \in 1 .. j /\ l \in 1 .. j
    BY <1>3, <1>6, <2>1, <2>3
  <2>4. CASE i \notin 1 .. j /\ l \notin 1 .. j
    BY <1>2, <1>6, <2>2, <2>4
  <2>5. CASE (i \in 1 .. j) # (l \in 1 .. j)
    <3>1. at[i] \in Int
      BY <1>5 DEF Root
    <3> QED BY <1>6, <2>1, <2>2, <2>5, <3>1
  <2> QED BY <2>3, <2>4, <2>5
<1>7. next + k - j \in Nat /\ next <= next + k - j /\ next + (1 + Len(Body[fn])) - Len(reused) = next + k - j
  <2>1. Len(Body[fn]) \in Nat
    BY BodyNodes
  <2>2. j \in Nat /\ j <= k
    BY <1>2
  <2>3. Len(reused) = j
    BY <1>3
  <2>4. ASSUME NEW len \in Nat, k = 1 + len
        PROVE  /\ next + k - j \in Nat /\ next <= next + k - j
               /\ next + (1 + len) - j = next + k - j
    BY <2>2, <2>4
  <2> QED BY <1>1, <2>1, <2>3, <2>4
<1>8. at \in [1 .. k -> (Root .. next + k - j - 1) \ DOMAIN hugr]
  BY <1>5 DEF at
<1>9. at = [i \in 1 .. 1 + Len(Body[fn]) |-> Place(reused, i)]
  BY <1>1 DEF at
<1>10. Free(fn, at, next + k - j)
  BY <1>1, <1>6, <1>8 DEF Free
<1> QED BY <1>7, <1>9, <1>10

\* The first of these is the FuncDefn's, the others are its body's.
LEMMA FreeIndices ==
  ASSUME NEW fn \in Fns, Root \in DOMAIN hugr, NEW at, NEW last, Free(fn, at, last)
  PROVE  /\ at[1] \in Nat /\ at[1] \notin {Root, NoNode}
         /\ Indices(fn, [i \in DOMAIN Body[fn] |-> at[i + 1]])
         /\ \A i \in DOMAIN Body[fn] : i + 1 \in 1 .. 1 + Len(Body[fn]) /\ at[i + 1] # at[1]
<1>1. /\ Len(Body[fn]) \in Nat /\ DOMAIN Body[fn] = 1 .. Len(Body[fn])
  BY BodyNodes
<1>2. ASSUME NEW i \in 1 .. 1 + Len(Body[fn]) PROVE at[i] \in Nat /\ at[i] \notin {Root, NoNode}
  BY DEF Free, Root, NoNode
<1>3. 1 \in 1 .. 1 + Len(Body[fn])
  BY <1>1
<1>4. \A i \in DOMAIN Body[fn] : i + 1 \in 1 .. 1 + Len(Body[fn]) /\ i + 1 # 1
  BY <1>1
<1>5. \A i, j \in DOMAIN Body[fn] : i + 1 = j + 1 => i = j
  BY <1>1
<1> QED BY <1>2, <1>3, <1>4, <1>5 DEF Free, Indices

\* add_node_with_parent and insert_hugr.
LEMMA NewPlaced ==
  ASSUME NEW fn \in Fns, Root \in DOMAIN hugr, NEW at, NEW last, Free(fn, at, last)
  PROVE  /\ DOMAIN FuncDefnNodes(fn, at) \subseteq (Root .. last - 1) \ DOMAIN hugr
         /\ \A n \in DOMAIN FuncDefnNodes(fn, at) :
              Placed(FuncDefnNodes(fn, at), n, {Root})
<1> DEFINE new == FuncDefnNodes(fn, at)
           below == [i \in DOMAIN Body[fn] |-> at[i + 1]]
           c == Copies(fn, at[1], below)
           defn == Node("FuncDefn", Root, fn, NoNode)
<1>0. /\ at[1] \in Nat /\ at[1] \notin {Root, NoNode}
      /\ Indices(fn, below)
      /\ \A i \in DOMAIN Body[fn] : i + 1 \in 1 .. 1 + Len(Body[fn]) /\ below[i] # at[1]
  BY FreeIndices
<1>1. /\ \A n \in DOMAIN c : \E i \in DOMAIN Body[fn] : n = below[i]
      /\ \A n \in DOMAIN c : Placed(c, n, {at[1]})
  <2> HIDE DEF below
  <2> QED BY <1>0, CopyDomain, CopiesPlaced
<1>2. DOMAIN new = {at[1]} \cup DOMAIN c
  BY DEF FuncDefnNodes, Merge
<1>3. DOMAIN new \subseteq (Root .. last - 1) \ DOMAIN hugr
  <2>1. Len(Body[fn]) \in Nat
    BY BodyNodes
  <2>2. 1 \in 1 .. 1 + Len(Body[fn])
    BY <2>1
  <2>3. ASSUME NEW n \in DOMAIN new PROVE \E i \in 1 .. 1 + Len(Body[fn]) : n = at[i]
    <3>1. CASE n = at[1]
      BY <2>2, <3>1
    <3>2. CASE n \in DOMAIN c
      <4> HIDE DEF c, new
      <4>1. PICK i \in DOMAIN Body[fn] : n = below[i]
        BY <1>1, <3>2
      <4> QED BY <1>0, <4>1
    <3> QED BY <1>2, <3>1, <3>2
  <2> HIDE DEF new
  <2> QED BY <2>3 DEF Free
<1>4. new[at[1]] = defn
  BY DEF FuncDefnNodes, Merge
<1>5. at[1] \notin DOMAIN c /\ NoNode \notin DOMAIN c /\ \A n \in DOMAIN c : new[n] = c[n]
  <2>1. at[1] \notin DOMAIN c /\ NoNode \notin DOMAIN c
    <3>1. NoNode \notin {below[i] : i \in DOMAIN Body[fn]}
      BY <1>0 DEF Indices
    <3> HIDE DEF c, below
    <3> QED BY <1>0, <1>1, <3>1
  <2> QED BY <2>1 DEF FuncDefnNodes, Merge
<1> HIDE DEF new, c, defn
<1>7. Placed(new, at[1], {Root})
  <2>1. Root \notin DOMAIN new /\ NoNode \notin DOMAIN new
    BY <1>3 DEF Root, NoNode
  <2>2. defn = [kind |-> "FuncDefn", parent |-> Root, fn |-> fn, from |-> NoNode]
    BY DEF defn, Node
  <2>3. "FuncDefn" \in Kind /\ "FuncDefn" # "FunctionConst"
    BY DEF Kind
  <2>4. defn \in NodeType
    BY <2>2, <2>3 DEF NodeType, Root, NoNode
  <2> QED BY <1>4, <2>1, <2>2, <2>3, <2>4 DEF Placed
<1>8. ASSUME NEW n \in DOMAIN c PROVE Placed(new, n, {Root})
  <2>1. Placed(c, n, {at[1]}) /\ new[n] = c[n]
    BY <1>1, <1>5, <1>8
  <2>2. new[at[1]].kind \notin Consts /\ NoNode # at[1]
    BY <1>0, <1>4 DEF defn, Node, Consts
  <2>4. new[n].parent \in DOMAIN new /\ new[new[n].parent].kind \notin Consts
    BY <1>2, <1>5, <2>1, <2>2 DEF Placed
  <2>5. /\ new[n].from \in DOMAIN new \cup {NoNode}
        /\ new[n].from \in DOMAIN new => new[new[n].from].fn = new[n].fn
    BY <1>2, <1>5, <2>1, <2>2 DEF Placed
  <2> QED BY <2>1, <2>4, <2>5 DEF Placed
<1> QED BY <1>2, <1>3, <1>7, <1>8 DEF new

\* Nodes whose indices were free, below the root of a module, leave it a module.
LEMMA MergedModule ==
  ASSUME NEW h, NEW g, NEW limit, NEW last \in Nat, IsModule(h, limit), limit <= last,
         DOMAIN g \subseteq (Root .. last - 1) \ DOMAIN h,
         \A n \in DOMAIN g : Placed(g, n, {Root})
  PROVE  /\ IsModule(Merge(h, g), last)
         /\ DOMAIN Merge(h, g) = DOMAIN h \cup DOMAIN g
         /\ \A n \in DOMAIN h : Merge(h, g)[n] = h[n]
         /\ \A n \in DOMAIN g : Merge(h, g)[n] = g[n]
<1> DEFINE m == Merge(h, g)
<1>1. /\ DOMAIN m = DOMAIN h \cup DOMAIN g
      /\ \A n \in DOMAIN h : m[n] = h[n]
  BY DEF Merge
<1>2. /\ DOMAIN h \cap DOMAIN g = {} /\ NoNode \notin DOMAIN h \cup DOMAIN g
      /\ Root \in DOMAIN h /\ DOMAIN m \subseteq Root .. last - 1
  BY <1>1 DEF IsModule, NoNode, Root
<1>3. \A n \in DOMAIN g : m[n] = g[n]
  BY <1>1, <1>2 DEF Merge
<1> HIDE DEF m
<1>4. ASSUME NEW n \in DOMAIN h PROVE Placed(m, n, Above(n))
  <2>1. Placed(h, n, Above(n)) /\ m[n] = h[n]
    BY <1>1 DEF IsModule
  <2>2. h[n].parent \in DOMAIN h \/ h[n].parent = NoNode
    BY <2>1 DEF Placed, Above
  <2> QED BY <1>1, <1>2, <2>1, <2>2 DEF Placed
<1>5. ASSUME NEW n \in DOMAIN g PROVE Placed(m, n, Above(n))
  <2>1. Placed(g, n, {Root}) /\ m[n] = g[n]
    BY <1>3
  <2>2. m[Root].kind \notin Consts /\ Root \in DOMAIN m
    BY <1>1, <1>2 DEF IsModule, Consts
  <2> QED BY <1>1, <1>2, <1>3, <2>1, <2>2 DEF Placed
<1>6. Root \in DOMAIN m /\ m[Root].kind = "Module"
  BY <1>1, <1>2 DEF IsModule
<1>7. IsModule(m, last)
  BY <1>1, <1>2, <1>4, <1>5, <1>6 DEF IsModule
<1> QED BY <1>1, <1>3, <1>7 DEF m

-----------------------------------------------------------------------------
(* What is rewritten.                                                      *)

\* The HUGR once the constant of entry e is gone and its loads are replaced: a
\* load was of the function's type, and keeps it.
Rewritten(h, e) ==
    /\ DOMAIN h = DOMAIN hugr \ {e.konst}
    /\ \A n \in DOMAIN h :
         /\ h[n] \in NodeType
         /\ h[n].kind = (IF n \in e.loads THEN "LoadFunction" ELSE hugr[n].kind)
         /\ h[n].parent = hugr[n].parent /\ h[n].fn = hugr[n].fn
         /\ h[n].from = (IF hugr[n].from = e.konst THEN NoNode ELSE hugr[n].from)
         /\ n \notin e.loads => h[n] = hugr[n]

LEMMA LoadsRewritten ==
  ASSUME IsModule(hugr, next), NEW e, Current(hugr, e)
  PROVE  Rewritten(RemoveNode(ReplaceLoads(hugr, e), e.konst), e)
<1> DEFINE r == ReplaceLoads(hugr, e)
           h == RemoveNode(r, e.konst)
<1>1. DOMAIN r = DOMAIN hugr /\ DOMAIN h = DOMAIN hugr \ {e.konst}
  BY DEF ReplaceLoads, RemoveNode
<1>2. ASSUME NEW n \in DOMAIN h
      PROVE  /\ h[n] \in NodeType
             /\ h[n].kind = (IF n \in e.loads THEN "LoadFunction" ELSE hugr[n].kind)
             /\ h[n].parent = hugr[n].parent /\ h[n].fn = hugr[n].fn
             /\ h[n].from = (IF hugr[n].from = e.konst THEN NoNode ELSE hugr[n].from)
             /\ n \notin e.loads => h[n] = hugr[n]
  <2>1. n \in DOMAIN hugr /\ hugr[n] \in NodeType
    BY <1>1 DEF IsModule, Placed
  <2>2. n \in e.loads <=> hugr[n].from = e.konst
    BY <2>1 DEF Current, OutputNeighbours
  <2>3. n \in e.loads => hugr[n].fn = e.fn
    BY <2>1, <2>2 DEF IsModule, Placed, Current
  <2>4. r[n] = IF n \in e.loads
               THEN [hugr[n] EXCEPT !.kind = "LoadFunction", !.fn = e.fn] ELSE hugr[n]
    BY <2>1 DEF ReplaceLoads
  <2>5. h[n] = [r[n] EXCEPT !.from = IF r[n].from = e.konst THEN NoNode ELSE r[n].from]
    BY <1>1 DEF RemoveNode
  <2> HIDE DEF r, h
  <2>6. CASE n \in e.loads
    <3>1. r[n] = [kind |-> "LoadFunction", parent |-> hugr[n].parent, fn |-> hugr[n].fn,
                  from |-> hugr[n].from]
      BY <2>1, <2>3, <2>4, <2>6 DEF NodeType
    <3>2. h[n] = [kind |-> "LoadFunction", parent |-> hugr[n].parent, fn |-> hugr[n].fn,
                  from |-> NoNode]
      BY <2>2, <2>5, <2>6, <3>1
    <3>3. "LoadFunction" \in Kind /\ NoNode \in Nat
      BY DEF Kind, Loads, NoNode
    <3>4. h[n] \in NodeType
      BY <2>1, <3>2, <3>3 DEF NodeType
    <3> QED BY <2>2, <2>6, <3>2, <3>4
  <2>7. CASE n \notin e.loads
    <3>1. r[n] = hugr[n]
      BY <2>4, <2>7
    <3>2. h[n] = hugr[n]
      BY <2>1, <2>2, <2>5, <2>7, <3>1 DEF NodeType
    <3> QED BY <2>1, <2>2, <2>7, <3>2
  <2> QED BY <2>6, <2>7
<1> QED BY <1>1, <1>2 DEF Rewritten

LEMMA UnusedRewritten ==
  ASSUME IsModule(hugr, next), NEW e, Current(hugr, e), e.loads = {}
  PROVE  Rewritten(RemoveNode(hugr, e.konst), e)
<1>1. ReplaceLoads(hugr, e) = [n \in DOMAIN hugr |-> hugr[n]]
  BY DEF ReplaceLoads
<1>2. RemoveNode(ReplaceLoads(hugr, e), e.konst) = RemoveNode(hugr, e.konst)
  BY <1>1 DEF RemoveNode
<1> QED BY <1>2, LoadsRewritten

LEMMA RewrittenModule ==
  ASSUME IsModule(hugr, next), NEW e, Current(hugr, e), NEW h, Rewritten(h, e)
  PROVE  IsModule(h, next)
<1>1. /\ e.konst \in DOMAIN hugr /\ hugr[e.konst].kind = "FunctionConst"
      /\ Root \in DOMAIN hugr /\ hugr[Root].kind = "Module"
      /\ \A n \in e.loads : hugr[n].kind = "LoadConstant"
  BY DEF IsModule, Current
<1>2. Root \in DOMAIN h /\ h[Root].kind = "Module"
  BY <1>1 DEF Rewritten
<1>3. NoNode \notin DOMAIN hugr
  BY DEF IsModule, NoNode, Root
<1>4. ASSUME NEW n \in DOMAIN h PROVE Placed(h, n, Above(n))
  <2>1. /\ n \in DOMAIN hugr /\ Placed(hugr, n, Above(n)) /\ h[n] \in NodeType
        /\ h[n].kind = (IF n \in e.loads THEN "LoadFunction" ELSE hugr[n].kind)
        /\ h[n].parent = hugr[n].parent /\ h[n].fn = hugr[n].fn
        /\ h[n].from = (IF hugr[n].from = e.konst THEN NoNode ELSE hugr[n].from)
    BY DEF Rewritten, IsModule
  <2>2. /\ h[n].parent \in DOMAIN h \cup Above(n)
        /\ h[n].parent \in DOMAIN h => h[h[n].parent].kind \notin Consts
    <3>1. h[n].parent \in DOMAIN hugr => hugr[h[n].parent].kind \notin Consts
      BY <2>1 DEF Placed
    <3>2. h[n].parent \in DOMAIN hugr => h[n].parent \in DOMAIN h
      BY <1>1, <3>1 DEF Rewritten, Consts
    <3>3. h[n].parent \in DOMAIN hugr \cup Above(n)
      BY <2>1 DEF Placed
    <3>4. h[n].parent \in DOMAIN h => h[h[n].parent].kind \notin Consts
      BY <3>1 DEF Rewritten, Consts
    <3> QED BY <3>2, <3>3, <3>4
  <2>3. /\ h[n].from \in DOMAIN h \cup {NoNode}
        /\ h[n].from \in DOMAIN h => h[h[n].from].fn = h[n].fn
    BY <1>3, <2>1 DEF Placed, Rewritten
  <2>4. h[n].kind = "FunctionConst" => h[n].fn \in Fns
    BY <2>1 DEF Placed
  <2> QED BY <2>1, <2>2, <2>3, <2>4 DEF Placed
<1> QED BY <1>2, <1>4 DEF IsModule, Rewritten

\* Two constants have no use in common, and none is a use of the other: what was
\* collected for the one outlives the other.
LEMMA RewrittenCurrent ==
  ASSUME IsModule(hugr, next), NEW e, Current(hugr, e), NEW h, Rewritten(h, e),
         NEW d, Current(hugr, d), d # e
  PROVE  Current(h, d)
<1>1. d.konst # e.konst
  BY DEF Current
<1>2. d.konst \notin e.loads /\ e.konst \notin d.loads
  BY DEF Current
<1>3. d.konst # NoNode
  BY DEF Current, IsModule, NoNode, Root
<1>4. d.konst \in DOMAIN h /\ h[d.konst] = hugr[d.konst]
  BY <1>1, <1>2 DEF Current, Rewritten
<1>5. ASSUME NEW n \in d.loads PROVE n \in DOMAIN h /\ n \notin e.loads
  <2>1. n \in DOMAIN hugr /\ hugr[n].from = d.konst
    BY DEF Current, OutputNeighbours
  <2>2. n \notin e.loads
    BY <1>1, <2>1 DEF Current, OutputNeighbours
  <2> QED BY <1>2, <2>1, <2>2 DEF Rewritten
<1>6. OutputNeighbours(h, d.konst) = d.loads
  <2>1. ASSUME NEW n \in DOMAIN h PROVE h[n].from = d.konst <=> hugr[n].from = d.konst
    BY <1>1, <1>3 DEF Rewritten
  <2>2. OutputNeighbours(h, d.konst) = {n \in DOMAIN h : hugr[n].from = d.konst}
    BY <2>1 DEF OutputNeighbours
  <2>3. d.loads = {n \in DOMAIN hugr : hugr[n].from = d.konst}
    BY DEF Current, OutputNeighbours
  <2> QED BY <1>5, <2>2, <2>3 DEF Rewritten
<1>7. ASSUME NEW n \in d.loads PROVE h[n].kind = "LoadConstant"
  BY <1>5 DEF Current, Rewritten
<1> QED BY <1>4, <1>6, <1>7 DEF Current

\* Nor do new nodes use it.
LEMMA MergedCurrent ==
  ASSUME NEW h, NEW g, NEW limit, IsModule(h, limit), NEW last \in Nat,
         DOMAIN g \subseteq (Root .. last - 1) \ DOMAIN h,
         \A n \in DOMAIN g : Placed(g, n, {Root}),
         NEW d, Current(h, d)
  PROVE  Current(Merge(h, g), d)
<1> DEFINE m == Merge(h, g)
<1>1. /\ DOMAIN m = DOMAIN h \cup DOMAIN g
      /\ \A n \in DOMAIN h : m[n] = h[n]
      /\ \A n \in DOMAIN g : n \notin DOMAIN h => m[n] = g[n]
  BY DEF Merge
<1>2. /\ DOMAIN h \cap DOMAIN g = {}
      /\ d.konst \in DOMAIN h /\ d.konst \notin DOMAIN g /\ d.konst # NoNode
  BY DEF IsModule, Current, NoNode, Root
<1>3. \A n \in DOMAIN g : g[n].from # d.konst
  BY <1>2 DEF Placed
<1>4. OutputNeighbours(m, d.konst) = OutputNeighbours(h, d.konst)
  BY <1>1, <1>2, <1>3 DEF OutputNeighbours
<1>5. d.loads \subseteq DOMAIN h
  BY DEF Current, OutputNeighbours
<1> HIDE DEF m
<1>6. Current(m, d)
  BY <1>1, <1>2, <1>4, <1>5 DEF Current
<1> QED BY <1>6 DEF m

-----------------------------------------------------------------------------
(* The steps.                                                              *)

LEMMA InitInv == Init => Inv
<1> SUFFICES ASSUME Init PROVE Inv
  OBVIOUS
<1>1. PICK f \in Mains :
        /\ hugr = Merge([n \in {Root} |-> Node("Module", NoNode, NoFn, NoNode)],
                        Copies(f, Root, [i \in DOMAIN Body[f] |-> Root + i]))
        /\ next = Root + 1 + Len(Body[f])
  BY DEF Init
<1> DEFINE h == [n \in {Root} |-> Node("Module", NoNode, NoFn, NoNode)]
           at == [i \in DOMAIN Body[f] |-> Root + i]
           g == Copies(f, Root, at)
<1>2. f \in Fns /\ Len(Body[f]) \in Nat /\ DOMAIN Body[f] = 1 .. Len(Body[f])
  BY BodyAssumption
<1>3. IsModule(h, 2)
  <2>1. h[Root] = [kind |-> "Module", parent |-> NoNode, fn |-> NoFn, from |-> NoNode]
    BY DEF Node
  <2>2. "Module" \in Kind /\ NoNode \in Nat
    BY DEF Kind, NoNode
  <2>3. h[Root] \in NodeType
    BY <2>1, <2>2 DEF NodeType
  <2>4. DOMAIN h = {Root} /\ NoNode \notin DOMAIN h
    BY DEF Root, NoNode
  <2> HIDE DEF h
  <2>5. Placed(h, Root, Above(Root))
    BY <2>1, <2>3, <2>4 DEF Placed, Above
  <2> QED BY <2>1, <2>4, <2>5 DEF IsModule, Root
<1>4. /\ \A n \in DOMAIN g : \E i \in DOMAIN Body[f] : n = at[i]
      /\ \A n \in DOMAIN g : Placed(g, n, {Root})
  <2>1. Root \in Nat /\ Indices(f, at) /\ \A i \in DOMAIN Body[f] : at[i] # Root
    BY <1>2 DEF Root, NoNode, Indices
  <2> HIDE DEF at
  <2> QED BY <1>2, <2>1, CopyDomain, CopiesPlaced
<1>5. next \in Nat /\ 2 <= next /\ DOMAIN g \subseteq (Root .. next - 1) \ DOMAIN h
  BY <1>1, <1>2, <1>4 DEF Root
<1> HIDE DEF g, h
<1>6. IsModule(Merge(h, g), next)
  BY <1>3, <1>4, <1>5, MergedModule
<1>7. IsModule(hugr, next)
  BY <1>1, <1>6 DEF g, h, at
<1> QED BY <1>7 DEF Init, Inv, NoneMissed

\* One constant of a pass: what it leaves of the HUGR, and what it adds.
RewrittenBy(e, g) ==
    /\ e \in const_funs /\ const_funs' = const_funs \ {e}
    /\ next' \in Nat /\ next <= next'
    /\ DOMAIN g \subseteq (Root .. next' - 1) \ DOMAIN hugr
    /\ \A n \in DOMAIN g : Placed(g, n, {Root})
    /\ hugr' = Merge(RemoveNode(ReplaceLoads(hugr, e), e.konst), g)

LEMMA UsedRewrites ==
  ASSUME Inv, RewriteUsed
  PROVE  \E at : /\ First(const_funs).fn \in Fns
                 /\ Free(First(const_funs).fn, at, next')
                 /\ RewrittenBy(First(const_funs), FuncDefnNodes(First(const_funs).fn, at))
<1> DEFINE e == First(const_funs)
<1>1. e \in const_funs /\ Current(hugr, e)
  BY FirstIsOne DEF Inv, RewriteUsed
<1>2. PICK reused \in Reusable(hugr, 1 + Len(Body[e.fn])) :
        /\ hugr' = Merge(RemoveNode(ReplaceLoads(hugr, e), e.konst),
                        FuncDefnNodes(e.fn, [i \in 1 .. 1 + Len(Body[e.fn]) |-> Place(reused, i)]))
        /\ next' = next + (1 + Len(Body[e.fn])) - Len(reused)
  BY DEF RewriteUsed
<1>3. const_funs' = const_funs \ {e}
  BY DEF RewriteUsed
<1> DEFINE at == [i \in 1 .. 1 + Len(Body[e.fn]) |-> Place(reused, i)]
           g == FuncDefnNodes(e.fn, at)
<1> HIDE DEF e
<1>4. e.fn \in Fns
  BY <1>1 DEF Inv, IsModule, Current, Placed
<1>5. next \in Nat /\ next > Root /\ DOMAIN hugr \subseteq Root .. next - 1 /\ Root \in DOMAIN hugr
  BY DEF Inv, IsModule, Root
<1>6. next' = next + (1 + Len(Body[e.fn])) - Len(reused)
  BY <1>2
<1>7. next' \in Nat /\ next <= next' /\ Free(e.fn, at, next')
  <2> HIDE DEF at
  <2> QED BY <1>4, <1>5, <1>6, PlacesAreFree DEF at
<1> HIDE DEF at
<1>8. /\ DOMAIN g \subseteq (Root .. next' - 1) \ DOMAIN hugr
      /\ \A n \in DOMAIN g : Placed(g, n, {Root})
  BY <1>4, <1>5, <1>7, NewPlaced
<1>9. RewrittenBy(e, g)
  BY <1>1, <1>2, <1>3, <1>7, <1>8 DEF RewrittenBy, at
<1> QED BY <1>4, <1>7, <1>9 DEF e

LEMMA NextInv == Inv /\ [Next]_vars => Inv'
<1> SUFFICES ASSUME Inv, [Next]_vars PROVE Inv'
  OBVIOUS
<1>0. /\ IsModule(hugr, next) /\ \A e \in const_funs : Current(hugr, e)
      /\ phase \in {"collect", "rewrite", "done", "failed"} /\ any_changes \in BOOLEAN
  BY DEF Inv
<1>1. CASE CollectFails
  BY <1>0, <1>1 DEF CollectFails, Inv, IsModule, Placed, Current, OutputNeighbours, NoneMissed
<1>2. CASE Collect
  <2>1. /\ phase' = "rewrite" /\ any_changes' = FALSE /\ hugr' = hugr /\ next' = next
        /\ const_funs' = {[konst |-> n, fn |-> hugr[n].fn, loads |-> OutputNeighbours(hugr, n)] :
                             n \in FunctionConsts(hugr)}
        /\ \A n \in FunctionConsts(hugr) : ~Unsupported(hugr, n)
    BY <1>2 DEF Collect
  <2>2. ASSUME NEW e \in const_funs' PROVE Current(hugr, e)
    <3>1. PICK n \in FunctionConsts(hugr) :
            e = [konst |-> n, fn |-> hugr[n].fn, loads |-> OutputNeighbours(hugr, n)]
      BY <2>1
    <3>2. \A m \in OutputNeighbours(hugr, n) : hugr[m].kind = "LoadConstant"
      BY <2>1 DEF Unsupported
    <3> QED BY <3>1, <3>2 DEF Current, FunctionConsts
  <2>3. ASSUME NEW n \in FunctionConsts(hugr) PROVE \E e \in const_funs' : e.konst = n
    <3> DEFINE e == [konst |-> n, fn |-> hugr[n].fn, loads |-> OutputNeighbours(hugr, n)]
    <3>1. e \in const_funs' /\ e.konst = n
      BY <2>1
    <3> HIDE DEF e
    <3> QED BY <3>1
  <2>4. \A e \in const_funs' : Current(hugr', e)
    BY <2>1, <2>2
  <2>5. NoneMissed'
    BY <2>1, <2>3 DEF NoneMissed
  <2> QED BY <1>0, <2>1, <2>4, <2>5 DEF Inv
<1>3. CASE RewriteUsed
  <2>0. PICK at : RewrittenBy(First(const_funs), FuncDefnNodes(First(const_funs).fn, at))
    BY <1>3, UsedRewrites
  <2> DEFINE e == First(const_funs)
             g == FuncDefnNodes(e.fn, at)
             h == RemoveNode(ReplaceLoads(hugr, e), e.konst)
  <2>1. /\ e \in const_funs /\ const_funs' = const_funs \ {e}
        /\ DOMAIN g \subseteq (Root .. next' - 1) \ DOMAIN hugr
        /\ next' \in Nat /\ next <= next'
        /\ hugr' = Merge(h, g)
        /\ \A n \in DOMAIN g : Placed(g, n, {Root})
    BY <2>0 DEF RewrittenBy
  <2>2. phase' = "rewrite" /\ any_changes' = TRUE
    BY <1>3 DEF RewriteUsed
  <2> HIDE DEF e, g
  <2>3. Rewritten(h, e) /\ Current(hugr, e)
    BY <1>0, <2>1, LoadsRewritten
  <2> HIDE DEF h
  <2>4. IsModule(h, next) /\ DOMAIN g \subseteq (Root .. next' - 1) \ DOMAIN h
    BY <1>0, <2>1, <2>3, RewrittenModule DEF Rewritten
  <2>5. IsModule(hugr', next')
    BY <2>1, <2>4, MergedModule
  <2>6. ASSUME NEW d \in const_funs' PROVE Current(hugr', d)
    <3>1. d # e /\ Current(hugr, d)
      BY <1>0, <2>1
    <3>2. Current(h, d)
      BY <1>0, <2>3, <3>1, RewrittenCurrent
    <3> QED BY <2>1, <2>4, <3>2, MergedCurrent
  <2> QED BY <2>2, <2>5, <2>6 DEF Inv, NoneMissed
<1>4. CASE RemoveUnused
  <2> DEFINE e == First(const_funs)
  <2>1. e \in const_funs /\ Current(hugr, e)
    BY <1>0, <1>4, FirstIsOne DEF RemoveUnused
  <2>2. /\ e.loads = {} /\ const_funs' = const_funs \ {e}
        /\ hugr' = RemoveNode(hugr, e.konst)
        /\ next' = next /\ phase' = phase /\ any_changes' = any_changes
        /\ phase = "rewrite"
    BY <1>4 DEF RemoveUnused
  <2> HIDE DEF e
  <2>3. Rewritten(hugr', e)
    BY <1>0, <2>1, <2>2, UnusedRewritten
  <2>4. IsModule(hugr', next')
    BY <1>0, <2>1, <2>2, <2>3, RewrittenModule
  <2>5. ASSUME NEW d \in const_funs' PROVE Current(hugr', d)
    BY <1>0, <2>1, <2>2, <2>3, RewrittenCurrent
  <2>6. ASSUME ~any_changes, NEW n \in FunctionConsts(hugr')
        PROVE  \E d \in const_funs' : d.konst = n
    <3>1. n \in FunctionConsts(hugr) /\ n # e.konst
      BY <2>2, <2>3, <2>6 DEF Rewritten, FunctionConsts
    <3>2. PICK d \in const_funs : d.konst = n
      BY <2>2, <2>6, <3>1 DEF Inv, NoneMissed
    <3> QED BY <2>2, <3>1, <3>2
  <2> QED BY <1>0, <2>2, <2>4, <2>5, <2>6 DEF Inv, NoneMissed
<1>5. CASE EndPass
  <2>1. /\ UNCHANGED <<hugr, next, const_funs, any_changes>>
        /\ phase = "rewrite" /\ const_funs = {}
        /\ phase' = IF any_changes THEN "collect" ELSE "done"
    BY <1>5 DEF EndPass
  <2>2. ~any_changes => FunctionConsts(hugr) = {}
    BY <2>1 DEF Inv, NoneMissed
  <2>3. NoneMissed'
    BY <2>1, <2>2 DEF NoneMissed
  <2> QED BY <1>0, <2>1, <2>3 DEF Inv
<1>6. CASE UNCHANGED vars
  BY <1>0, <1>6 DEF vars, Inv, NoneMissed
<1> QED BY <1>1, <1>2, <1>3, <1>4, <1>5, <1>6 DEF Next

-----------------------------------------------------------------------------
(* Loads and what they load.                                               *)

\* A copy's loads are linked inside it, and it has one root.
LEMMA CopiesServed ==
  ASSUME NEW f \in Fns, NEW parent \in Nat, NEW at, Indices(f, at),
         \A i \in DOMAIN Body[f] : at[i] # parent
  PROVE  /\ \A n \in DOMAIN Copies(f, parent, at) : LinkedIn(Copies(f, parent, at), n)
         /\ at[1] \in DOMAIN Copies(f, parent, at)
         /\ Copies(f, parent, at)[at[1]].kind = Body[f][1].kind
         /\ {n \in DOMAIN Copies(f, parent, at) :
               Copies(f, parent, at)[n].parent = parent} = {at[1]}
<1> DEFINE c == Copies(f, parent, at)
           B == Body[f]
<1>1. 1 \in DOMAIN B
  BY BodyNodes
<1>2. \A i \in DOMAIN B :
        /\ {B[i].parent, B[i].from} \subseteq DOMAIN B \cup {0}
        /\ B[i].parent = 0 <=> i = 1
        /\ B[i].kind = "LoadConstant" => B[i].from # 0 /\ B[B[i].from].kind \in Consts
        /\ B[i].kind = "LoadFunction" => B[i].from # 0 /\ B[B[i].from].kind = "FuncDefn"
  BY BodyAssumption
<1>3. /\ \A n \in DOMAIN c : \E i \in DOMAIN B : n = at[i]
      /\ \A i \in DOMAIN B : at[i] \in DOMAIN c
  BY CopyDomain
<1>4. ASSUME NEW i \in DOMAIN B
      PROVE  /\ at[i] \in DOMAIN c /\ c[at[i]].kind = B[i].kind
             /\ c[at[i]].parent = parent <=> i = 1
             /\ B[i].from # 0 => B[i].from \in DOMAIN B /\ c[at[i]].from = at[B[i].from]
  <2>1. c[at[i]] =
             [kind |-> B[i].kind,
              parent |-> IF B[i].parent = 0 THEN parent ELSE at[B[i].parent],
              fn |-> B[i].fn,
              from |-> IF B[i].from = 0 THEN NoNode ELSE at[B[i].from]]
    BY CopyOf
  <2> HIDE DEF c, B
  <2>2. B[i].parent # 0 => at[B[i].parent] # parent
    BY <1>2 DEF B
  <2> QED BY <1>2, <1>3, <2>1, <2>2
<1> HIDE DEF B, c
<1>7. ASSUME NEW i \in DOMAIN B PROVE LinkedIn(c, at[i])
  <2>1. c[at[i]].kind = B[i].kind
    BY <1>4
  <2>2. ASSUME B[i].from # 0
        PROVE  c[at[i]].from \in DOMAIN c /\ c[c[at[i]].from].kind = B[B[i].from].kind
    BY <1>4, <2>2
  <2>3. ASSUME B[i].kind = "LoadConstant"
        PROVE  c[at[i]].from \in DOMAIN c /\ c[c[at[i]].from].kind \in Consts
    BY <1>2, <2>2, <2>3
  <2>4. ASSUME B[i].kind = "LoadFunction"
        PROVE  c[at[i]].from \in DOMAIN c /\ c[c[at[i]].from].kind = "FuncDefn"
    BY <1>2, <2>2, <2>4
  <2> QED BY <2>1, <2>3, <2>4 DEF LinkedIn
<1>8. \A n \in DOMAIN c : LinkedIn(c, n)
  BY <1>3, <1>7
<1>9. at[1] \in DOMAIN c /\ c[at[1]].kind = B[1].kind
  BY <1>1, <1>4
<1>10. {n \in DOMAIN c : c[n].parent = parent} = {at[1]}
  <2>1. ASSUME NEW n \in DOMAIN c PROVE c[n].parent = parent <=> n = at[1]
    <3>1. PICK i \in DOMAIN B : n = at[i]
      BY <1>3
    <3>2. at[i] = at[1] <=> i = 1
      BY <1>1 DEF Indices, B
    <3> QED BY <1>4, <3>1, <3>2
  <2> QED BY <1>9, <2>1
<1> QED BY <1>8, <1>9, <1>10 DEF B, c

\* What is added for a constant: loads that are linked, and the definition of
\* the constant's function.
LEMMA NewServed ==
  ASSUME NEW fn \in Fns, Root \in DOMAIN hugr, NEW at, NEW last, Free(fn, at, last),
         Body[fn][1].kind # "FunctionConst"
  PROVE  /\ at[1] \in DOMAIN FuncDefnNodes(fn, at)
         /\ Defines(FuncDefnNodes(fn, at), at[1], fn)
         /\ \A n \in DOMAIN FuncDefnNodes(fn, at) : LinkedIn(FuncDefnNodes(fn, at), n)
<1> DEFINE g == FuncDefnNodes(fn, at)
           below == [i \in DOMAIN Body[fn] |-> at[i + 1]]
           c == Copies(fn, at[1], below)
<1>1. /\ at[1] \in Nat /\ at[1] \notin {Root, NoNode}
      /\ Indices(fn, below)
      /\ \A i \in DOMAIN Body[fn] : below[i] # at[1]
  BY FreeIndices
<1>2. /\ \A n \in DOMAIN c : LinkedIn(c, n)
      /\ below[1] \in DOMAIN c /\ c[below[1]].kind = Body[fn][1].kind
      /\ {n \in DOMAIN c : c[n].parent = at[1]} = {below[1]}
  <2> HIDE DEF below
  <2> QED BY <1>1, CopiesServed
<1>3. at[1] \notin DOMAIN c
  <2>1. \A n \in DOMAIN c : \E i \in DOMAIN Body[fn] : n = below[i]
    <3> HIDE DEF below
    <3> QED BY <1>1, CopyDomain
  <2> HIDE DEF c, below
  <2> QED BY <1>1, <2>1
<1>4. /\ DOMAIN g = {at[1]} \cup DOMAIN c
      /\ g[at[1]] = [kind |-> "FuncDefn", parent |-> Root, fn |-> fn, from |-> NoNode]
  BY DEF FuncDefnNodes, Merge, Node
<1>5. \A n \in DOMAIN c : g[n] = c[n]
  BY <1>3 DEF FuncDefnNodes, Merge
<1> HIDE DEF g, c, below
<1>6. {n \in DOMAIN g : g[n].parent = at[1]} = {below[1]}
  <2>1. g[at[1]].parent # at[1]
    BY <1>1, <1>4
  <2> QED BY <1>2, <1>4, <1>5, <2>1
<1>7. Defines(g, at[1], fn)
  <2>1. below[1] \in DOMAIN g /\ g[below[1]].kind # "FunctionConst"
    BY <1>2, <1>4, <1>5
  <2> QED BY <1>4, <1>6, <2>1 DEF Defines
<1>8. ASSUME NEW n \in DOMAIN g PROVE LinkedIn(g, n)
  <2>1. CASE n = at[1]
    BY <1>4, <2>1 DEF LinkedIn
  <2>2. CASE n \in DOMAIN c
    BY <1>2, <1>4, <1>5, <2>2 DEF LinkedIn
  <2> QED BY <1>4, <2>1, <2>2
<1> QED BY <1>4, <1>7, <1>8 DEF g

\* Rewriting a constant leaves the other loads served, by what served them.
LEMMA RewrittenServed ==
  ASSUME IsModule(hugr, next), NEW e, Current(hugr, e), NEW h, Rewritten(h, e),
         NEW n \in DOMAIN h, n \notin e.loads, Served(hugr, n)
  PROVE  Served(h, n)
<1>1. /\ n \in DOMAIN hugr /\ h[n] = hugr[n] /\ hugr[n].from # e.konst
      /\ e.konst \in DOMAIN hugr /\ hugr[e.konst].kind = "FunctionConst"
      /\ \A m \in e.loads : m \in DOMAIN hugr /\ hugr[m].kind = "LoadConstant"
  BY DEF Rewritten, Current, OutputNeighbours
<1>2. ASSUME NEW m \in DOMAIN hugr, hugr[m].kind # "LoadConstant", m # e.konst
      PROVE  m \in DOMAIN h /\ h[m] = hugr[m]
  BY <1>1, <1>2 DEF Rewritten
<1>3. CASE LinkedIn(hugr, n)
  <2>1. ASSUME h[n].kind = "LoadConstant"
        PROVE  h[n].from \in DOMAIN h /\ h[h[n].from].kind \in Consts
    <3>1. hugr[n].from \in DOMAIN hugr /\ hugr[hugr[n].from].kind \in Consts
      BY <1>1, <1>3, <2>1 DEF LinkedIn
    <3> QED BY <1>1, <1>2, <3>1 DEF Consts
  <2>2. ASSUME h[n].kind = "LoadFunction"
        PROVE  h[n].from \in DOMAIN h /\ h[h[n].from].kind = "FuncDefn"
    <3>1. hugr[n].from \in DOMAIN hugr /\ hugr[hugr[n].from].kind = "FuncDefn"
      BY <1>1, <1>3, <2>2 DEF LinkedIn
    <3> QED BY <1>1, <1>2, <3>1
  <2> QED BY <2>1, <2>2 DEF LinkedIn, Served
<1>4. ASSUME hugr[n].kind = "LoadFunction",
             NEW d \in DOMAIN hugr, Defines(hugr, d, hugr[n].fn)
      PROVE  Served(h, n)
  <2>1. d \in DOMAIN h /\ h[d] = hugr[d]
    BY <1>1, <1>2, <1>4 DEF Defines
  <2>2. PICK c \in DOMAIN hugr : /\ hugr[c].kind # "FunctionConst"
                                 /\ {m \in DOMAIN hugr : hugr[m].parent = d} = {c}
    BY <1>4 DEF Defines
  <2>3. c \in DOMAIN h /\ h[c].kind # "FunctionConst"
    BY <1>1, <2>2 DEF Rewritten
  <2>4. {m \in DOMAIN h : h[m].parent = d} = {c}
    <3>1. \A m \in DOMAIN h : m \in DOMAIN hugr /\ h[m].parent = hugr[m].parent
      BY DEF Rewritten
    <3> QED BY <2>2, <2>3, <3>1
  <2>5. Defines(h, d, h[n].fn)
    BY <1>1, <1>4, <2>1, <2>3, <2>4 DEF Defines
  <2> QED BY <1>1, <1>4, <2>1, <2>5 DEF Served
<1> QED BY <1>3, <1>4 DEF Served

\* A definition keeps its one child, whichever of the two HUGRs it comes from.
LEMMA MergedDefines ==
  ASSUME NEW h, NEW g, NEW limit, NEW last \in Nat, IsModule(h, limit),
         DOMAIN g \subseteq (Root .. last - 1) \ DOMAIN h,
         \A n \in DOMAIN g : Placed(g, n, {Root}),
         NEW fn, NEW d, \/ d \in DOMAIN h /\ Defines(h, d, fn)
                        \/ d \in DOMAIN g /\ Defines(g, d, fn)
  PROVE  d \in DOMAIN Merge(h, g) /\ Defines(Merge(h, g), d, fn)
<1> DEFINE m == Merge(h, g)
<1>1. /\ DOMAIN m = DOMAIN h \cup DOMAIN g
      /\ \A n \in DOMAIN h : m[n] = h[n]
  BY DEF Merge
<1>2. /\ DOMAIN h \cap DOMAIN g = {} /\ NoNode \notin DOMAIN g
      /\ Root \in DOMAIN h /\ h[Root].kind = "Module"
      /\ \A n \in DOMAIN h : h[n].parent \in DOMAIN h \cup {NoNode}
  <2>1. \A n \in DOMAIN h : h[n].parent \in DOMAIN h \cup {NoNode}
    BY DEF IsModule, Placed, Above
  <2> QED BY <2>1 DEF IsModule, NoNode, Root
<1>3. \A n \in DOMAIN g : m[n] = g[n] /\ g[n].parent \in DOMAIN g \cup {Root}
  BY <1>2 DEF Merge, Placed
<1> HIDE DEF m
<1>4. CASE d \in DOMAIN h /\ Defines(h, d, fn)
  <2>1. PICK c \in DOMAIN h : /\ h[c].kind # "FunctionConst"
                              /\ {n \in DOMAIN h : h[n].parent = d} = {c}
    BY <1>4 DEF Defines
  <2>2. d # Root /\ d \notin DOMAIN g
    BY <1>2, <1>4 DEF Defines
  <2>3. {n \in DOMAIN m : m[n].parent = d} = {c}
    BY <1>1, <1>3, <2>1, <2>2
  <2> QED BY <1>1, <1>4, <2>1, <2>3 DEF Defines, m
<1>5. CASE d \in DOMAIN g /\ Defines(g, d, fn)
  <2>1. PICK c \in DOMAIN g : /\ g[c].kind # "FunctionConst"
                              /\ {n \in DOMAIN g : g[n].parent = d} = {c}
    BY <1>5 DEF Defines
  <2>2. \A n \in DOMAIN h : m[n].parent # d
    BY <1>1, <1>2, <1>5
  <2>3. {n \in DOMAIN m : m[n].parent = d} = {c}
    BY <1>1, <1>3, <2>1, <2>2
  <2> QED BY <1>1, <1>3, <1>5, <2>1, <2>3 DEF Defines, m
<1> QED BY <1>4, <1>5

\* Both HUGRs' loads stay served when they are put together.
LEMMA MergedServed ==
  ASSUME NEW h, NEW g, NEW limit, NEW last \in Nat, IsModule(h, limit),
         DOMAIN g \subseteq (Root .. last - 1) \ DOMAIN h,
         \A n \in DOMAIN g : Placed(g, n, {Root}),
         NEW n, \/ n \in DOMAIN h /\ Served(h, n)
                \/ n \in DOMAIN g /\ LinkedIn(g, n)
  PROVE  Served(Merge(h, g), n)
<1> DEFINE m == Merge(h, g)
<1>1. /\ DOMAIN m = DOMAIN h \cup DOMAIN g
      /\ \A k \in DOMAIN h : m[k] = h[k]
  BY DEF Merge
<1>2. DOMAIN h \cap DOMAIN g = {}
  BY DEF IsModule
<1>3. \A k \in DOMAIN g : m[k] = g[k]
  BY <1>2 DEF Merge
<1>4. ASSUME n \in DOMAIN h, NEW d \in DOMAIN h, Defines(h, d, h[n].fn)
      PROVE  d \in DOMAIN m /\ Defines(m, d, m[n].fn)
  <2>1. m[n].fn = h[n].fn
    BY <1>1, <1>4
  <2> QED BY <1>4, <2>1, MergedDefines
<1> HIDE DEF m
<1>5. CASE n \in DOMAIN h /\ Served(h, n)
  <2>1. CASE LinkedIn(h, n)
    BY <1>1, <1>5, <2>1 DEF LinkedIn, Served, m
  <2>2. ASSUME h[n].kind = "LoadFunction", NEW d \in DOMAIN h, Defines(h, d, h[n].fn)
        PROVE  Served(m, n)
    BY <1>1, <1>4, <1>5, <2>2 DEF Served
  <2> QED BY <1>5, <2>1, <2>2 DEF Served, m
<1>6. CASE n \in DOMAIN g /\ LinkedIn(g, n)
  BY <1>1, <1>3, <1>6 DEF LinkedIn, Served, m
<1> QED BY <1>5, <1>6

LEMMA InitServed == Init => AllServed
<1> SUFFICES ASSUME Init PROVE AllServed
  OBVIOUS
<1> DEFINE h == [n \in {Root} |-> Node("Module", NoNode, NoFn, NoNode)]
<1>1. PICK f \in Mains :
        hugr = Merge(h, Copies(f, Root, [i \in DOMAIN Body[f] |-> Root + i]))
  BY DEF Init
<1> DEFINE at == [i \in DOMAIN Body[f] |-> Root + i]
           c == Copies(f, Root, at)
<1>2. /\ f \in Fns /\ Root \in Nat /\ Indices(f, at)
      /\ \A i \in DOMAIN Body[f] : at[i] # Root
  <2>1. Len(Body[f]) \in Nat /\ DOMAIN Body[f] = 1 .. Len(Body[f])
    BY BodyAssumption
  <2> QED BY <2>1, BodyAssumption DEF Root, NoNode, Indices
<1> HIDE DEF at
<1>3. \A n \in DOMAIN c : LinkedIn(c, n)
  BY <1>2, CopiesServed
<1>4. /\ DOMAIN hugr = {Root} \cup DOMAIN c
      /\ hugr[Root] = [kind |-> "Module", parent |-> NoNode, fn |-> NoFn, from |-> NoNode]
  BY <1>1 DEF Merge, Node, at
<1>5. Root \notin DOMAIN c
  BY <1>2, CopyDomain
<1>6. \A n \in DOMAIN c : hugr[n] = c[n]
  BY <1>1, <1>5 DEF Merge, at
<1> HIDE DEF c
<1>7. ASSUME NEW n \in DOMAIN hugr PROVE LinkedIn(hugr, n)
  <2>1. CASE n = Root
    BY <1>4, <2>1 DEF LinkedIn
  <2>2. CASE n \in DOMAIN c
    BY <1>3, <1>4, <1>6, <2>2 DEF LinkedIn
  <2> QED BY <1>4, <2>1, <2>2
<1> QED BY <1>7 DEF Init, AllServed, Served

LEMMA NextServed == Inv /\ AllServed /\ [Next]_vars => AllServed'
<1> SUFFICES ASSUME Inv, AllServed, [Next]_vars PROVE AllServed'
  OBVIOUS
<1>0. /\ IsModule(hugr, next) /\ \A e \in const_funs : Current(hugr, e)
      /\ \A n \in DOMAIN hugr : Served(hugr, n)
      /\ \A e \in const_funs : Body[e.fn][1].kind # "FunctionConst"
  BY DEF Inv, AllServed
<1>1. CASE CollectFails \/ EndPass \/ UNCHANGED vars
  <2>1. hugr' = hugr /\ const_funs' = const_funs
    BY <1>1 DEF CollectFails, EndPass, vars
  <2> QED BY <1>0, <2>1 DEF AllServed
<1>2. CASE Collect
  <2>1. /\ hugr' = hugr
        /\ const_funs' = {[konst |-> n, fn |-> hugr[n].fn, loads |-> OutputNeighbours(hugr, n)] :
                             n \in FunctionConsts(hugr)}
        /\ \A n \in FunctionConsts(hugr) : ~Unsupported(hugr, n)
    BY <1>2 DEF Collect
  <2>2. ASSUME NEW e \in const_funs' PROVE Body[e.fn][1].kind # "FunctionConst"
    <3>1. PICK n \in FunctionConsts(hugr) : e.fn = hugr[n].fn
      BY <2>1
    <3> QED BY <2>1, <3>1 DEF Unsupported
  <2> QED BY <1>0, <2>1, <2>2 DEF AllServed
<1>3. CASE RewriteUsed
  <2>0. PICK at : /\ First(const_funs).fn \in Fns
                  /\ Free(First(const_funs).fn, at, next')
                  /\ RewrittenBy(First(const_funs), FuncDefnNodes(First(const_funs).fn, at))
    BY <1>3, UsedRewrites
  <2> DEFINE e == First(const_funs)
             g == FuncDefnNodes(e.fn, at)
             h == RemoveNode(ReplaceLoads(hugr, e), e.konst)
  <2>1. /\ e \in const_funs /\ const_funs' = const_funs \ {e}
        /\ DOMAIN g \subseteq (Root .. next' - 1) \ DOMAIN hugr /\ next' \in Nat
        /\ hugr' = Merge(h, g)
        /\ \A n \in DOMAIN g : Placed(g, n, {Root})
    BY <2>0 DEF RewrittenBy
  <2>2. e.fn \in Fns /\ Free(e.fn, at, next') /\ Root \in DOMAIN hugr
    BY <1>0, <2>0 DEF IsModule
  <2> HIDE DEF e
  <2>3. /\ at[1] \in DOMAIN g /\ Defines(g, at[1], e.fn)
        /\ \A n \in DOMAIN g : LinkedIn(g, n)
    BY <1>0, <2>1, <2>2, NewServed
  <2> HIDE DEF g
  <2>4. Rewritten(h, e) /\ Current(hugr, e)
    BY <1>0, <2>1, LoadsRewritten
  <2> HIDE DEF h
  <2>5. IsModule(h, next) /\ DOMAIN g \subseteq (Root .. next' - 1) \ DOMAIN h
    BY <1>0, <2>1, <2>4, RewrittenModule DEF Rewritten
  <2>6. DOMAIN hugr' = DOMAIN h \cup DOMAIN g /\ \A n \in DOMAIN h : hugr'[n] = h[n]
    BY <2>1 DEF Merge
  <2>7. at[1] \in DOMAIN hugr' /\ Defines(hugr', at[1], e.fn)
    BY <2>1, <2>3, <2>5, MergedDefines
  <2>8. ASSUME NEW n \in DOMAIN h PROVE Served(hugr', n)
    <3>1. CASE n \in e.loads
      <4>1. h[n].kind = "LoadFunction" /\ h[n].fn = e.fn
        <5>1. n \in DOMAIN hugr /\ hugr[n].from = e.konst
          BY <2>4, <3>1 DEF Current, OutputNeighbours
        <5>2. hugr[n].fn = e.fn
          BY <1>0, <2>4, <5>1 DEF IsModule, Placed, Current
        <5> QED BY <2>4, <3>1, <5>2 DEF Rewritten
      <4> QED BY <2>6, <2>7, <4>1 DEF Served
    <3>2. CASE n \notin e.loads
      <4>1. n \in DOMAIN hugr
        BY <2>4 DEF Rewritten
      <4>2. Served(h, n)
        BY <1>0, <2>4, <3>2, <4>1, RewrittenServed
      <4> QED BY <2>1, <2>5, <4>2, MergedServed
    <3> QED BY <3>1, <3>2
  <2>9. ASSUME NEW n \in DOMAIN g PROVE Served(hugr', n)
    BY <2>1, <2>3, <2>5, MergedServed
  <2> QED BY <1>0, <2>1, <2>6, <2>8, <2>9 DEF AllServed
<1>4. CASE RemoveUnused
  <2> DEFINE e == First(const_funs)
  <2>1. e \in const_funs /\ Current(hugr, e)
    BY <1>0, <1>4, FirstIsOne DEF RemoveUnused
  <2>2. /\ e.loads = {} /\ const_funs' = const_funs \ {e}
        /\ hugr' = RemoveNode(hugr, e.konst)
    BY <1>4 DEF RemoveUnused
  <2> HIDE DEF e
  <2>3. Rewritten(hugr', e)
    BY <1>0, <2>1, <2>2, UnusedRewritten
  <2>4. ASSUME NEW n \in DOMAIN hugr' PROVE Served(hugr', n)
    <3>1. n \in DOMAIN hugr /\ n \notin e.loads
      BY <2>2, <2>3 DEF Rewritten
    <3> QED BY <1>0, <2>1, <2>3, <3>1, RewrittenServed
  <2> QED BY <1>0, <2>2, <2>4 DEF AllServed
<1> QED BY <1>1, <1>2, <1>3, <1>4 DEF Next

-----------------------------------------------------------------------------
(* The results.                                                            *)

\* What Spec starts with and every step keeps.
THEOREM InlineInv == Spec => []Inv
BY InitInv, NextInv, PTL DEF Spec

\* The HUGR stays a tree with static edges between its nodes, and what a pass
\* remembers are nodes of it, though others have been removed meanwhile.
THEOREM InlineTypesCorrect == Spec => []TypeOK
<1>1. Inv => TypeOK
  <2> SUFFICES ASSUME Inv PROVE TypeOK
    OBVIOUS
  <2>1. ASSUME NEW n \in DOMAIN hugr
        PROVE  /\ hugr[n].parent \in DOMAIN hugr \cup {NoNode}
               /\ hugr[n].parent = NoNode => n = Root
               /\ hugr[n].from \in DOMAIN hugr \cup {NoNode}
    BY DEF Inv, IsModule, Placed, Above, NoNode, Root
  <2>2. \A e \in const_funs : e.loads \cup {e.konst} \subseteq DOMAIN hugr
    BY DEF Inv, Current, OutputNeighbours
  <2> QED BY <2>1, <2>2 DEF Inv, IsModule, TypeOK
<1> QED BY <1>1, InlineInv, PTL

\* Whatever constants a HUGR holds: the uses collected at the start of a pass
\* are those a constant has when its turn comes, and the indices they were
\* collected under are still theirs, though new nodes take those of removed ones.
THEOREM UsesStayCurrent == Spec => []CollectedUsesAreCurrent
<1>1. Inv => CollectedUsesAreCurrent
  BY DEF Inv, Current, CollectedUsesAreCurrent
<1> QED BY <1>1, InlineInv, PTL

\* A call that returns Ok leaves no constant whose value is a function, in what it
\* was given or has inserted: a pass that has changed nothing has met all there
\* are, and has removed them.  Sums with functions in them are not among these.
THEOREM NoneLeft == Spec => []NoConstFunctionsLeft
<1>1. Inv => NoConstFunctionsLeft
  BY DEF Inv, NoneMissed, NoConstFunctionsLeft
<1> QED BY <1>1, InlineInv, PTL

\* No step removes anything but constants, or changes anything but loads, and
\* a load goes on loading the same function.
THEOREM NothingElseChanges == Spec => OnlyConstantsAndLoadsChange
<1> DEFINE Kept == \A n \in DOMAIN hugr :
             /\ n \in DOMAIN hugr' => /\ hugr'[n].fn = hugr[n].fn
                                      /\ hugr'[n].parent = hugr[n].parent
                                      /\ hugr'[n] # hugr[n] => hugr[n].kind = "LoadConstant"
             /\ n \notin DOMAIN hugr' => hugr[n].kind = "FunctionConst"
<1>1. ASSUME Inv, [Next]_vars PROVE Kept \/ UNCHANGED vars
  <2>0. IsModule(hugr, next) /\ \A e \in const_funs : Current(hugr, e)
    BY <1>1 DEF Inv
  <2>1. ASSUME NEW e, Current(hugr, e), NEW h, Rewritten(h, e),
               DOMAIN h \subseteq DOMAIN hugr',
               \A n \in DOMAIN h : hugr'[n] = h[n],
               e.konst \notin DOMAIN hugr'
        PROVE  Kept
    BY <2>1 DEF Current, Rewritten
  <2>2. CASE RewriteUsed
    <3>0. PICK at : RewrittenBy(First(const_funs), FuncDefnNodes(First(const_funs).fn, at))
      BY <1>1, <2>2, UsedRewrites
    <3> DEFINE e == First(const_funs)
               g == FuncDefnNodes(e.fn, at)
               h == RemoveNode(ReplaceLoads(hugr, e), e.konst)
    <3>1. /\ e \in const_funs /\ hugr' = Merge(h, g)
          /\ DOMAIN g \subseteq (Root .. next' - 1) \ DOMAIN hugr
      BY <3>0 DEF RewrittenBy
    <3> HIDE DEF e, g
    <3>2. Rewritten(h, e) /\ Current(hugr, e)
      BY <2>0, <3>1, LoadsRewritten
    <3> HIDE DEF h
    <3>3. e.konst \notin DOMAIN h /\ e.konst \notin DOMAIN g
      BY <2>0, <3>1, <3>2 DEF Rewritten, Current
    <3>4. /\ DOMAIN hugr' = DOMAIN h \cup DOMAIN g
          /\ \A n \in DOMAIN h : hugr'[n] = h[n]
      BY <3>1 DEF Merge
    <3> QED BY <2>1, <3>2, <3>3, <3>4
  <2>3. CASE RemoveUnused
    <3> DEFINE e == First(const_funs)
    <3>1. e \in const_funs /\ Current(hugr, e)
      BY <2>0, <2>3, FirstIsOne DEF RemoveUnused
    <3>2. e.loads = {} /\ hugr' = RemoveNode(hugr, e.konst)
      BY <2>3 DEF RemoveUnused
    <3> HIDE DEF e
    <3>3. Rewritten(hugr', e)
      BY <2>0, <3>1, <3>2, UnusedRewritten
    <3>4. e.konst \notin DOMAIN hugr'
      BY <3>3 DEF Rewritten
    <3> QED BY <2>1, <3>1, <3>3, <3>4
  <2>4. CASE CollectFails \/ Collect \/ EndPass
    BY <2>4 DEF CollectFails, Collect, EndPass
  <2> QED BY <1>1, <2>2, <2>3, <2>4 DEF Next
<1>2. ASSUME Inv, [Next]_vars PROVE [Kept]_vars
  BY <1>1, <1>2
<1> HIDE DEF Kept
<1>3. Inv /\ [Next]_vars => [Kept]_vars
  BY <1>2
<1>4. Spec => [][Kept]_vars
  BY <1>3, InlineInv, PTL DEF Spec
<1> QED BY <1>4 DEF OnlyConstantsAndLoadsChange, Kept

\* After Ok a load loads a sum or is a LoadFunction: one of the original HUGRs is
\* linked to its FuncDefn as before, and for each of the others the module has a
\* FuncDefn of its function with one body, whatever has been rewritten since.
THEOREM LoadsHaveFunctions == Spec => []EveryLoadHasItsFunction
<1>1. Inv /\ AllServed => EveryLoadHasItsFunction
  <2> SUFFICES ASSUME Inv, AllServed, phase = "done", NEW n \in DOMAIN hugr
               PROVE  /\ hugr[n].kind = "LoadConstant" =>
                           hugr[n].from \in DOMAIN hugr /\ hugr[hugr[n].from].kind = "SumConst"
                      /\ hugr[n].kind = "LoadFunction" =>
                         \/ hugr[n].from \in DOMAIN hugr /\ hugr[hugr[n].from].kind = "FuncDefn"
                         \/ \E d \in DOMAIN hugr :
                              /\ hugr[d].kind = "FuncDefn" /\ hugr[d].parent = Root
                              /\ hugr[d].fn = hugr[n].fn
                              /\ Cardinality({m \in DOMAIN hugr : hugr[m].parent = d}) = 1
    BY DEF EveryLoadHasItsFunction
  <2>1. FunctionConsts(hugr) = {} /\ Served(hugr, n)
    BY DEF Inv, NoneMissed, AllServed
  <2>2. CASE LinkedIn(hugr, n)
    BY <2>1, <2>2 DEF LinkedIn, FunctionConsts, Consts
  <2>3. ASSUME hugr[n].kind = "LoadFunction", NEW d \in DOMAIN hugr, Defines(hugr, d, hugr[n].fn)
        PROVE  /\ hugr[d].kind = "FuncDefn" /\ hugr[d].parent = Root
               /\ hugr[d].fn = hugr[n].fn
               /\ Cardinality({m \in DOMAIN hugr : hugr[m].parent = d}) = 1
    <3>1. PICK c : {m \in DOMAIN hugr : hugr[m].parent = d} = {c}
      BY <2>3 DEF Defines
    <3>2. Cardinality({c}) = 1
      BY FS_Singleton
    <3> QED BY <2>3, <3>1, <3>2 DEF Defines
  <2> QED BY <2>1, <2>2, <2>3 DEF Served
<1>2. Spec => []AllServed
  BY InitServed, NextServed, InlineInv, PTL DEF Spec
<1> QED BY <1>1, <1>2, InlineInv, PTL
=============================================================================
