------------------------ MODULE IncludeDigraph_proofs ------------------------
(***************************************************************************)
(* Facts about work lists, reachability, searches and sums for the proofs. *)
(***************************************************************************)
EXTENDS Integers, IncludeDigraph, FiniteSetTheorems, WellFoundedInduction, TLAPS

(***************************************************************************)
(* Lemmas about queues and stacks: what is in one after its front or its   *)
(* back is popped, and after a sequence is inserted behind it.             *)
(***************************************************************************)
LEMMA HeadInSeq ==
  ASSUME NEW S, NEW q \in Seq(S), q # <<>>
  PROVE  /\ Head(q) \in S /\ Tail(q) \in Seq(S)
         /\ ToSet(q) = {Head(q)} \cup ToSet(Tail(q))
<1>1. Len(q) \in Nat /\ Len(q) > 0 /\ DOMAIN q = 1..Len(q) /\ Head(q) = q[1]
  OBVIOUS
<1>2. /\ DOMAIN Tail(q) = 1..(Len(q) - 1)
      /\ \A i \in 1..(Len(q) - 1) : Tail(q)[i] = q[i + 1]
  BY <1>1
<1>3. ASSUME NEW x \in ToSet(q) PROVE x \in {Head(q)} \cup ToSet(Tail(q))
  <2>1. PICK i \in 1..Len(q) : x = q[i]
    BY <1>1, <1>3 DEF ToSet
  <2>2. CASE i = 1
    BY <1>1, <2>1, <2>2
  <2>3. CASE i # 1
    <3>1. i - 1 \in 1..(Len(q) - 1) /\ Tail(q)[i - 1] = x
      BY <1>1, <1>2, <2>1, <2>3
    <3> QED BY <3>1, <1>2 DEF ToSet
  <2> QED BY <2>2, <2>3
<1>4. ASSUME NEW x \in ToSet(Tail(q)) PROVE x \in ToSet(q)
  <2>1. PICK i \in 1..(Len(q) - 1) : x = q[i + 1]
    BY <1>2, <1>4 DEF ToSet
  <2>2. i + 1 \in 1..Len(q)
    BY <1>1
  <2> QED BY <2>1, <2>2, <1>1 DEF ToSet
<1>5. Head(q) \in ToSet(q)
  BY <1>1 DEF ToSet
<1>6. Head(q) \in S /\ Tail(q) \in Seq(S)
  OBVIOUS
<1> QED BY <1>3, <1>4, <1>5, <1>6

LEMMA LastInSeq ==
  ASSUME NEW S, NEW q \in Seq(S), q # <<>>
  PROVE  /\ Last(q) \in S /\ Front(q) \in Seq(S)
         /\ ToSet(q) = {Last(q)} \cup ToSet(Front(q))
<1>1. Len(q) \in Nat /\ Len(q) > 0 /\ DOMAIN q = 1..Len(q)
  OBVIOUS
<1>2. /\ Front(q) \in Seq(S) /\ DOMAIN Front(q) = 1..(Len(q) - 1)
      /\ \A i \in 1..(Len(q) - 1) : Front(q)[i] = q[i]
  BY <1>1 DEF Front
<1>3. Last(q) = q[Len(q)] /\ Last(q) \in S
  BY <1>1 DEF Last
<1>4. ASSUME NEW x \in ToSet(q) PROVE x \in {Last(q)} \cup ToSet(Front(q))
  <2>1. PICK i \in 1..Len(q) : x = q[i]
    BY <1>1, <1>4 DEF ToSet
  <2>2. CASE i = Len(q)
    BY <1>3, <2>1, <2>2
  <2>3. CASE i # Len(q)
    <3>1. i \in 1..(Len(q) - 1)
      <4>1. \A n \in Nat : \A j \in 1..n : j # n => j \in 1..(n - 1)
        OBVIOUS
      <4> QED BY <4>1, <1>1, <2>1, <2>3
    <3>2. i \in DOMAIN Front(q) /\ Front(q)[i] = x
      BY <1>2, <2>1, <3>1
    <3> QED BY <3>2 DEF ToSet
  <2> QED BY <2>2, <2>3
<1>5. ASSUME NEW x \in ToSet(Front(q)) PROVE x \in ToSet(q)
  <2>1. PICK i \in 1..(Len(q) - 1) : x = q[i]
    BY <1>2, <1>5 DEF ToSet
  <2>2. i \in DOMAIN q
    BY <1>1, <2>1
  <2> QED BY <2>1, <2>2 DEF ToSet
<1>6. Last(q) \in ToSet(q)
  <2>1. Len(q) \in DOMAIN q
    BY <1>1
  <2> QED BY <2>1, <1>3 DEF ToSet
<1> QED BY <1>2, <1>3, <1>4, <1>5, <1>6

LEMMA ConcatInSeq ==
  ASSUME NEW S, NEW q \in Seq(S), NEW r \in Seq(S)
  PROVE  q \o r \in Seq(S) /\ ToSet(q \o r) = ToSet(q) \cup ToSet(r)
<1>1. /\ Len(q) \in Nat /\ DOMAIN q = 1..Len(q)
      /\ Len(r) \in Nat /\ DOMAIN r = 1..Len(r)
      /\ DOMAIN (q \o r) = 1..(Len(q) + Len(r))
  OBVIOUS
<1>2. /\ \A i \in 1..Len(q) : (q \o r)[i] = q[i]
      /\ \A i \in 1..Len(r) : (q \o r)[Len(q) + i] = r[i]
  BY <1>1
<1>3. ASSUME NEW x \in ToSet(q \o r) PROVE x \in ToSet(q) \cup ToSet(r)
  <2>1. PICK i \in 1..(Len(q) + Len(r)) : x = (q \o r)[i]
    BY <1>1, <1>3 DEF ToSet
  <2>2. CASE i <= Len(q)
    BY <1>1, <1>2, <2>1, <2>2 DEF ToSet
  <2>3. CASE i > Len(q)
    <3>1. i - Len(q) \in 1..Len(r) /\ i = Len(q) + (i - Len(q))
      BY <1>1, <2>3
    <3>2. x = r[i - Len(q)]
      BY <3>1, <1>2, <2>1
    <3> QED BY <3>1, <3>2, <1>1 DEF ToSet
  <2> QED BY <2>2, <2>3, <1>1
<1>4. ASSUME NEW x \in ToSet(q) PROVE x \in ToSet(q \o r)
  <2>1. PICK i \in 1..Len(q) : x = q[i]
    BY <1>1, <1>4 DEF ToSet
  <2>2. i \in 1..(Len(q) + Len(r))
    BY <1>1
  <2> QED BY <2>1, <2>2, <1>1, <1>2 DEF ToSet
<1>5. ASSUME NEW x \in ToSet(r) PROVE x \in ToSet(q \o r)
  <2>1. PICK i \in 1..Len(r) : x = r[i]
    BY <1>1, <1>5 DEF ToSet
  <2>2. Len(q) + i \in 1..(Len(q) + Len(r))
    BY <1>1
  <2> QED BY <2>1, <2>2, <1>1, <1>2 DEF ToSet
<1>6. q \o r \in Seq(S)
  OBVIOUS
<1> QED BY <1>3, <1>4, <1>5, <1>6

LEMMA RemoveFromSeq ==
  ASSUME NEW S, NEW q \in Seq(S), NEW k \in DOMAIN q
  PROVE  LET r == SubSeq(q, 1, k - 1) \o SubSeq(q, k + 1, Len(q)) IN
         r \in Seq(S) /\ ToSet(q) = ToSet(r) \cup {q[k]}
<1> DEFINE front == SubSeq(q, 1, k - 1)
           back == SubSeq(q, k + 1, Len(q))
<1>1. Len(q) \in Nat /\ DOMAIN q = 1..Len(q) /\ k \in 1..Len(q) /\ q[k] \in S
  OBVIOUS
<1>2. /\ front \in Seq(S) /\ DOMAIN front = 1..(k - 1)
      /\ \A i \in 1..(k - 1) : front[i] = q[i]
  BY <1>1
<1>3. /\ back \in Seq(S) /\ DOMAIN back = 1..(Len(q) - k)
      /\ \A i \in 1..(Len(q) - k) : back[i] = q[k + i]
  BY <1>1
<1> HIDE DEF front, back
<1>4. front \o back \in Seq(S) /\ ToSet(front \o back) = ToSet(front) \cup ToSet(back)
  BY <1>2, <1>3, ConcatInSeq
<1>5. ASSUME NEW x \in ToSet(q) PROVE x \in ToSet(front) \cup ToSet(back) \cup {q[k]}
  <2>1. PICK i \in 1..Len(q) : x = q[i]
    BY <1>1, <1>5 DEF ToSet
  <2>2. CASE i < k
    <3>1. i \in 1..(k - 1)
      BY <1>1, <2>2
    <3> QED BY <2>1, <3>1, <1>2 DEF ToSet
  <2>3. CASE i > k
    <3>1. i - k \in 1..(Len(q) - k) /\ k + (i - k) = i
      BY <1>1, <2>3
    <3>2. x = back[i - k]
      BY <2>1, <3>1, <1>3
    <3> QED BY <3>1, <3>2, <1>3 DEF ToSet
  <2> QED BY <1>1, <2>1, <2>2, <2>3
<1>6. ASSUME NEW x \in ToSet(front) PROVE x \in ToSet(q)
  <2>1. PICK i \in 1..(k - 1) : x = q[i]
    BY <1>2, <1>6 DEF ToSet
  <2>2. i \in DOMAIN q
    BY <1>1
  <2> QED BY <2>1, <2>2 DEF ToSet
<1>7. ASSUME NEW x \in ToSet(back) PROVE x \in ToSet(q)
  <2>1. PICK i \in 1..(Len(q) - k) : x = q[k + i]
    BY <1>3, <1>7 DEF ToSet
  <2>2. k + i \in DOMAIN q
    BY <1>1
  <2> QED BY <2>1, <2>2 DEF ToSet
<1>8. q[k] \in ToSet(q)
  BY DEF ToSet
<1> QED BY <1>4, <1>5, <1>6, <1>7, <1>8 DEF front, back

LEMMA SingletonQueue ==
  ASSUME NEW x
  PROVE  ToSet(<<x>>) = {x} /\ ToSet(<<>>) = {}
BY DEF ToSet

LEMMA ToSetInSeq ==
  ASSUME NEW S, NEW q \in Seq(S)
  PROVE  ToSet(q) \subseteq S
BY DEF ToSet

(***************************************************************************)
(* Lemmas about Reachable: a vertex reaches itself and the successors of   *)
(* what it reaches, and nothing outside a closed set that contains it.     *)
(***************************************************************************)
LEMMA ReachesItself ==
  ASSUME NEW g \in AdjacencyList, NEW v \in Vertex
  PROVE  v \in Reachable(g, v)
BY DEF Reachable

LEMMA ReachesSuccessors ==
  ASSUME NEW g \in AdjacencyList, NEW v \in Vertex, NEW u \in Reachable(g, v)
  PROVE  ToSet(g[u]) \subseteq Reachable(g, v)
<1>1. u \in Vertex /\ g[u] \in Seq(Vertex)
  BY DEF Reachable, AdjacencyList
<1>2. SUFFICES ASSUME NEW x \in ToSet(g[u]), NEW S \in SUBSET Vertex,
                      v \in S, Closed(g, S)
               PROVE  x \in S
  BY <1>1, ToSetInSeq DEF Reachable
<1>3. u \in S
  BY <1>2 DEF Reachable
<1> QED BY <1>2, <1>3 DEF Closed

LEMMA ReachesOnlyClosed ==
  ASSUME NEW g, NEW v, NEW S \in SUBSET Vertex, v \in S, Closed(g, S)
  PROVE  Reachable(g, v) \subseteq S
BY DEF Reachable

(***************************************************************************)
(* Without one edge, from v to w: what s reaches anyway, with the edge and *)
(* without it, and what it reaches by the edge.                            *)
(***************************************************************************)
LEMMA EdgeRemoved ==
  ASSUME NEW g \in AdjacencyList, NEW h \in AdjacencyList,
         NEW v \in Vertex, NEW w \in Vertex, NEW s \in Vertex,
         \A u \in Vertex \ {v} : ToSet(h[u]) = ToSet(g[u]),
         ToSet(g[v]) = ToSet(h[v]) \cup {w}
  PROVE  /\ Reachable(h, s) \subseteq Reachable(g, s)
         /\ v \notin Reachable(g, s) => Reachable(g, s) = Reachable(h, s)
         /\ v \in Reachable(g, s) => v \in Reachable(h, s)
         /\ w \in Reachable(h, s) => Reachable(g, s) = Reachable(h, s)
         /\ v \in Reachable(g, s) =>
              Reachable(g, s) = Reachable(h, s) \cup Reachable(g, w)
<1> DEFINE G == Reachable(g, s)
           H == Reachable(h, s)
           W == Reachable(g, w)
<1>1. /\ G \in SUBSET Vertex /\ s \in G /\ \A u \in G : ToSet(g[u]) \subseteq G
      /\ H \in SUBSET Vertex /\ s \in H /\ \A u \in H : ToSet(h[u]) \subseteq H
      /\ W \in SUBSET Vertex /\ w \in W /\ \A u \in W : ToSet(g[u]) \subseteq W
  <2>1. G \in SUBSET Vertex /\ H \in SUBSET Vertex /\ W \in SUBSET Vertex
    BY DEF Reachable
  <2> QED BY <2>1, ReachesItself, ReachesSuccessors
<1>2. /\ \A S \in SUBSET Vertex : s \in S /\ (\A u \in S : ToSet(g[u]) \subseteq S) => G \subseteq S
      /\ \A S \in SUBSET Vertex : s \in S /\ (\A u \in S : ToSet(h[u]) \subseteq S) => H \subseteq S
      /\ \A S \in SUBSET Vertex : w \in S /\ (\A u \in S : ToSet(g[u]) \subseteq S) => W \subseteq S
  BY ReachesOnlyClosed DEF Closed
<1> HIDE DEF G, H, W
<1>3. \A u \in Vertex : ToSet(h[u]) \subseteq ToSet(g[u])
  OBVIOUS
<1>4. H \subseteq G
  BY <1>1, <1>2, <1>3
<1>5. ASSUME v \notin H \/ w \in H PROVE G = H
  <2>1. \A u \in H : ToSet(g[u]) \subseteq H
    BY <1>1, <1>5
  <2> QED BY <1>1, <1>2, <1>4, <2>1
<1>6. ASSUME v \in G PROVE G = H \cup W
  <2>1. \A u \in H \cup W : ToSet(g[u]) \subseteq H \cup W
    BY <1>1
  <2>2. G \subseteq H \cup W
    BY <1>1, <1>2, <2>1
  <2>3. w \in G
    BY <1>1, <1>6
  <2>4. W \subseteq G
    BY <1>1, <1>2, <2>3
  <2> QED BY <1>4, <2>2, <2>4
<1> QED BY <1>4, <1>5, <1>6 DEF G, H, W

(***************************************************************************)
(* Searches.  While a graph is searched from v, with the vertices `seen`   *)
(* marked and the vertices `pending` still to be looked at, nothing is     *)
(* marked or pending but what v reaches, and the successors of what is     *)
(* marked are marked or pending.  So the search may skip what is marked,   *)
(* expand what is pending, and has marked all that v reaches when nothing  *)
(* is pending any more.                                                    *)
(***************************************************************************)
Search(g, v, seen, pending) ==
  /\ seen \cup pending \subseteq Reachable(g, v)
  /\ v \in seen \cup pending
  /\ \A u \in seen : ToSet(g[u]) \subseteq seen \cup pending

LEMMA SearchStarts ==
  ASSUME NEW g \in AdjacencyList, NEW v \in Vertex
  PROVE  Search(g, v, {}, {v})
BY ReachesItself DEF Search

LEMMA SearchSkips ==
  ASSUME NEW g, NEW v, NEW seen, NEW pending, NEW left,
         Search(g, v, seen, pending),
         left \subseteq pending, pending \subseteq left \cup seen
  PROVE  Search(g, v, seen, left)
BY DEF Search

LEMMA SearchExpands ==
  ASSUME NEW g \in AdjacencyList, NEW v \in Vertex, NEW seen, NEW pending,
         NEW u \in pending, NEW left, Search(g, v, seen, pending),
         left \subseteq pending \cup ToSet(g[u]),
         pending \cup ToSet(g[u]) \subseteq left \cup seen \cup {u}
  PROVE  Search(g, v, seen \cup {u}, left)
<1>1. ToSet(g[u]) \subseteq Reachable(g, v)
  BY ReachesSuccessors DEF Search
<1> QED BY <1>1 DEF Search

LEMMA SearchEnds ==
  ASSUME NEW g, NEW v, NEW seen, Search(g, v, seen, {})
  PROVE  seen = Reachable(g, v)
<1>1. seen \in SUBSET Vertex
  BY DEF Search, Reachable
<1>2. Closed(g, seen) /\ v \in seen
  BY DEF Search, Closed
<1> QED BY <1>1, <1>2, ReachesOnlyClosed DEF Search

(***************************************************************************)
(* Lemmas about sums over finite sets, which the models take with          *)
(* SumFunctionOnSet: a recursive function over the subsets that picks one  *)
(* element after the other.  The library's induction theorems have an      *)
(* operator as a parameter, which the provers cannot instantiate, so each  *)
(* induction is a smallest counterexample instead.                         *)
(***************************************************************************)
LEMMA Least ==
  ASSUME NEW T \in SUBSET Nat, T # {}
  PROVE  \E n \in T : \A m \in T : n <= m
<1>1. PICK n \in T : \A m \in T : ~(<<m, n>> \in OpToRel(<, Nat))
  BY NatLessThanWellFounded, WFMin, Zenon
<1>2. \A m \in T : ~(m < n)
  BY <1>1 DEF OpToRel
<1> QED BY <1>2

LEMMA SmallestSubset ==
  ASSUME NEW S, IsFiniteSet(S), NEW B \in SUBSET SUBSET S, B # {}
  PROVE  \E s \in B : \A t \in B : t \subseteq s => t = s
<1> DEFINE Sizes == {Cardinality(s) : s \in B}
<1>1. \A s \in B : IsFiniteSet(s) /\ Cardinality(s) \in Nat
  BY FS_Subset, FS_CardinalityType
<1>2. Sizes \in SUBSET Nat /\ Sizes # {}
  BY <1>1
<1>3. PICK n \in Sizes : \A m \in Sizes : n <= m
  <2> HIDE DEF Sizes
  <2> QED BY <1>2, Least
<1>4. PICK s \in B : Cardinality(s) = n
  BY <1>3
<1>5. ASSUME NEW t \in B, t \subseteq s
      PROVE  t = s
  <2>1. Cardinality(s) <= Cardinality(t)
    BY <1>3, <1>4
  <2>2. Cardinality(t) <= Cardinality(s) /\ (Cardinality(s) = Cardinality(t) => s = t)
    BY <1>1, <1>5, FS_Subset
  <2> QED BY <2>1, <2>2, <1>1
<1> QED BY <1>5

(***************************************************************************)
(* What the recursive function behind the sums satisfies, that there is    *)
(* such a function for every finite set, and that it does not depend on    *)
(* the set of which the elements are picked.                               *)
(***************************************************************************)
Pick(s) == CHOOSE x \in s : TRUE

Sums(f, S, it) ==
  it = [s \in SUBSET S |-> IF s = {} THEN 0 ELSE f[Pick(s)] + it[s \ {Pick(s)}]]

LEMMA SumDef ==
  ASSUME NEW f, NEW S
  PROVE  SumFunctionOnSet(f, S) = (CHOOSE it : Sums(f, S, it))[S]
BY Zenon DEF SumFunctionOnSet, FoldFunctionOnSet, MapThenFoldSet,
             Sums, Pick

LEMMA PickIn == ASSUME NEW s, s # {} PROVE Pick(s) \in s
BY DEF Pick

LEMMA SumsExist ==
  ASSUME NEW S, IsFiniteSet(S), NEW f
  PROVE  \E it : Sums(f, S, it)
<1> DEFINE Small(k) == {s \in SUBSET S : Cardinality(s) <= k}
           Step(it, s) == IF s = {} THEN 0 ELSE f[Pick(s)] + it[s \ {Pick(s)}]
           Upto(k, it) == it = [s \in Small(k) |-> Step(it, s)]
           Bad == {k \in Nat : ~ \E it : Upto(k, it)}
<1>0. \A s \in SUBSET S : IsFiniteSet(s) /\ Cardinality(s) \in Nat
  BY FS_Subset, FS_CardinalityType
<1>a. ASSUME NEW s \in SUBSET S, s # {}
      PROVE  s \ {Pick(s)} \in SUBSET S /\ Cardinality(s \ {Pick(s)}) = Cardinality(s) - 1
  BY <1>0, PickIn, <1>a, FS_RemoveElement
<1>1. \E it : Upto(0, it)
  <2> DEFINE h == [s \in Small(0) |-> 0]
  <2>1. \A s \in Small(0) : s = {}
    BY <1>0, FS_EmptySet
  <2>2. Upto(0, h)
    <3>1. \A s \in Small(0) : Step(h, s) = 0
      BY <2>1
    <3> HIDE DEF Step, Small
    <3> QED BY <3>1
  <2> QED BY <2>2
<1>2. ASSUME NEW k \in Nat, NEW it, Upto(k, it)
      PROVE  \E h : Upto(k + 1, h)
  <2> DEFINE h == [s \in Small(k + 1) |-> Step(it, s)]
  <2>1. ASSUME NEW s \in Small(k)
        PROVE  it[s] = Step(it, s) /\ h[s] = it[s]
    <3>1. s \in Small(k + 1)
      BY <1>0
    <3>2. it[s] = Step(it, s)
      <4> HIDE DEF Step, Small
      <4> QED BY <1>2
    <3> HIDE DEF Step, Small
    <3> QED BY <3>1, <3>2
  <2>2. ASSUME NEW s \in Small(k + 1)
        PROVE  Step(h, s) = Step(it, s)
    <3>1. CASE s = {}
      BY <3>1
    <3>2. CASE s # {}
      <4>1. s \ {Pick(s)} \in Small(k)
        BY <1>0, <1>a, <3>2
      <4>2. h[s \ {Pick(s)}] = it[s \ {Pick(s)}]
        <5> HIDE DEF Small, h
        <5> QED BY <2>1, <4>1
      <4> HIDE DEF h
      <4> QED BY <4>2
    <3> QED BY <3>1, <3>2
  <2>3. Upto(k + 1, h)
    <3> HIDE DEF Step, Small
    <3> QED BY <2>2
  <2> QED BY <2>3
<1>3. Bad = {}
  <2> SUFFICES ASSUME Bad # {} PROVE FALSE
    OBVIOUS
  <2>1. PICK n \in Bad : \A m \in Bad : n <= m
    <3>1. Bad \in SUBSET Nat
      OBVIOUS
    <3> HIDE DEF Bad
    <3> QED BY Least, <3>1
  <2> HIDE DEF Upto
  <2>2. n # 0
    BY <1>1
  <2>3. n - 1 \in Nat /\ n - 1 \notin Bad
    BY <2>1, <2>2
  <2>4. PICK it : Upto(n - 1, it)
    BY <2>3
  <2>5. \E h : Upto((n - 1) + 1, h)
    BY <2>3, <2>4, <1>2
  <2> QED BY <2>5, (n - 1) + 1 = n
<1>4. Cardinality(S) \in Nat
  BY <1>0
<1>5. PICK it : Upto(Cardinality(S), it)
  <2> HIDE DEF Upto
  <2> QED BY <1>3, <1>4
<1>6. Small(Cardinality(S)) = SUBSET S
  BY FS_Subset
<1> QED
  <2> HIDE DEF Small
  <2> QED BY <1>5, <1>6 DEF Sums

LEMMA SumIsOne ==
  ASSUME NEW S, IsFiniteSet(S), NEW f
  PROVE  \E it : Sums(f, S, it) /\ SumFunctionOnSet(f, S) = it[S]
BY SumsExist, SumDef, Zenon

LEMMA SumsUnfold ==
  ASSUME NEW S, NEW f, NEW it, Sums(f, S, it), NEW s \in SUBSET S
  PROVE  it[s] = IF s = {} THEN 0 ELSE f[Pick(s)] + it[s \ {Pick(s)}]
BY Zenon DEF Sums

LEMMA SumsAgree ==
  ASSUME NEW S, IsFiniteSet(S), NEW T \in SUBSET S, NEW f,
         NEW it, Sums(f, S, it), NEW jt, Sums(f, T, jt)
  PROVE  it[T] = jt[T]
<1> DEFINE Bad == {s \in SUBSET T : it[s] # jt[s]}
<1>1. SUFFICES ASSUME Bad # {} PROVE FALSE
  OBVIOUS
<1>2. PICK s \in Bad : \A t \in Bad : t \subseteq s => t = s
  <2>1. Bad \in SUBSET SUBSET S
    OBVIOUS
  <2> HIDE DEF Bad
  <2> QED BY <1>1, <2>1, SmallestSubset
<1>3. /\ it[s] = IF s = {} THEN 0 ELSE f[Pick(s)] + it[s \ {Pick(s)}]
      /\ jt[s] = IF s = {} THEN 0 ELSE f[Pick(s)] + jt[s \ {Pick(s)}]
  BY SumsUnfold
<1>4. s # {}
  BY <1>3
<1>5. Pick(s) \in s
  BY <1>4, PickIn
<1>6. s \ {Pick(s)} \notin Bad
  BY <1>2, <1>5
<1> QED BY <1>3, <1>4, <1>6

LEMMA SumPick ==
  ASSUME NEW S, IsFiniteSet(S), NEW f
  PROVE  SumFunctionOnSet(f, S) = IF S = {} THEN 0
                       ELSE f[Pick(S)] + SumFunctionOnSet(f, S \ {Pick(S)})
<1> DEFINE T == S \ {Pick(S)}
<1>1. T \in SUBSET S /\ IsFiniteSet(T)
  BY FS_Subset
<1> HIDE DEF T
<1>2. PICK it : Sums(f, S, it) /\ SumFunctionOnSet(f, S) = it[S]
  BY SumIsOne
<1>3. PICK jt : Sums(f, T, jt) /\ SumFunctionOnSet(f, T) = jt[T]
  BY <1>1, SumIsOne
<1>4. it[T] = jt[T]
  BY <1>1, <1>2, <1>3, SumsAgree
<1>5. it[S] = IF S = {} THEN 0 ELSE f[Pick(S)] + it[S \ {Pick(S)}]
  BY <1>2, SumsUnfold
<1> QED BY <1>2, <1>3, <1>4, <1>5 DEF T

(***************************************************************************)
(* A sum over nothing is 0, a sum of naturals is a natural, and any        *)
(* element may be taken out of a sum or be added to it.                    *)
(***************************************************************************)
LEMMA SumOfNothing == \A f : SumFunctionOnSet(f, {}) = 0
BY SumPick, FS_EmptySet

LEMMA SumType ==
  ASSUME NEW S, IsFiniteSet(S), NEW f, \A x \in S : f[x] \in Nat
  PROVE  SumFunctionOnSet(f, S) \in Nat
<1> DEFINE Bad == {s \in SUBSET S : SumFunctionOnSet(f, s) \notin Nat}
<1>1. SUFFICES ASSUME Bad # {} PROVE FALSE
  OBVIOUS
<1>2. PICK s \in Bad : \A t \in Bad : t \subseteq s => t = s
  <2>1. Bad \in SUBSET SUBSET S
    OBVIOUS
  <2> HIDE DEF Bad
  <2> QED BY <1>1, <2>1, SmallestSubset
<1>3. s # {}
  BY SumOfNothing
<1>4. Pick(s) \in s
  BY <1>3, PickIn
<1>5. s \ {Pick(s)} \notin Bad
  BY <1>2, <1>4
<1>6. SumFunctionOnSet(f, s) = f[Pick(s)] + SumFunctionOnSet(f, s \ {Pick(s)})
  BY <1>3, SumPick, FS_Subset
<1> QED BY <1>4, <1>5, <1>6

LEMMA SumRemove ==
  ASSUME NEW S, IsFiniteSet(S), NEW f, \A y \in S : f[y] \in Nat, NEW z \in S
  PROVE  SumFunctionOnSet(f, S) = f[z] + SumFunctionOnSet(f, S \ {z})
<1> DEFINE Removed(s, x) == SumFunctionOnSet(f, s) = f[x] + SumFunctionOnSet(f, s \ {x})
           Bad == {s \in SUBSET S : \E x \in s : ~Removed(s, x)}
<1>1. SUFFICES ASSUME Bad # {} PROVE FALSE
  OBVIOUS
<1>2. PICK s \in Bad : \A t \in Bad : t \subseteq s => t = s
  <2>1. Bad \in SUBSET SUBSET S
    OBVIOUS
  <2> HIDE DEF Bad
  <2> QED BY <1>1, <2>1, SmallestSubset
<1>3. PICK x \in s : ~Removed(s, x)
  OBVIOUS
<1> DEFINE p == Pick(s)
<1>4. Removed(s, p) /\ p \in s
  BY SumPick, PickIn, FS_Subset
<1>5. p # x
  BY <1>3, <1>4
<1>6. Removed(s \ {p}, x) /\ Removed(s \ {x}, p)
  <2> HIDE DEF p, Removed
  <2> QED BY <1>2, <1>3, <1>4, <1>5
<1>7. \A t \in SUBSET S : SumFunctionOnSet(f, t) \in Nat
  BY FS_Subset, SumType
<1>8. (s \ {p}) \ {x} = (s \ {x}) \ {p} /\ f[x] \in Nat /\ f[p] \in Nat
  BY <1>4
<1>9. /\ SumFunctionOnSet(f, s) = f[p] + SumFunctionOnSet(f, s \ {p})
      /\ SumFunctionOnSet(f, s \ {p}) = f[x] + SumFunctionOnSet(f, (s \ {p}) \ {x})
      /\ SumFunctionOnSet(f, s \ {x}) = f[p] + SumFunctionOnSet(f, (s \ {x}) \ {p})
  BY <1>4, <1>6
<1>10. SumFunctionOnSet(f, (s \ {x}) \ {p}) \in Nat
  BY <1>7
<1>11. SumFunctionOnSet(f, s) = f[x] + SumFunctionOnSet(f, s \ {x})
  <2> DEFINE rest == SumFunctionOnSet(f, (s \ {x}) \ {p})
             a == f[x]
             b == f[p]
  <2>1. a \in Nat /\ b \in Nat /\ rest \in Nat
    BY <1>8, <1>10
  <2>2. SumFunctionOnSet(f, s) = b + (a + rest) /\ SumFunctionOnSet(f, s \ {x}) = b + rest
    BY <1>8, <1>9
  <2> HIDE DEF rest, a, b
  <2>3. SumFunctionOnSet(f, s) = a + SumFunctionOnSet(f, s \ {x})
    BY <2>1, <2>2
  <2> QED BY <2>3 DEF a
<1> QED BY <1>3, <1>11

LEMMA SumAdd ==
  ASSUME NEW S, IsFiniteSet(S), NEW x, x \notin S,
         NEW f, \A y \in S \cup {x} : f[y] \in Nat
  PROVE  SumFunctionOnSet(f, S \cup {x}) = SumFunctionOnSet(f, S) + f[x]
<1> DEFINE T == S \cup {x}
<1>1. IsFiniteSet(T) /\ x \in T /\ T \ {x} = S
  BY FS_AddElement
<1>2. SumFunctionOnSet(f, T) = f[x] + SumFunctionOnSet(f, T \ {x})
  <2> HIDE DEF T
  <2>1. \A y \in T : f[y] \in Nat
    BY DEF T
  <2> QED BY <1>1, <2>1, SumRemove
<1>3. SumFunctionOnSet(f, S) \in Nat
  BY SumType
<1>4. f[x] \in Nat /\ SumFunctionOnSet(f, S \cup {x}) = f[x] + SumFunctionOnSet(f, S)
  BY <1>1, <1>2
<1> QED BY <1>3, <1>4

(***************************************************************************)
(* A part of a sum is no larger than the sum, and what is added to it is   *)
(* no more than a bound for each element.                                  *)
(***************************************************************************)
LEMMA SumSubset ==
  ASSUME NEW S, IsFiniteSet(S), NEW T \in SUBSET S, NEW f, \A x \in S : f[x] \in Nat
  PROVE  SumFunctionOnSet(f, T) <= SumFunctionOnSet(f, S)
<1> DEFINE Bad == {s \in SUBSET S :
                     T \subseteq s /\ ~(SumFunctionOnSet(f, T) <= SumFunctionOnSet(f, s))}
<1>1. SUFFICES ASSUME Bad # {} PROVE FALSE
  OBVIOUS
<1>2. PICK s \in Bad : \A t \in Bad : t \subseteq s => t = s
  <2>1. Bad \in SUBSET SUBSET S
    OBVIOUS
  <2> HIDE DEF Bad
  <2> QED BY <1>1, <2>1, SmallestSubset
<1>3. \A t \in SUBSET S : IsFiniteSet(t) /\ SumFunctionOnSet(f, t) \in Nat
  BY FS_Subset, SumType
<1>4. PICK x \in s : x \notin T
  <2>1. s # T
    BY <1>3
  <2> QED BY <2>1
<1>5. s \ {x} \notin Bad /\ f[x] \in Nat
  BY <1>2, <1>4
<1>6. SumFunctionOnSet(f, s) = f[x] + SumFunctionOnSet(f, s \ {x})
  BY <1>3, SumRemove
<1>7. SumFunctionOnSet(f, T) <= SumFunctionOnSet(f, s \ {x})
  BY <1>4, <1>5
<1>8. SumFunctionOnSet(f, T) \in Nat /\ SumFunctionOnSet(f, s \ {x}) \in Nat
  BY <1>3
<1>9. SumFunctionOnSet(f, T) <= SumFunctionOnSet(f, s)
  BY <1>5, <1>6, <1>7, <1>8
<1> QED BY <1>9

LEMMA SumBounded ==
  ASSUME NEW S, IsFiniteSet(S), NEW T \in SUBSET S, NEW f, NEW b \in Nat,
         \A x \in S : f[x] \in Nat, \A x \in S \ T : f[x] <= b
  PROVE  SumFunctionOnSet(f, S) <= SumFunctionOnSet(f, T) + b * Cardinality(S \ T)
<1> DEFINE sum(s) == SumFunctionOnSet(f, s)
           Bounded(s) == sum(s) <= sum(T) + b * Cardinality(s \ T)
           Bad == {s \in SUBSET S : T \subseteq s /\ ~Bounded(s)}
<1>1. SUFFICES ASSUME Bad # {} PROVE FALSE
  OBVIOUS
<1>2. PICK s \in Bad : \A t \in Bad : t \subseteq s => t = s
  <2>1. Bad \in SUBSET SUBSET S
    OBVIOUS
  <2> HIDE DEF Bad
  <2> QED BY <1>1, <2>1, SmallestSubset
<1>3. \A t \in SUBSET S : /\ IsFiniteSet(t) /\ sum(t) \in Nat
                          /\ IsFiniteSet(t \ T) /\ Cardinality(t \ T) \in Nat
  BY FS_Subset, SumType, FS_CardinalityType
<1>4. PICK x \in s : x \notin T
  <2>1. Bounded(T)
    <3>1. T \ T = {} /\ Cardinality({}) = 0
      BY FS_EmptySet
    <3>2. \A m \in Nat : m <= m + b * 0
      OBVIOUS
    <3> QED BY <1>3, <3>1, <3>2
  <2>2. s # T
    BY <2>1
  <2> QED BY <2>2
<1> DEFINE t == s \ {x}
<1>5. t \notin Bad /\ T \subseteq t /\ t \in SUBSET S
  BY <1>2, <1>4
<1>6. sum(s) = f[x] + sum(t)
  BY <1>3, SumRemove
<1>7. Cardinality(t \ T) = Cardinality(s \ T) - 1
  <2>1. t \ T = (s \ T) \ {x} /\ x \in s \ T
    BY <1>4
  <2>2. IsFiniteSet(s \ T)
    BY <1>3
  <2>3. Cardinality((s \ T) \ {x}) = Cardinality(s \ T) - 1
    BY <2>1, <2>2, FS_RemoveElement
  <2> QED BY <2>1, <2>3
<1>8. Bounded(t) /\ f[x] \in Nat /\ f[x] <= b
  BY <1>4, <1>5
<1>9. /\ sum(t) \in Nat /\ sum(T) \in Nat /\ Cardinality(s \ T) \in Nat
      /\ Cardinality(t \ T) \in Nat
  BY <1>3, <1>5
<1>10. ASSUME NEW c \in Int, NEW d \in Nat, c = d - 1
       PROVE  b * d = b * c + b /\ b * c \in Int
  BY <1>10
<1>11. b * Cardinality(s \ T) = b * Cardinality(t \ T) + b /\ b * Cardinality(t \ T) \in Int
  BY <1>7, <1>9, <1>10
<1>12. Bounded(s)
  <2> HIDE DEF t, sum
  <2> QED BY <1>6, <1>8, <1>9, <1>11
<1> QED BY <1>12

(***************************************************************************)
(* A sum of which the other elements are 0 is the sum of a part.           *)
(***************************************************************************)
LEMMA SumOfPart ==
  ASSUME NEW S, IsFiniteSet(S), NEW T \in SUBSET S, NEW f, NEW g,
         \A x \in S : f[x] \in Nat, \A x \in T : g[x] = f[x],
         \A x \in S \ T : f[x] = 0
  PROVE  SumFunctionOnSet(f, S) = SumFunctionOnSet(g, T)
<1> DEFINE Bad == {s \in SUBSET S : SumFunctionOnSet(f, s) # SumFunctionOnSet(g, s \cap T)}
<1>1. ASSUME Bad # {} PROVE FALSE
  <2>1. PICK s \in Bad : \A t \in Bad : t \subseteq s => t = s
    <3>1. Bad \in SUBSET SUBSET S
      OBVIOUS
    <3> HIDE DEF Bad
    <3> QED BY <1>1, <3>1, SmallestSubset
  <2>2. s # {}
    <3>1. {} \cap T = {}
      OBVIOUS
    <3> QED BY <3>1, SumOfNothing
  <2>3. PICK p \in s : p = Pick(s)
    BY <2>2, PickIn
  <2>4. s \ {p} \notin Bad /\ s \ {p} \in SUBSET S /\ p \in S
    BY <2>1
  <2>5. SumFunctionOnSet(f, s) = f[p] + SumFunctionOnSet(f, s \ {p})
    BY <2>2, <2>3, SumPick, FS_Subset
  <2>6. SumFunctionOnSet(f, s \ {p}) = SumFunctionOnSet(g, (s \ {p}) \cap T)
    BY <2>4
  <2>7. CASE p \in T
    <3>1. /\ s \cap T \in SUBSET S /\ IsFiniteSet(s \cap T) /\ p \in s \cap T
          /\ \A x \in s \cap T : g[x] \in Nat
      BY <2>7, FS_Subset
    <3>2. SumFunctionOnSet(g, s \cap T) = g[p] + SumFunctionOnSet(g, (s \cap T) \ {p})
      BY <3>1, SumRemove
    <3>3. (s \cap T) \ {p} = (s \ {p}) \cap T /\ g[p] = f[p]
      BY <2>7
    <3> QED BY <2>1, <2>5, <2>6, <3>2, <3>3
  <2>8. CASE p \notin T
    <3>1. (s \ {p}) \cap T = s \cap T /\ f[p] = 0
      BY <2>4, <2>8
    <3>2. IsFiniteSet(s \ {p}) /\ \A x \in s \ {p} : f[x] \in Nat
      BY <2>4, FS_Subset
    <3>3. SumFunctionOnSet(f, s \ {p}) \in Nat
      BY <3>2, SumType
    <3> QED BY <2>1, <2>5, <2>6, <3>1, <3>3
  <2> QED BY <2>7, <2>8
<1>2. S \cap T = T /\ S \notin Bad
  BY <1>1
<1> QED BY <1>2

(***************************************************************************)
(* A sum is the sum over a part and the sum over what is left, and the sum *)
(* of the sums of two functions.                                           *)
(***************************************************************************)
LEMMA SumSplit ==
  ASSUME NEW S, IsFiniteSet(S), NEW T \in SUBSET S, NEW f, \A x \in S : f[x] \in Nat
  PROVE  SumFunctionOnSet(f, S) = SumFunctionOnSet(f, T) + SumFunctionOnSet(f, S \ T)
<1> DEFINE sum(s) == SumFunctionOnSet(f, s)
           Bad == {s \in SUBSET S : sum(s) # sum(s \cap T) + sum(s \ T)}
<1>1. ASSUME Bad # {} PROVE FALSE
  <2>1. PICK s \in Bad : \A t \in Bad : t \subseteq s => t = s
    <3>1. Bad \in SUBSET SUBSET S
      OBVIOUS
    <3> HIDE DEF Bad
    <3> QED BY <1>1, <3>1, SmallestSubset
  <2>2. PICK p \in s : TRUE
    <3>1. {} \cap T = {} /\ {} \ T = {}
      OBVIOUS
    <3>2. sum({}) = 0
      BY SumOfNothing
    <3>3. sum({}) = sum({} \cap T) + sum({} \ T)
      <4> HIDE DEF sum
      <4> QED BY <3>1, <3>2
    <3>4. {} \notin Bad
      BY <3>3
    <3> QED BY <2>1, <3>4
  <2>3. \A t \in SUBSET S : IsFiniteSet(t) /\ sum(t) \in Nat
    BY FS_Subset, SumType
  <2>4. \A t \in SUBSET S : \A x \in t : sum(t) = f[x] + sum(t \ {x})
    BY <2>3, SumRemove
  <2>5. s \ {p} \in SUBSET S /\ s \cap T \in SUBSET S /\ s \ T \in SUBSET S
    OBVIOUS
  <2>6. sum(s \ {p}) = sum((s \ {p}) \cap T) + sum((s \ {p}) \ T)
    BY <2>1
  <2>7. f[p] \in Nat
    BY <2>1
  <2>8. CASE p \in T
    <3>1. (s \ {p}) \cap T = (s \cap T) \ {p} /\ (s \ {p}) \ T = s \ T /\ p \in s \cap T
      BY <2>8
    <3>2. sum(s \cap T) = f[p] + sum((s \cap T) \ {p}) /\ sum((s \cap T) \ {p}) \in Nat
      BY <2>3, <2>4, <2>5, <3>1
    <3>3. sum(s) = f[p] + (sum((s \cap T) \ {p}) + sum(s \ T))
      BY <2>1, <2>4, <2>6, <3>1
    <3>4. sum(s) = sum(s \cap T) + sum(s \ T)
      <4> HIDE DEF sum
      <4> QED BY <2>3, <2>5, <2>7, <3>2, <3>3
    <3> QED BY <2>1, <3>4
  <2>9. CASE p \notin T
    <3>1. (s \ {p}) \cap T = s \cap T /\ (s \ {p}) \ T = (s \ T) \ {p} /\ p \in s \ T
      BY <2>9
    <3>2. sum(s \ T) = f[p] + sum((s \ T) \ {p}) /\ sum((s \ T) \ {p}) \in Nat
      BY <2>3, <2>4, <2>5, <3>1
    <3>3. sum(s) = f[p] + (sum(s \cap T) + sum((s \ T) \ {p}))
      BY <2>1, <2>4, <2>6, <3>1
    <3>4. sum(s) = sum(s \cap T) + sum(s \ T)
      <4> HIDE DEF sum
      <4> QED BY <2>3, <2>5, <2>7, <3>2, <3>3
    <3> QED BY <2>1, <3>4
  <2> QED BY <2>8, <2>9
<1>2. S \cap T = T /\ S \notin Bad
  BY <1>1
<1> QED BY <1>2

LEMMA SumOfTwo ==
  ASSUME NEW S, IsFiniteSet(S), NEW f, NEW g, NEW h,
         \A x \in S : f[x] \in Nat /\ g[x] \in Nat /\ h[x] = f[x] + g[x]
  PROVE  SumFunctionOnSet(h, S) = SumFunctionOnSet(f, S) + SumFunctionOnSet(g, S)
<1> DEFINE sum(k, s) == SumFunctionOnSet(k, s)
           Bad == {s \in SUBSET S : sum(h, s) # sum(f, s) + sum(g, s)}
<1>1. ASSUME Bad # {} PROVE FALSE
  <2>1. PICK s \in Bad : \A t \in Bad : t \subseteq s => t = s
    <3>1. Bad \in SUBSET SUBSET S
      OBVIOUS
    <3> HIDE DEF Bad
    <3> QED BY <1>1, <3>1, SmallestSubset
  <2>2. PICK p \in s : TRUE
    <3>1. sum(f, {}) = 0 /\ sum(g, {}) = 0 /\ sum(h, {}) = 0
      BY SumOfNothing
    <3>2. {} \notin Bad
      BY <3>1
    <3> QED BY <2>1, <3>2
  <2>3. IsFiniteSet(s) /\ IsFiniteSet(s \ {p}) /\ \A x \in S : h[x] \in Nat
    BY FS_Subset
  <2>4. /\ sum(f, s) = f[p] + sum(f, s \ {p}) /\ sum(f, s \ {p}) \in Nat
        /\ sum(g, s) = g[p] + sum(g, s \ {p}) /\ sum(g, s \ {p}) \in Nat
        /\ sum(h, s) = h[p] + sum(h, s \ {p})
    BY <2>3, SumRemove, SumType
  <2>5. sum(h, s \ {p}) = sum(f, s \ {p}) + sum(g, s \ {p})
    BY <2>1
  <2>6. f[p] \in Nat /\ g[p] \in Nat /\ h[p] = f[p] + g[p]
    BY <2>1
  <2>7. sum(h, s) = sum(f, s) + sum(g, s)
    <3> HIDE DEF sum
    <3> QED BY <2>4, <2>5, <2>6
  <2> QED BY <2>1, <2>7
<1>2. S \notin Bad
  BY <1>1
<1> QED BY <1>2

(* What a reachable vertex reaches.                                        *)
LEMMA ReachesFurther ==
  ASSUME NEW g \in AdjacencyList, NEW v \in Vertex, NEW u \in Reachable(g, v)
  PROVE  Reachable(g, u) \subseteq Reachable(g, v)
<1>1. Reachable(g, v) \in SUBSET Vertex /\ Closed(g, Reachable(g, v))
  BY ReachesSuccessors DEF Reachable, Closed
<1> QED BY <1>1, ReachesOnlyClosed

-----------------------------------------------------------------------------
(***************************************************************************)
(* Levels.  T has the targets of the edges of a finite graph and C the     *)
(* strong component of every vertex.  No distances that all edges allow    *)
(* are further below 0 than the depths: the depth of a vertex is the       *)
(* largest of the values it has in them.                                   *)
(***************************************************************************)
Stays(T, S) == \A v \in S : T[v] \subseteq S

InComponents(T, C) ==
  C = [v \in DOMAIN T |->
         {u \in DOMAIN T : \A S \in SUBSET DOMAIN T : Stays(T, S) => (u \in S <=> v \in S)}]

Down(C, v, u) == IF C[v] = C[u] THEN 0 ELSE -1

Feasible(T, C) ==
  {d \in [DOMAIN T -> Int] :
     \A v \in DOMAIN T : d[v] <= 0 /\ \A u \in T[v] : d[u] <= d[v] + Down(C, v, u)}

Depth(T, C) ==
  [v \in DOMAIN T |->
     CHOOSE m \in {d[v] : d \in Feasible(T, C)} : \A d \in Feasible(T, C) : d[v] <= m]

LEMMA OneComponent ==
  ASSUME NEW N, NEW T \in [N -> SUBSET N], NEW C, InComponents(T, C),
         NEW u \in N, NEW v \in N,
         \A S \in SUBSET N : Stays(T, S) => (u \in S <=> v \in S)
  PROVE  C[u] = C[v]
<1>1. /\ C[u] = {w \in N : \A S \in SUBSET N : Stays(T, S) => (w \in S <=> u \in S)}
      /\ C[v] = {w \in N : \A S \in SUBSET N : Stays(T, S) => (w \in S <=> v \in S)}
  BY DEF InComponents
<1> QED BY <1>1

LEMMA InItsComponent ==
  ASSUME NEW N, NEW T \in [N -> SUBSET N], NEW C, InComponents(T, C),
         NEW u \in N, NEW v \in N
  PROVE  /\ v \in C[v] /\ C[v] \in SUBSET N
         /\ u \in C[v] <=> \A S \in SUBSET N : Stays(T, S) => (u \in S <=> v \in S)
         /\ u \in C[v] <=> C[u] = C[v]
<1>1. /\ v \in C[v] /\ C[v] \in SUBSET N /\ u \in C[u]
      /\ u \in C[v] <=> \A S \in SUBSET N : Stays(T, S) => (u \in S <=> v \in S)
  BY DEF InComponents
<1> QED BY <1>1, OneComponent

(* One such function counts the vertices from which a vertex is reached.   *)
LEMMA SomeFeasible ==
  ASSUME NEW N, IsFiniteSet(N), NEW T \in [N -> SUBSET N], NEW C, InComponents(T, C)
  PROVE  \E d \in Feasible(T, C) : \A v \in N : d[v] >= -Cardinality(N)
<1> DEFINE A(v) == {u \in N : \A S \in SUBSET N : Stays(T, S) /\ u \in S => v \in S}
           d == [v \in N |-> -Cardinality(A(v))]
<1>1. \A v \in N : /\ A(v) \in SUBSET N /\ IsFiniteSet(A(v))
                   /\ Cardinality(A(v)) \in Nat /\ Cardinality(A(v)) <= Cardinality(N)
  BY FS_Subset, FS_CardinalityType
<1>2. ASSUME NEW v \in N, NEW u \in T[v]
      PROVE  d[u] <= d[v] + Down(C, v, u)
  <2>1. u \in N
    OBVIOUS
  <2>2. A(v) \subseteq A(u)
    <3>1. \A S \in SUBSET N : Stays(T, S) /\ v \in S => u \in S
      BY DEF Stays
    <3> QED BY <3>1
  <2>3. Cardinality(A(v)) <= Cardinality(A(u)) /\ (Cardinality(A(u)) = Cardinality(A(v)) => A(u) = A(v))
    <3>1. IsFiniteSet(A(u)) /\ A(v) \in SUBSET A(u)
      BY <1>1, <2>1, <2>2
    <3> HIDE DEF A
    <3> QED BY <3>1, FS_Subset
  <2>4. A(u) = A(v) => C[v] = C[u]
    <3> SUFFICES ASSUME A(u) = A(v) PROVE C[v] = C[u]
      OBVIOUS
    <3>1. u \in A(v)
      BY <2>1
    <3>2. \A S \in SUBSET N : Stays(T, S) => (v \in S <=> u \in S)
      BY <3>1 DEF Stays
    <3> HIDE DEF A
    <3> QED BY <2>1, <3>2, OneComponent
  <2>5. d[u] = -Cardinality(A(u)) /\ d[v] = -Cardinality(A(v))
    BY <2>1
  <2>6. C[v] = C[u] => A(u) \subseteq A(v)
    <3> SUFFICES ASSUME C[v] = C[u] PROVE A(u) \subseteq A(v)
      OBVIOUS
    <3>1. u \in C[v]
      BY <2>1, InItsComponent
    <3>2. \A S \in SUBSET N : Stays(T, S) => (v \in S <=> u \in S)
      BY <2>1, <3>1, InItsComponent
    <3> QED BY <3>2
  <2>7. Cardinality(A(u)) \in Nat /\ Cardinality(A(v)) \in Nat
    BY <1>1, <2>1
  <2> HIDE DEF A, d
  <2> QED BY <2>2, <2>3, <2>4, <2>5, <2>7 DEF Down
<1>3. \A v \in N : d[v] \in Int /\ d[v] <= 0 /\ d[v] >= -Cardinality(N)
  <2>1. \A v \in N : d[v] = -Cardinality(A(v))
    OBVIOUS
  <2>2. Cardinality(N) \in Nat
    BY FS_CardinalityType
  <2> HIDE DEF A, d
  <2> QED BY <1>1, <2>1, <2>2
<1>4. d \in Feasible(T, C)
  <2>1. d = [v \in N |-> d[v]] /\ DOMAIN T = N
    OBVIOUS
  <2> HIDE DEF d
  <2>2. d \in [N -> Int]
    BY <1>3, <2>1
  <2> QED BY <1>2, <1>3, <2>1, <2>2 DEF Feasible
<1> QED
  <2> HIDE DEF d
  <2> QED BY <1>3, <1>4

(* The depths are feasible themselves.                                     *)
LEMMA DepthFeasible ==
  ASSUME NEW N, IsFiniteSet(N), NEW T \in [N -> SUBSET N], NEW C, InComponents(T, C)
  PROVE  /\ Depth(T, C) \in Feasible(T, C) /\ Depth(T, C) \in [N -> Int]
         /\ \A v \in N : Depth(T, C)[v] \in Int /\ Depth(T, C)[v] <= 0
         /\ \A v \in N : \A u \in T[v] : Depth(T, C)[u] <= Depth(T, C)[v] + Down(C, v, u)
         /\ \A d \in Feasible(T, C), v \in N : d[v] <= Depth(T, C)[v]
<1> DEFINE F == Feasible(T, C)  f == Depth(T, C)
<1>1. PICK d0 \in F : TRUE
  BY SomeFeasible
<1>2. \A d \in F, v \in N : /\ d[v] \in Int /\ d[v] <= 0
                            /\ \A u \in T[v] : d[u] <= d[v] + Down(C, v, u)
  BY DEF Feasible
<1>3. \A v, u \in N : Down(C, v, u) \in Int
  BY DEF Down
<1>4. ASSUME NEW v \in N
      PROVE  \E d \in F : \A e \in F : e[v] <= d[v]
  <2> DEFINE M == {-d[v] : d \in F}
  <2> HIDE DEF F
  <2>1. M \in SUBSET Nat /\ -d0[v] \in M
    BY <1>1, <1>2
  <2>2. PICK n \in M : \A m \in M : n <= m
    <3> HIDE DEF M
    <3> QED BY <2>1, Least
  <2>3. PICK d \in F : n = -d[v]
    BY <2>2
  <2>4. ASSUME NEW e \in F PROVE e[v] <= d[v]
    <3>1. n <= -e[v]
      BY <2>2
    <3> QED BY <1>2, <2>3, <3>1
  <2> QED BY <2>4
<1>5. ASSUME NEW v \in N
      PROVE  /\ \E d \in F : f[v] = d[v]
             /\ \A d \in F : d[v] <= f[v]
  <2>1. f[v] = CHOOSE m \in {d[v] : d \in F} : \A d \in F : d[v] <= m
    BY DEF Depth
  <2>2. \E m \in {d[v] : d \in F} : \A d \in F : d[v] <= m
    BY <1>4
  <2> HIDE DEF F, f
  <2> QED BY <2>1, <2>2
<1>6. f = [v \in N |-> f[v]] /\ DOMAIN T = N
  <2> DEFINE m(v) == CHOOSE m \in {d[v] : d \in F} : \A d \in F : d[v] <= m
  <2>1. f = [v \in N |-> m(v)] /\ DOMAIN T = N
    BY DEF Depth
  <2> HIDE DEF m, f
  <2> QED BY <2>1
<1> HIDE DEF f, F
<1>7. \A v \in N : f[v] \in Int /\ f[v] <= 0
  BY <1>2, <1>5
<1>8. ASSUME NEW v \in N, NEW u \in T[v]
      PROVE  f[u] <= f[v] + Down(C, v, u)
  <2>1. u \in N
    OBVIOUS
  <2>2. PICK d \in F : f[u] = d[u]
    BY <1>5, <2>1
  <2>3. d[u] <= d[v] + Down(C, v, u) /\ d[v] <= f[v]
    BY <1>2, <1>5
  <2> QED BY <1>2, <1>3, <1>7, <2>1, <2>2, <2>3
<1>9. f \in [N -> Int]
  BY <1>6, <1>7
<1>10. f \in F
  BY <1>6, <1>7, <1>8, <1>9 DEF F, Feasible
<1> QED BY <1>5, <1>7, <1>8, <1>9, <1>10 DEF F, f

(* Every other set of vertices that has all of depth 0 is left by an edge  *)
(* along which the depths go down as far as it allows: otherwise the       *)
(* others would be less deep.                                              *)
LEMMA TightEdge ==
  ASSUME NEW N, IsFiniteSet(N), NEW T \in [N -> SUBSET N], NEW C, InComponents(T, C),
         NEW S \in SUBSET N, S # N, \A v \in N : Depth(T, C)[v] = 0 => v \in S
  PROVE  \E v \in S : \E u \in T[v] \ S : Depth(T, C)[u] = Depth(T, C)[v] + Down(C, v, u)
<1> DEFINE f == Depth(T, C)
<1>1. /\ \A v \in N : f[v] \in Int /\ f[v] <= 0
      /\ \A v \in N : \A u \in T[v] : f[u] <= f[v] + Down(C, v, u)
      /\ \A d \in Feasible(T, C), v \in N : d[v] <= f[v]
      /\ \A v \in N : f[v] = 0 => v \in S
  BY DepthFeasible
<1> HIDE DEF f
<1>2. SUFFICES ASSUME \A v \in S : \A u \in T[v] \ S : f[u] # f[v] + Down(C, v, u)
               PROVE  FALSE
  BY DEF f
<1> DEFINE d == [v \in N |-> IF v \in S THEN f[v] ELSE f[v] + 1]
<1>3. \A v, u \in N : Down(C, v, u) \in Int
  BY DEF Down
<1>4. \A v \in N : d[v] \in Int /\ d[v] <= 0
  BY <1>1
<1>5. ASSUME NEW v \in N, NEW u \in T[v]
      PROVE  d[u] <= d[v] + Down(C, v, u)
  <2>1. u \in N /\ f[u] <= f[v] + Down(C, v, u)
    BY <1>1
  <2>2. v \in S /\ u \notin S => f[u] # f[v] + Down(C, v, u)
    BY <1>2
  <2> QED BY <1>1, <1>3, <2>1, <2>2
<1>6. d \in Feasible(T, C)
  <2>1. d \in [N -> Int] /\ DOMAIN T = N
    BY <1>4
  <2> HIDE DEF d
  <2> QED BY <1>4, <1>5, <2>1 DEF Feasible
<1>7. PICK v \in N : v \notin S
  OBVIOUS
<1>8. d[v] <= f[v]
  <2> HIDE DEF d
  <2> QED BY <1>1, <1>6
<1> QED BY <1>1, <1>7, <1>8

(* A strong component has one depth.                                       *)
LEMMA DepthOfComponent ==
  ASSUME NEW N, IsFiniteSet(N), NEW T \in [N -> SUBSET N], NEW C, InComponents(T, C),
         NEW v \in N, NEW u \in C[v]
  PROVE  Depth(T, C)[u] = Depth(T, C)[v]
<1> DEFINE f == Depth(T, C)
           Above(x) == {w \in N : f[w] <= f[x]}
<1>1. /\ \A w \in N : f[w] \in Int
      /\ \A w \in N : \A x \in T[w] : f[x] <= f[w] + Down(C, w, x)
  BY DepthFeasible
<1> HIDE DEF f
<1>2. ASSUME NEW x \in N
      PROVE  Stays(T, Above(x)) /\ Above(x) \in SUBSET N
  <2>1. ASSUME NEW w \in Above(x), NEW y \in T[w]
        PROVE  y \in Above(x)
    <3>1. w \in N /\ y \in N /\ f[w] <= f[x]
      OBVIOUS
    <3>2. f[y] <= f[w] + Down(C, w, y)
      BY <1>1, <3>1
    <3>3. Down(C, w, y) \in Int /\ Down(C, w, y) <= 0
      BY DEF Down
    <3> QED BY <1>1, <3>1, <3>2, <3>3
  <2> QED BY <2>1 DEF Stays
<1>3. u \in N /\ \A S \in SUBSET N : Stays(T, S) => (u \in S <=> v \in S)
  BY InItsComponent
<1>4. u \in Above(v) <=> v \in Above(v)
  <2> HIDE DEF Above
  <2> QED BY <1>2, <1>3
<1>5. u \in Above(u) <=> v \in Above(u)
  <2> HIDE DEF Above
  <2> QED BY <1>2, <1>3
<1>6. f[u] \in Int /\ f[v] \in Int
  BY <1>1, <1>3
<1>7. f[u] <= f[v] /\ f[v] <= f[u]
  BY <1>3, <1>4, <1>5, <1>6
<1> QED BY <1>6, <1>7 DEF f

(* So the depth of a component is 0, or one below that of a vertex outside *)
(* with an edge to it.                                                     *)
LEMMA DepthReached ==
  ASSUME NEW N, IsFiniteSet(N), NEW T \in [N -> SUBSET N], NEW C, InComponents(T, C),
         NEW v \in N
  PROVE  \/ Depth(T, C)[v] = 0
         \/ \E x \in N \ C[v] : \E y \in T[x] \cap C[v] : Depth(T, C)[v] = Depth(T, C)[x] - 1
<1> DEFINE f == Depth(T, C)
<1>1. \A u \in C[v] : f[u] = f[v]
  BY DepthOfComponent
<1>2. v \in C[v] /\ C[v] \in SUBSET N
  BY InItsComponent
<1>3. SUFFICES ASSUME f[v] # 0
               PROVE  \E x \in N \ C[v] : \E y \in T[x] \cap C[v] : f[v] = f[x] - 1
  OBVIOUS
<1>4. PICK x \in N \ C[v] : \E y \in T[x] \ (N \ C[v]) : f[y] = f[x] + Down(C, x, y)
  <2> DEFINE S == N \ C[v]
  <2>1. S \in SUBSET N /\ S # N /\ \A w \in N : f[w] = 0 => w \in S
    BY <1>1, <1>2, <1>3
  <2> HIDE DEF S
  <2>2. \E x \in S : \E y \in T[x] \ S : f[y] = f[x] + Down(C, x, y)
    BY <2>1, TightEdge
  <2> QED BY <2>2 DEF S
<1>5. PICK y \in T[x] \ (N \ C[v]) : f[y] = f[x] + Down(C, x, y)
  BY <1>4
<1>6. x \in N /\ y \in C[v] /\ y \in N /\ y \in T[x]
  BY <1>4, <1>5
<1>7. C[y] = C[v] /\ C[x] # C[v]
  BY <1>4, <1>6, InItsComponent
<1>8. f[y] = f[x] - 1
  <2>1. f[x] \in Int
    BY <1>6, DepthFeasible
  <2> HIDE DEF f
  <2> QED BY <1>5, <1>7, <2>1 DEF Down
<1> QED
  <2>1. f[y] = f[v]
    BY <1>1, <1>6
  <2> HIDE DEF f
  <2> QED BY <1>4, <1>6, <1>8, <2>1

=============================================================================
