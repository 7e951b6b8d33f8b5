-------------------------- MODULE TotalCost_proofs --------------------------
(***************************************************************************)
(* The proofs about get_total_cost::from_graph, for every graph, every     *)
(* list of sources that is not longer than the results, and every schedule *)
(* of the bodies.  Nothing is said of what follows a copy that leaves the  *)
(* array of an iterator.                                                   *)
(***************************************************************************)
EXTENDS TotalCost, IncludeDigraph_proofs

(* What a sum of the records of the elements of S is folded with.          *)
Records(f, S, it) ==
  it = [s \in SUBSET S |->
          IF s = {} THEN NoCost ELSE Add(f[Pick(s)], it[s \ {Pick(s)}])]

LEMMA SumOverDef ==
  ASSUME NEW f, NEW S
  PROVE  SumOver(S, f) = (CHOOSE it : Records(f, S, it))[S]
BY Zenon DEF SumOver, FoldFunctionOnSet, MapThenFoldSet, Records, Pick

LEMMA RecordsUnfold ==
  ASSUME NEW S, NEW f, NEW it, Records(f, S, it), NEW s \in SUBSET S
  PROVE  it[s] = IF s = {} THEN NoCost ELSE Add(f[Pick(s)], it[s \ {Pick(s)}])
BY Zenon DEF Records

\* The sums of the two parts of f.
Sums2(f, S) ==
  [true_cost |-> SumFunctionOnSet([x \in S |-> f[x].true_cost], S),
   precompiled |-> SumFunctionOnSet([x \in S |-> f[x].precompiled], S)]

LEMMA Sums2Unfold ==
  ASSUME NEW S, IsFiniteSet(S), NEW f, \A x \in S : f[x] \in Result
  PROVE  /\ Sums2(f, S) \in Result
         /\ S = {} => Sums2(f, S) = NoCost
         /\ \A z \in S : Sums2(f, S) = Add(f[z], Sums2(f, S \ {z}))
<1> DEFINE t(T) == [x \in T |-> f[x].true_cost]
           p(T) == [x \in T |-> f[x].precompiled]
<1>1. /\ \A T \in SUBSET S : \A x \in T :
           t(T)[x] = f[x].true_cost /\ p(T)[x] = f[x].precompiled
      /\ \A x \in S : f[x].true_cost \in Nat /\ f[x].precompiled \in Nat
  BY DEF Result
<1>2. \A T \in SUBSET S : Sums2(f, T) = [true_cost |-> SumFunctionOnSet(t(T), T),
                                         precompiled |-> SumFunctionOnSet(p(T), T)]
  BY DEF Sums2
<1> HIDE DEF t, p
<1>3. SumFunctionOnSet(t(S), S) \in Nat /\ SumFunctionOnSet(p(S), S) \in Nat
  <2>1. \A x \in S : t(S)[x] \in Nat /\ p(S)[x] \in Nat
    BY <1>1
  <2> QED BY <2>1, SumType
<1>4. ASSUME NEW z \in S
      PROVE  Sums2(f, S) = Add(f[z], Sums2(f, S \ {z}))
  <2> DEFINE T == S \ {z}
  <2>1. /\ T \in SUBSET S /\ IsFiniteSet(T)
        /\ \A x \in S : t(S)[x] \in Nat /\ p(S)[x] \in Nat
    BY <1>1, FS_Subset
  <2>2. /\ SumFunctionOnSet(t(S), S) = t(S)[z] + SumFunctionOnSet(t(S), T)
        /\ SumFunctionOnSet(p(S), S) = p(S)[z] + SumFunctionOnSet(p(S), T)
    BY <2>1, SumRemove
  <2>3. /\ SumFunctionOnSet(t(S), T) = SumFunctionOnSet(t(T), T)
        /\ SumFunctionOnSet(p(S), T) = SumFunctionOnSet(p(T), T)
    <3>1. /\ \A x \in T : t(S)[x] \in Nat /\ p(S)[x] \in Nat
          /\ \A x \in T : t(T)[x] = t(S)[x] /\ p(T)[x] = p(S)[x]
      BY <1>1
    <3> HIDE DEF T
    <3>2. T \in SUBSET T /\ T \ T = {}
      OBVIOUS
    <3> QED BY <2>1, <3>1, <3>2, SumOfPart
  <2>4. t(S)[z] = f[z].true_cost /\ p(S)[z] = f[z].precompiled
    BY <1>1
  <2> HIDE DEF T
  <2>5. /\ Sums2(f, T) = [true_cost |-> SumFunctionOnSet(t(T), T),
                          precompiled |-> SumFunctionOnSet(p(T), T)]
        /\ Sums2(f, S) = [true_cost |-> SumFunctionOnSet(t(S), S),
                          precompiled |-> SumFunctionOnSet(p(S), S)]
    BY <1>2, <2>1
  <2>6. Sums2(f, S) = Add(f[z], Sums2(f, T))
    BY <2>2, <2>3, <2>4, <2>5 DEF Add
  <2> QED BY <2>6 DEF T
<1>5. S = {} => Sums2(f, S) = NoCost
  BY <1>2, SumOfNothing DEF NoCost
<1>6. Sums2(f, S) \in Result
  BY <1>2, <1>3 DEF Result
<1> QED BY <1>4, <1>5, <1>6

(* A fold of Add is the pair of the sums of the two parts.                 *)
LEMMA SumOverIs ==
  ASSUME NEW S, IsFiniteSet(S), NEW f, \A x \in S : f[x] \in Result
  PROVE  SumOver(S, f) = Sums2(f, S)
<1>1. \A s \in SUBSET S : IsFiniteSet(s) /\ \A x \in s : f[x] \in Result
  BY FS_Subset
<1> DEFINE h == [s \in SUBSET S |-> Sums2(f, s)]
<1>2. Records(f, S, h)
  <2>1. ASSUME NEW s \in SUBSET S
        PROVE  Sums2(f, s) = IF s = {} THEN NoCost
                             ELSE Add(f[Pick(s)], h[s \ {Pick(s)}])
    <3>1. CASE s = {}
      BY <1>1, <3>1, Sums2Unfold
    <3>2. CASE s # {}
      <4>1. Pick(s) \in s /\ s \ {Pick(s)} \in SUBSET S
        BY <3>2, PickIn
      <4>2. h[s \ {Pick(s)}] = Sums2(f, s \ {Pick(s)})
        BY <4>1
      <4>3. Sums2(f, s) = Add(f[Pick(s)], Sums2(f, s \ {Pick(s)}))
        BY <1>1, <4>1, Sums2Unfold
      <4> QED BY <3>2, <4>2, <4>3
    <3> QED BY <3>1, <3>2
  <2> QED BY <2>1, Zenon DEF Records
<1>3. PICK it : Records(f, S, it) /\ SumOver(S, f) = it[S]
  <2> HIDE DEF h
  <2> QED BY <1>2, SumOverDef, Zenon
<1> DEFINE Bad == {s \in SUBSET S : it[s] # Sums2(f, s)}
<1>4. ASSUME Bad # {} PROVE FALSE
  <2>1. PICK s \in Bad : \A t \in Bad : t \subseteq s => t = s
    <3>1. Bad \in SUBSET SUBSET S
      OBVIOUS
    <3> HIDE DEF Bad
    <3> QED BY <1>4, <3>1, SmallestSubset
  <2>2. it[s] = IF s = {} THEN NoCost ELSE Add(f[Pick(s)], it[s \ {Pick(s)}])
    BY <1>3, RecordsUnfold
  <2>3. s # {}
    BY <1>1, <2>2, Sums2Unfold
  <2>4. PICK p \in s : p = Pick(s)
    BY <2>3, PickIn
  <2>5. s \ {p} \notin Bad /\ s \ {p} \in SUBSET S
    BY <2>1
  <2>6. Sums2(f, s) = Add(f[p], Sums2(f, s \ {p}))
    BY <1>1, Sums2Unfold
  <2> QED BY <2>1, <2>2, <2>3, <2>4, <2>5, <2>6
<1>5. it[S] = Sums2(f, S)
  <2>1. S \notin Bad
    BY <1>4
  <2> QED BY <2>1
<1> QED BY <1>3, <1>5

LEMMA SumOverFacts ==
  ASSUME NEW S, IsFiniteSet(S), NEW f, \A x \in S : f[x] \in Result
  PROVE  /\ SumOver(S, f) \in Result
         /\ SumOver({}, f) = NoCost
         /\ \A z \in S : SumOver(S, f) = Add(SumOver(S \ {z}, f), f[z])
<1>1. \A T \in SUBSET S :
        IsFiniteSet(T) /\ SumOver(T, f) = Sums2(f, T) /\ Sums2(f, T) \in Result
  BY FS_Subset, SumOverIs, Sums2Unfold
<1>2. SumOver({}, f) = NoCost
  BY <1>1, Sums2Unfold
<1>3. ASSUME NEW z \in S
      PROVE  SumOver(S, f) = Add(SumOver(S \ {z}, f), f[z])
  <2>1. Sums2(f, S) = Add(f[z], Sums2(f, S \ {z}))
    BY Sums2Unfold
  <2>2. \A a, b \in Result : Add(a, b) = Add(b, a)
    BY DEF Add, Result
  <2>3. S \ {z} \in SUBSET S
    OBVIOUS
  <2> QED BY <1>1, <2>1, <2>2, <2>3
<1> QED BY <1>1, <1>2, <1>3

(* What counts for nothing may be left out.                                *)
LEMMA SumOverPart ==
  ASSUME NEW S, IsFiniteSet(S), NEW T \in SUBSET S, NEW f, NEW g,
         \A x \in S : f[x] \in Result, \A x \in T : g[x] = f[x],
         \A x \in S \ T : f[x] = NoCost
  PROVE  SumOver(S, f) = SumOver(T, g)
<1>1. IsFiniteSet(T) /\ \A x \in T : g[x] \in Result
  BY FS_Subset
<1>2. SumOver(S, f) = Sums2(f, S) /\ SumOver(T, g) = Sums2(g, T)
  BY <1>1, SumOverIs
<1>3. SumFunctionOnSet([x \in S |-> f[x].true_cost], S)
        = SumFunctionOnSet([x \in T |-> g[x].true_cost], T)
  <2> DEFINE a == [x \in S |-> f[x].true_cost]
             b == [x \in T |-> g[x].true_cost]
  <2>1. /\ \A x \in S : a[x] \in Nat
        /\ \A x \in T : b[x] = a[x]
        /\ \A x \in S \ T : a[x] = 0
    BY DEF Result, NoCost
  <2> HIDE DEF a, b
  <2> QED BY <2>1, SumOfPart DEF a, b
<1>4. SumFunctionOnSet([x \in S |-> f[x].precompiled], S)
        = SumFunctionOnSet([x \in T |-> g[x].precompiled], T)
  <2> DEFINE a == [x \in S |-> f[x].precompiled]
             b == [x \in T |-> g[x].precompiled]
  <2>1. /\ \A x \in S : a[x] \in Nat
        /\ \A x \in T : b[x] = a[x]
        /\ \A x \in S \ T : a[x] = 0
    BY DEF Result, NoCost
  <2> HIDE DEF a, b
  <2> QED BY <2>1, SumOfPart DEF a, b
<1> QED BY <1>2, <1>3, <1>4 DEF Sums2

-----------------------------------------------------------------------------
(***************************************************************************)
(* The invariant.  A body has summed what it has left, and what it has     *)
(* left, with what its stack holds up to its slot, is a search of the      *)
(* graph from its source.  The slots above hold what earlier vertices had  *)
(* copied: they say nothing.                                               *)
(***************************************************************************)
Costs == [v \in Vertex |-> CostOf(v)]

(* What the iterator of a body may still come to.                          *)
Pending(b) == {m_stack[b][s] : s \in 1..m_it[b]}

SumOfSource(b) == SumOver(Reachable(input.graph, input.sources[b]), Costs)

(* Nothing is ever written to the first slot, and null is never seen:      *)
(* there is always a slot to stop at.                                      *)
Sentinel == \A b \in Body : m_stack[b][0] = Null

Summed ==
  \A b \in Body : /\ total[b] = SumOver(m_seen[b], Costs)
                  /\ state[b] = "waiting" => m_seen[b] = {}
                  /\ state[b] = "done" =>
                       m_seen[b] = Reachable(input.graph, input.sources[b])

Walks ==
  \A b \in Body : state[b] = "walking" =>
    /\ Search(input.graph, input.sources[b], m_seen[b], Pending(b))
    /\ ~AtEnd(b) => m_stack[b][m_it[b]] \notin m_seen[b]

Collected ==
  \A k \in 1..Cardinality(Vertex) :
    source_cost[k] = IF k \in Body /\ state[k] = "done" THEN total[k] ELSE NoCost

CostInv ==
  /\ TypeOK
  /\ Len(input.sources) <= Cardinality(Vertex)
  /\ Sentinel /\ Summed /\ Walks /\ Collected
  /\ ResultRight

-----------------------------------------------------------------------------
(* What is known of the array, of the input and of the costs.              *)
LEMMA SlotFacts ==
  /\ Cardinality(Vertex) \in Nat
  /\ 0 \in Slot /\ Slot \subseteq Nat
  /\ Vertex # {} => 1 \in Slot
<1>1. Cardinality(Vertex) \in Nat
  BY VertexAssumption, FS_CardinalityType
<1>2. Vertex # {} => Cardinality(Vertex) # 0
  BY VertexAssumption, FS_EmptySet
<1> QED BY <1>1, <1>2 DEF Slot

LEMMA InputParts ==
  ASSUME input \in Input
  PROVE  /\ input.graph \in AdjacencyList
         /\ Len(input.sources) \in Nat /\ Body = 1..Len(input.sources)
         /\ \A b \in Body : input.sources[b] \in Vertex
         /\ \A v \in Vertex : CostOf(v) \in Result
<1>1. input.sources \in Seq(Vertex) /\ input.graph \in AdjacencyList
      /\ input.underlying_cost \in [Vertex -> Nat]
  BY DEF Input
<1>2. ASSUME NEW v \in Vertex PROVE CostOf(v) \in Result
  <2>1. input.underlying_cost[v] \in Nat
    BY <1>1
  <2> QED BY <2>1 DEF CostOf, NoCost, Result
<1> QED BY <1>1, <1>2 DEF Body

LEMMA CostFacts ==
  ASSUME input \in Input
  PROVE  /\ SumOver({}, Costs) = NoCost
         /\ \A S \in SUBSET Vertex : SumOver(S, Costs) \in Result
         /\ \A S \in SUBSET Vertex : \A v \in Vertex \ S :
              SumOver(S \cup {v}, Costs) = Add(SumOver(S, Costs), CostOf(v))
<1>1. \A v \in Vertex : Costs[v] = CostOf(v) /\ Costs[v] \in Result
  BY InputParts DEF Costs
<1> HIDE DEF Costs
<1>2. \A S \in SUBSET Vertex : IsFiniteSet(S) /\ \A x \in S : Costs[x] \in Result
  BY <1>1, VertexAssumption, FS_Subset
<1>3. /\ \A S \in SUBSET Vertex : SumOver(S, Costs) \in Result
      /\ SumOver({}, Costs) = NoCost
  BY <1>2, SumOverFacts
<1>4. ASSUME NEW S \in SUBSET Vertex, NEW v \in Vertex \ S
      PROVE  SumOver(S \cup {v}, Costs) = Add(SumOver(S, Costs), CostOf(v))
  <2>1. PICK T \in SUBSET Vertex : T = S \cup {v}
    OBVIOUS
  <2>2. T \ {v} = S /\ v \in T
    BY <2>1
  <2>3. SumOver(T, Costs) = Add(SumOver(T \ {v}, Costs), Costs[v])
    BY <1>2, <2>2, SumOverFacts
  <2> QED BY <1>1, <2>1, <2>2, <2>3
<1> QED BY <1>3, <1>4

LEMMA CostSame ==
  ASSUME input' = input
  PROVE  /\ \A S : SumOver(S, Costs)' = SumOver(S, Costs)
         /\ Body' = Body
<1>1. \A v : CostOf(v)' = CostOf(v)
  BY DEF CostOf
<1>2. Costs' = Costs
  BY <1>1 DEF Costs
<1> QED BY <1>2 DEF SumOver, Body

LEMMA ResultRightAs ==
  /\ ResultRight <=> (r # <<>> => r = SumOver(Body, [b \in Body |-> SumOfSource(b)]))
  /\ input' = input =>
       (ResultRight' <=>
          (r' # <<>> => r' = SumOver(Body, [b \in Body |-> SumOfSource(b)])))
<1>1. ResultRight <=> (r # <<>> => r = SumOver(Body, [b \in Body |-> SumOfSource(b)]))
  BY DEF ResultRight, SumOfSource, Costs
<1>2. ASSUME input' = input
      PROVE  ResultRight' <=>
               (r' # <<>> => r' = SumOver(Body, [b \in Body |-> SumOfSource(b)]))
  <2>1. ResultRight' <=>
          (r' # <<>> => r' = SumOver(Body', [b \in Body' |-> SumOfSource(b)']))
    BY DEF ResultRight, SumOfSource, Costs, SumOver
  <2>2. \A b : SumOfSource(b)' = SumOfSource(b)
    BY <1>2, CostSame DEF SumOfSource
  <2> QED BY <1>2, <2>1, <2>2, CostSame
<1> QED BY <1>1, <1>2

-----------------------------------------------------------------------------
(* The invariant holds at first, and every step keeps it.                  *)
LEMMA CostInit ==
  ASSUME Init
  PROVE  CostInv
<1>1. input \in Input /\ Len(input.sources) <= Cardinality(Vertex)
  BY InputsAssumption, SourcesAssumption DEF Init
<1>2. NoCost \in Result
  BY DEF NoCost, Result
<1>3. TypeOK
  BY <1>1, <1>2, SlotFacts DEF Init, TypeOK
<1>4. Sentinel
  BY SlotFacts DEF Init, Sentinel
<1>5. Summed
  BY <1>1, CostFacts DEF Init, Summed
<1>6. Walks /\ Collected
  BY DEF Init, Walks, Collected
<1>7. ResultRight
  BY DEF Init, ResultRight
<1> QED BY <1>1, <1>3, <1>4, <1>5, <1>6, <1>7 DEF CostInv

LEMMA BeginKeeps ==
  ASSUME CostInv, NEW b \in Body, begin(b)
  PROVE  CostInv'
<1> USE DEF CostInv, begin
<1> DEFINE s == input.sources[b]
<1>1. input' = input /\ Body' = Body /\ s \in Vertex /\ 1 \in Slot /\ 0 \in Slot
  BY CostSame, InputParts, SlotFacts DEF TypeOK
<1>2. /\ m_stack[b] \in [Slot -> Vertex \cup {Null}]
      /\ m_stack' = [m_stack EXCEPT ![b] = [m_stack[b] EXCEPT ![1] = s]]
      /\ m_stack \in [Body -> [Slot -> Vertex \cup {Null}]]
  BY DEF TypeOK
<1>3. m_stack' \in [Body -> [Slot -> Vertex \cup {Null}]]
      /\ m_stack'[b] = [m_stack[b] EXCEPT ![1] = s]
      /\ \A c \in Body \ {b} : m_stack'[c] = m_stack[c]
  BY <1>1, <1>2
<1>4. TypeOK'
  BY <1>1, <1>3 DEF TypeOK
<1>5. Sentinel'
  BY <1>1, <1>2, <1>3 DEF Sentinel
<1>6. state \in [Body -> {"waiting", "walking", "done"}] /\ m_it \in [Body -> Slot]
  BY DEF TypeOK
<1>7. Summed'
  BY <1>1, <1>6, CostSame DEF Summed
<1>8. Walks'
  <2>1. SUFFICES ASSUME NEW c \in Body, state'[c] = "walking"
                 PROVE  /\ Search(input.graph, input.sources[c], m_seen[c], Pending(c)')
                        /\ ~AtEnd(c)' => m_stack'[c][m_it'[c]] \notin m_seen[c]
    BY <1>1 DEF Walks
  <2>2. CASE c = b
    <3>1. Pending(b)' = {s} /\ m_seen[b] = {} /\ m_it'[b] = 1
      BY <1>1, <1>2, <1>3, <1>6 DEF Pending, Summed
    <3> HIDE DEF s
    <3>2. Search(input.graph, s, {}, {s})
      BY <1>1, InputParts, SearchStarts DEF TypeOK
    <3> QED BY <2>2, <3>1, <3>2 DEF s
  <2>3. CASE c # b
    <3>1. state[c] = "walking" /\ m_it'[c] = m_it[c] /\ m_stack'[c] = m_stack[c]
      BY <1>3, <1>6, <2>1, <2>3
    <3>2. Pending(c)' = Pending(c) /\ (AtEnd(c)' <=> AtEnd(c))
      BY <3>1 DEF Pending, AtEnd
    <3> QED BY <3>1, <3>2 DEF Walks
  <2> QED BY <2>2, <2>3
<1>9. Collected'
  <2>1. state[b] = "waiting" /\ state' = [state EXCEPT ![b] = "walking"]
    OBVIOUS
  <2>2. UNCHANGED <<source_cost, total>>
    OBVIOUS
  <2>3. \A k \in Body : state'[k] = "done" <=> state[k] = "done"
    BY <1>6, <2>1
  <2> QED BY <1>1, <2>2, <2>3 DEF Collected
<1>10. ResultRight'
  BY <1>1, ResultRightAs
<1> QED BY <1>1, <1>4, <1>5, <1>7, <1>8, <1>9, <1>10

\* The iterator's next slot: the sentinel's is always unseen.
LEMMA NextUnseenExists ==
  ASSUME NEW stack, NEW last \in Nat, NEW seen, stack[0] \notin seen
  PROVE  LET s == NextUnseen(stack, last, seen) IN
         /\ s \in 0..last /\ stack[s] \notin seen
         /\ \A t \in (s + 1)..last : stack[t] \in seen
<1> DEFINE Above == {last - s : s \in {t \in 0..last : stack[t] \notin seen}}
<1>1. PICK n \in Above : \A m \in Above : n <= m
  <2>1. last - 0 \in Above
    BY 0 \in 0..last
  <2>2. Above \in SUBSET Nat
    OBVIOUS
  <2> HIDE DEF Above
  <2> QED BY <2>1, <2>2, Least
<1>2. PICK s \in 0..last : stack[s] \notin seen /\ n = last - s
  OBVIOUS
<1>3. ASSUME NEW t \in (s + 1)..last
      PROVE  stack[t] \in seen
  <2>1. t \in 0..last /\ last - t < last - s
    OBVIOUS
  <2>2. last - t \notin Above
    <3>1. last \in Int /\ t \in Int /\ s \in Int
      OBVIOUS
    <3> HIDE DEF Above
    <3> QED BY <1>1, <1>2, <2>1, <3>1
  <2> QED BY <2>1, <2>2
<1>4. \E u \in 0..last :
        stack[u] \notin seen /\ \A t \in (u + 1)..last : stack[t] \in seen
  BY <1>2, <1>3
<1> QED BY <1>4 DEF NextUnseen

(* operator++: what it copies over is the vertex it leaves, and what was   *)
(* popped before.                                                          *)
LEMMA VisitKeeps ==
  ASSUME CostInv, NEW b \in Body, Visit(b)
  PROVE  CostInv'
<1> USE DEF CostInv
<1> DEFINE g == input.graph
           src == input.sources[b]
<1>1. PICK v \in Vertex :
        LET seen == m_seen[b] \cup {v}
            stack == Copied(b, v, First(b)) IN
        /\ state[b] = "walking"
        /\ ~AtEnd(b)
        /\ v = m_stack[b][m_it[b]]
        /\ LastCopied(b, v) \in Slot
        /\ total' = [total EXCEPT ![b] = Add(@, CostOf(v))]
        /\ m_seen' = [m_seen EXCEPT ![b] = seen]
        /\ m_stack' = [m_stack EXCEPT ![b] = stack]
        /\ m_it' = [m_it EXCEPT ![b] = NextUnseen(stack, LastCopied(b, v), seen)]
        /\ UNCHANGED <<input, state, source_cost, r>>
  BY DEF Visit
<1>2. PICK seen, stack, last, it, len :
        /\ seen = m_seen[b] \cup {v} /\ stack = Copied(b, v, First(b))
        /\ last = LastCopied(b, v) /\ it = m_it[b] /\ len = Len(g[v])
  OBVIOUS
<1>3. /\ state[b] = "walking" /\ it # 0 /\ v = m_stack[b][it] /\ last \in Slot
      /\ total' = [total EXCEPT ![b] = Add(total[b], CostOf(v))]
      /\ m_seen' = [m_seen EXCEPT ![b] = seen]
      /\ m_stack' = [m_stack EXCEPT ![b] = stack]
      /\ m_it' = [m_it EXCEPT ![b] = NextUnseen(stack, last, seen)]
      /\ input' = input /\ state' = state /\ source_cost' = source_cost /\ r' = r
  BY <1>1, <1>2 DEF AtEnd
<1>4. /\ input \in Input /\ state \in [Body -> {"waiting", "walking", "done"}]
      /\ m_stack \in [Body -> [Slot -> Vertex \cup {Null}]] /\ m_it \in [Body -> Slot]
      /\ m_seen \in [Body -> SUBSET Vertex] /\ total \in [Body -> Result]
      /\ Body' = Body
  BY <1>3, CostSame DEF TypeOK
<1>5. /\ g \in AdjacencyList /\ g[v] \in Seq(Vertex) /\ src \in Vertex
      /\ len \in Nat /\ DOMAIN g[v] = 1..len /\ CostOf(v) \in Result
      /\ \A k \in 1..len : g[v][k] \in Vertex
  BY <1>2, <1>4, InputParts DEF AdjacencyList
<1>6. it \in Slot /\ it \in Nat /\ last \in Nat /\ last = it + len - 1 /\ it >= 1
  BY <1>2, <1>3, <1>4, <1>5, SlotFacts DEF LastCopied, First
<1>7. stack = [s \in Slot |-> IF s - it + 1 \in 1..len THEN g[v][s - it + 1]
                              ELSE m_stack[b][s]]
  BY <1>2, <1>5 DEF Copied, First
<1>8. /\ Search(g, src, m_seen[b], Pending(b)) /\ v \notin m_seen[b]
      /\ v \in Pending(b)
  <2>1. it \in 1..m_it[b]
    BY <1>2, <1>6
  <2>2. m_stack[b][it] \in Pending(b)
    BY <2>1 DEF Pending
  <2> QED BY <1>2, <1>3, <2>2 DEF Walks, AtEnd
<1>9. stack \in [Slot -> Vertex \cup {Null}] /\ stack[0] = Null
  <2>1. stack[0] = m_stack[b][0]
    BY <1>6, <1>7, SlotFacts
  <2>2. stack \in [Slot -> Vertex \cup {Null}]
    <3>1. m_stack[b] \in [Slot -> Vertex \cup {Null}]
      BY <1>4
    <3> HIDE DEF g
    <3> QED BY <1>5, <1>7, <3>1
  <2> QED BY <2>1, <2>2 DEF Sentinel
<1>10. PICK nx \in 0..last : /\ nx = NextUnseen(stack, last, seen) /\ nx \in Slot
                             /\ stack[nx] \notin seen
                             /\ \A t \in (nx + 1)..last : stack[t] \in seen
  <2>1. stack[0] \notin seen
    BY <1>2, <1>4, <1>9, NullAssumption
  <2>2. 0..last \subseteq Slot
    BY <1>3, <1>6, SlotFacts DEF Slot
  <2> QED BY <1>6, <2>1, <2>2, NextUnseenExists
\* Everything the iterator may come to: what was below v, and its successors.
<1> DEFINE all == {stack[s] : s \in 1..last}
           left == {stack[s] : s \in 1..nx}
<1>11. /\ all \subseteq Pending(b) \cup ToSet(g[v])
       /\ Pending(b) \cup ToSet(g[v]) \subseteq all \cup {v}
  <2>1. \A s \in 1..(it - 1) : s \in 1..last /\ stack[s] = m_stack[b][s] /\ s \in 1..it
    <3> SUFFICES ASSUME NEW s \in 1..(it - 1)
                 PROVE  s \in 1..last /\ stack[s] = m_stack[b][s] /\ s \in 1..it
      OBVIOUS
    <3>1. s \in 1..last /\ s \in 1..it /\ s - it + 1 \notin 1..len
      BY <1>5, <1>6
    <3>2. s \in Slot
      BY <3>1, <1>3, <1>6, SlotFacts DEF Slot
    <3> QED BY <3>1, <3>2, <1>7
  <2>2. \A k \in 1..len : k + it - 1 \in 1..last /\ stack[k + it - 1] = g[v][k]
    <3> SUFFICES ASSUME NEW k \in 1..len
                 PROVE  k + it - 1 \in 1..last /\ stack[k + it - 1] = g[v][k]
      OBVIOUS
    <3>1. k + it - 1 \in 1..last /\ (k + it - 1) - it + 1 = k
      BY <1>6, <1>5
    <3>2. k + it - 1 \in Slot
      BY <3>1, <1>3, <1>6, SlotFacts DEF Slot
    <3> QED BY <3>1, <3>2, <1>7
  <2>3. \A s \in 1..last : s \in 1..(it - 1) \/ s - it + 1 \in 1..len
    BY <1>5, <1>6
  <2>4. \A s \in 1..it : s = it \/ s \in 1..(it - 1)
    BY <1>6
  <2>5. all \subseteq Pending(b) \cup ToSet(g[v])
    <3> SUFFICES ASSUME NEW s \in 1..last PROVE stack[s] \in Pending(b) \cup ToSet(g[v])
      OBVIOUS
    <3>1. CASE s \in 1..(it - 1)
      BY <1>2, <2>1, <3>1 DEF Pending
    <3>2. CASE s - it + 1 \in 1..len
      <4>1. s \in Slot
        BY <1>3, <1>6, SlotFacts DEF Slot
      <4>2. stack[s] = g[v][s - it + 1]
        BY <1>7, <3>2, <4>1
      <4> QED BY <1>5, <3>2, <4>2 DEF ToSet
    <3> QED BY <2>3, <3>1, <3>2
  <2>6. Pending(b) \subseteq all \cup {v}
    BY <1>2, <1>3, <2>1, <2>4 DEF Pending
  <2>7. ToSet(g[v]) \subseteq all
    <3> SUFFICES ASSUME NEW k \in 1..len PROVE g[v][k] \in all
      BY <1>5 DEF ToSet
    <3> QED BY <2>2
  <2> QED BY <2>5, <2>6, <2>7
<1>12. left \subseteq all /\ all \subseteq left \cup seen
  <2>1. \A s \in 1..nx : s \in 1..last
    BY <1>6
  <2>2. \A s \in 1..last : s \in 1..nx \/ s \in (nx + 1)..last
    BY <1>6
  <2> QED BY <1>10, <2>1, <2>2
<1>13. Search(g, src, seen, left)
  <2>1. Search(g, src, m_seen[b] \cup {v}, all)
    <3>1. Pending(b) \cup ToSet(g[v]) \subseteq all \cup m_seen[b] \cup {v}
      BY <1>11
    <3> HIDE DEF all, g, src
    <3> QED BY <1>5, <1>8, <1>11, <3>1, SearchExpands
  <2> HIDE DEF all, left, g, src
  <2> QED BY <1>2, <1>12, <2>1, SearchSkips
<1>14. /\ m_seen'[b] = seen /\ m_stack'[b] = stack /\ m_it'[b] = nx
       /\ total'[b] = Add(total[b], CostOf(v))
       /\ \A c \in Body \ {b} : /\ m_seen'[c] = m_seen[c] /\ m_stack'[c] = m_stack[c]
                                /\ m_it'[c] = m_it[c] /\ total'[c] = total[c]
  BY <1>3, <1>4, <1>10
<1> HIDE DEF left, all
<1>15. TypeOK'
  <2>1. Add(total[b], CostOf(v)) \in Result
    <3>1. \A x, y \in Result : Add(x, y) \in Result
      BY DEF Add, Result
    <3> QED BY <1>4, <1>5, <3>1
  <2>2. seen \in SUBSET Vertex
    BY <1>2, <1>4
  <2> QED BY <1>3, <1>4, <1>9, <1>10, <2>1, <2>2 DEF TypeOK
<1>16. Sentinel'
  BY <1>4, <1>9, <1>14 DEF Sentinel
<1>17. Summed'
  <2>1. SUFFICES ASSUME NEW c \in Body
                 PROVE  /\ total'[c] = SumOver(m_seen'[c], Costs)
                        /\ state[c] = "waiting" => m_seen'[c] = {}
                        /\ state[c] = "done" =>
                             m_seen'[c] = Reachable(g, input.sources[c])
    BY <1>3, <1>4, CostSame DEF Summed
  <2>2. CASE c = b
    <3>1. SumOver(m_seen[b] \cup {v}, Costs) = Add(SumOver(m_seen[b], Costs), CostOf(v))
      BY <1>4, <1>8, CostFacts
    <3> QED BY <1>2, <1>3, <1>14, <2>2, <3>1 DEF Summed
  <2>3. CASE c # b
    BY <1>14, <2>3 DEF Summed
  <2> QED BY <2>2, <2>3
<1>18. Walks'
  <2>1. SUFFICES ASSUME NEW c \in Body, state[c] = "walking"
                 PROVE  /\ Search(g, input.sources[c], m_seen'[c], Pending(c)')
                        /\ ~AtEnd(c)' => m_stack'[c][m_it'[c]] \notin m_seen'[c]
    BY <1>3, <1>4 DEF Walks
  <2>2. CASE c = b
    <3>1. Pending(b)' = left
      BY <1>14 DEF Pending, left
    <3> QED BY <1>10, <1>13, <1>14, <2>2, <3>1
  <2>3. CASE c # b
    <3>1. Pending(c)' = Pending(c) /\ (AtEnd(c)' <=> AtEnd(c))
      BY <1>14, <2>3 DEF Pending, AtEnd
    <3> QED BY <1>14, <2>1, <2>3, <3>1 DEF Walks
  <2> QED BY <2>2, <2>3
<1>19. Collected'
  <2>1. \A k \in Body : state[k] = "done" => total'[k] = total[k]
    BY <1>3, <1>14
  <2> QED BY <1>3, <1>4, <2>1 DEF Collected
<1>20. ResultRight'
  BY <1>3, ResultRightAs
<1> QED BY <1>3, <1>15, <1>16, <1>17, <1>18, <1>19, <1>20

LEMMA ReturnKeeps ==
  ASSUME CostInv, NEW b \in Body, ReturnTotal(b)
  PROVE  CostInv'
<1> USE DEF CostInv, ReturnTotal
<1>1. /\ Body' = Body /\ b \in 1..Cardinality(Vertex)
      /\ state \in [Body -> {"waiting", "walking", "done"}]
      /\ source_cost \in [1..Cardinality(Vertex) -> Result]
      /\ total[b] \in Result
  <2>1. Body' = Body /\ Body = 1..Len(input.sources) /\ Len(input.sources) \in Nat
    BY CostSame, InputParts DEF TypeOK
  <2>2. Len(input.sources) <= Cardinality(Vertex) /\ Cardinality(Vertex) \in Nat
    BY SlotFacts
  <2>3. b \in 1..Cardinality(Vertex)
    BY <2>1, <2>2
  <2> QED BY <2>1, <2>3 DEF TypeOK
<1>2. TypeOK'
  BY <1>1 DEF TypeOK
<1>3. Sentinel'
  BY <1>1 DEF Sentinel
<1>4. m_seen[b] = Reachable(input.graph, input.sources[b])
  <2>1. Pending(b) = {}
    BY DEF Pending, AtEnd
  <2> QED BY <2>1, SearchEnds DEF Walks
<1>5. Summed'
  BY <1>1, <1>4, CostSame DEF Summed
<1>6. Walks'
  <2>1. SUFFICES ASSUME NEW c \in Body, state'[c] = "walking"
                 PROVE  /\ Search(input.graph, input.sources[c], m_seen[c], Pending(c)')
                        /\ ~AtEnd(c)' => m_stack[c][m_it[c]] \notin m_seen[c]
    BY <1>1 DEF Walks
  <2>2. state[c] = "walking" /\ Pending(c)' = Pending(c) /\ (AtEnd(c)' <=> AtEnd(c))
    BY <1>1, <2>1 DEF Pending, AtEnd
  <2> QED BY <2>2 DEF Walks
<1>7. Collected'
  BY <1>1 DEF Collected
<1>8. ResultRight'
  BY ResultRightAs
<1> QED BY <1>2, <1>3, <1>5, <1>6, <1>7, <1>8

LEMMA ReduceKeeps ==
  ASSUME CostInv, Reduce
  PROVE  CostInv'
<1> USE DEF CostInv, Reduce
<1> DEFINE slots == 1..Cardinality(Vertex)
<1>1. /\ Body' = Body /\ Body \in SUBSET slots
      /\ IsFiniteSet(slots) /\ source_cost \in [slots -> Result]
  <2>1. Body' = Body /\ Body = 1..Len(input.sources) /\ Len(input.sources) \in Nat
    BY CostSame, InputParts DEF TypeOK
  <2>2. Len(input.sources) <= Cardinality(Vertex) /\ Cardinality(Vertex) \in Nat
    BY SlotFacts
  <2>3. Body \in SUBSET slots
    <3> HIDE DEF CostInv, Reduce
    <3> QED BY <2>1, <2>2
  <2>4. IsFiniteSet(slots)
    <3>1. 1 \in Int /\ Cardinality(Vertex) \in Int
      BY <2>2
    <3> QED BY <3>1, FS_Interval
  <2> QED BY <2>1, <2>3, <2>4 DEF TypeOK
<1>2. r' = SumOver(slots, source_cost)
  BY <1>1 DEF FoldFunction, SumOver
<1>3. SumOver(slots, source_cost) = SumOver(Body, [b \in Body |-> SumOfSource(b)])
  <2> DEFINE sums == [b \in Body |-> SumOfSource(b)]
  <2>1. \A k \in Body : sums[k] = source_cost[k]
    BY <1>1 DEF Collected, Summed, SumOfSource
  <2>2. \A k \in slots \ Body : source_cost[k] = NoCost
    BY DEF Collected
  <2> HIDE DEF sums, slots
  <2>3. SumOver(slots, source_cost) = SumOver(Body, sums)
    BY <1>1, <2>1, <2>2, SumOverPart
  <2> QED BY <2>3 DEF sums
<1>4. r' \in Result
  BY <1>1, <1>2, SumOverFacts
<1>5. TypeOK'
  BY <1>1, <1>4 DEF TypeOK
<1>6. Sentinel' /\ Collected'
  BY <1>1 DEF Sentinel, Collected
<1>7. Summed'
  BY <1>1, CostSame DEF Summed
<1>8. Walks'
  BY <1>1 DEF Walks, Pending, AtEnd
<1>9. ResultRight'
  BY <1>2, <1>3, ResultRightAs
<1> QED BY <1>5, <1>6, <1>7, <1>8, <1>9

LEMMA CostUnchanged ==
  ASSUME CostInv, UNCHANGED vars
  PROVE  CostInv'
<1> USE DEF CostInv, vars
<1>1. Body' = Body
  BY CostSame
<1>2. TypeOK' /\ Sentinel' /\ Collected'
  BY <1>1 DEF TypeOK, Sentinel, Collected
<1>3. Summed' /\ Walks'
  <2>1. \A b : Pending(b)' = Pending(b) /\ (AtEnd(b)' <=> AtEnd(b))
    BY DEF Pending, AtEnd
  <2>2. Summed'
    BY <1>1, CostSame DEF Summed
  <2> QED BY <1>1, <2>1, <2>2 DEF Walks
<1>4. ResultRight'
  BY ResultRightAs
<1> QED BY <1>2, <1>3, <1>4

LEMMA CostAlways == Spec => []CostInv
<1>1. Init => CostInv
  BY CostInit
<1>2. CostInv /\ [Next]_vars => CostInv'
  BY BeginKeeps, VisitKeeps, ReturnKeeps, ReduceKeeps, CostUnchanged
  DEF Next, Step, Return
<1> QED BY <1>1, <1>2, PTL DEF Spec

-----------------------------------------------------------------------------
(* The stack, the marks and the sums have their types, whatever the graph  *)
(* and however the bodies interleave.                                      *)
THEOREM Typed == Spec => []TypeOK
<1>1. CostInv => TypeOK
  BY DEF CostInv
<1> QED BY <1>1, CostAlways, PTL

LEMMA InvLosesNothing ==
  ASSUME CostInv
  PROVE  NothingLost
<1> USE DEF CostInv
<1>1. SUFFICES ASSUME NEW b \in Body, state[b] = "walking"
      PROVE /\ ~AtEnd(b) => m_stack[b][m_it[b]] \in Vertex \ m_seen[b]
            /\ \A v \in m_seen[b] :
                 ToSet(input.graph[v]) \subseteq m_seen[b] \cup (Pending(b) \ m_seen[b])
  BY DEF NothingLost, Pending
<1>2. Search(input.graph, input.sources[b], m_seen[b], Pending(b))
  BY <1>1 DEF Walks
<1>3. ASSUME ~AtEnd(b)
      PROVE  m_stack[b][m_it[b]] \in Vertex \ m_seen[b]
  <2>1. m_it[b] \in 1..m_it[b]
    <3>1. m_it[b] \in Slot
      BY DEF TypeOK
    <3>2. m_it[b] \in Nat /\ m_it[b] # 0
      BY <1>3, <3>1, SlotFacts DEF AtEnd
    <3>3. PICK k : k = m_it[b]
      OBVIOUS
    <3>4. k \in Nat /\ k # 0
      BY <3>2, <3>3
    <3>5. k \in 1..k
      <4> HIDE DEF CostInv
      <4> QED BY ONLY <3>4
    <3> QED BY <3>3, <3>5
  <2>2. m_stack[b][m_it[b]] \in Pending(b)
    BY <2>1 DEF Pending
  <2>3. Pending(b) \subseteq Vertex
    BY <1>2 DEF Search, Reachable
  <2> QED BY <1>1, <1>3, <2>2, <2>3 DEF Walks
<1> QED BY <1>2, <1>3 DEF Search

(* dfs.hpp 37-50: no vertex that is still to be visited is lost when the   *)
(* successors of another are copied over the slots that were popped.       *)
THEOREM NothingEverLost == Spec => []NothingLost
<1>1. CostInv => NothingLost
  BY InvLosesNothing
<1> QED BY <1>1, CostAlways, PTL

(* from_graph returns the sums over what each source reaches: every file   *)
(* counts once for each source, also if the graph has cycles, and the      *)
(* bodies may finish in any order.                                         *)
THEOREM SumsRight == Spec => []ResultRight
<1>1. CostInv => ResultRight
  BY DEF CostInv
<1> QED BY <1>1, CostAlways, PTL

-----------------------------------------------------------------------------
(***************************************************************************)
(* The array.  The first file that a file includes takes the slot of the   *)
(* file itself, and each other one a slot more: an iterator is never       *)
(* higher than one slot for its source and these.                          *)
(***************************************************************************)
Others(g) == [v \in Vertex |-> IF Len(g[v]) = 0 THEN 0 ELSE Len(g[v]) - 1]

FewOthers(g) == SumFunctionOnSet(Others(g), Vertex) < Cardinality(Vertex)

Height(b) == 1 + SumFunctionOnSet(Others(input.graph), m_seen[b])

NeverHigher == \A b \in Body : state[b] = "walking" => m_it[b] <= Height(b)

LEMMA OthersFacts ==
  ASSUME NEW g \in AdjacencyList
  PROVE  /\ \A v \in Vertex : Others(g)[v] \in Nat /\ Len(g[v]) \in Nat
         /\ \A v \in Vertex : Len(g[v]) - 1 <= Others(g)[v]
         /\ \A S \in SUBSET Vertex :
              /\ SumFunctionOnSet(Others(g), S) \in Nat
              /\ SumFunctionOnSet(Others(g), S) <= SumFunctionOnSet(Others(g), Vertex)
              /\ \A v \in Vertex \ S :
                   SumFunctionOnSet(Others(g), S \cup {v})
                     = SumFunctionOnSet(Others(g), S) + Others(g)[v]
<1>1. ASSUME NEW v \in Vertex
      PROVE  Others(g)[v] \in Nat /\ Len(g[v]) \in Nat /\ Len(g[v]) - 1 <= Others(g)[v]
  <2>1. g[v] \in Seq(Vertex)
    BY DEF AdjacencyList
  <2>2. PICK len : len = Len(g[v])
    OBVIOUS
  <2>3. len \in Nat
    BY <2>1, <2>2
  <2>4. Others(g)[v] = IF len = 0 THEN 0 ELSE len - 1
    BY <2>2 DEF Others
  <2> QED BY <2>2, <2>3, <2>4
<1> HIDE DEF Others
<1>2. ASSUME NEW S \in SUBSET Vertex
      PROVE  /\ SumFunctionOnSet(Others(g), S) \in Nat
             /\ SumFunctionOnSet(Others(g), S) <= SumFunctionOnSet(Others(g), Vertex)
  <2>1. IsFiniteSet(S) /\ \A v \in S : Others(g)[v] \in Nat
    BY <1>1, VertexAssumption, FS_Subset
  <2> QED BY <1>1, <2>1, VertexAssumption, SumType, SumSubset
<1>3. ASSUME NEW S \in SUBSET Vertex, NEW v \in Vertex \ S
      PROVE  SumFunctionOnSet(Others(g), S \cup {v})
               = SumFunctionOnSet(Others(g), S) + Others(g)[v]
  <2>1. IsFiniteSet(S) /\ v \notin S /\ \A y \in S \cup {v} : Others(g)[y] \in Nat
    BY <1>1, VertexAssumption, FS_Subset
  <2> QED BY <2>1, SumAdd
<1> QED BY <1>1, <1>2, <1>3

(* Where the copy of an iterator that is at a vertex ends.                 *)
LEMMA CopyEnds ==
  ASSUME CostInv, NeverHigher, NEW b \in Body, state[b] = "walking", ~AtEnd(b),
         NEW v, v = m_stack[b][m_it[b]]
  PROVE  /\ v \in Vertex \ m_seen[b]
         /\ LastCopied(b, v) \in Nat
         /\ LastCopied(b, v)
              <= 1 + SumFunctionOnSet(Others(input.graph), m_seen[b] \cup {v})
<1>1. v \in Vertex \ m_seen[b]
  BY InvLosesNothing DEF NothingLost
<1>2. /\ input \in Input /\ m_it \in [Body -> Slot] /\ m_seen[b] \in SUBSET Vertex
  BY DEF CostInv, TypeOK
<1>3. PICK g, it, seen, len :
        g = input.graph /\ it = m_it[b] /\ seen = m_seen[b] /\ len = Len(g[v])
  OBVIOUS
<1>4. g \in AdjacencyList
  BY <1>2, <1>3, InputParts
<1>5. it \in Nat /\ it <= Cardinality(Vertex) /\ it # 0
  BY <1>2, <1>3, SlotFacts DEF AtEnd, Slot
<1>6. PICK o, before, after :
        /\ o = Others(g)[v] /\ before = SumFunctionOnSet(Others(g), seen)
        /\ after = SumFunctionOnSet(Others(g), seen \cup {v})
  OBVIOUS
<1>7. o \in Nat /\ len \in Nat /\ before \in Nat /\ len - 1 <= o /\ after = before + o
  BY <1>1, <1>2, <1>3, <1>4, <1>6, OthersFacts
<1>8. it <= 1 + before
  BY <1>3, <1>6 DEF NeverHigher, Height
<1>9. LastCopied(b, v) = it + len - 1
  BY <1>3 DEF LastCopied, First
<1>10. it + len - 1 \in Nat /\ it + len - 1 <= 1 + after
  BY <1>5, <1>7, <1>8
<1> QED BY <1>1, <1>3, <1>5, <1>6, <1>9, <1>10

LEMMA NeverHigherStep ==
  ASSUME CostInv, NeverHigher, [Next]_vars
  PROVE  NeverHigher'
<1>1. ASSUME NEW b \in Body, begin(b)
      PROVE  NeverHigher'
  <2> USE <1>1 DEF begin
  <2>1. Body' = Body /\ \A c \in Body : Height(c)' = Height(c)
    BY CostSame DEF Height
  <2>2. /\ m_it \in [Body -> Slot] /\ state \in [Body -> {"waiting", "walking", "done"}]
        /\ m_seen[b] \in SUBSET Vertex /\ input.graph \in AdjacencyList
    BY InputParts DEF CostInv, TypeOK
  <2>3. 1 <= Height(b)
    <3>1. SumFunctionOnSet(Others(input.graph), m_seen[b]) \in Nat
      BY <2>2, OthersFacts
    <3> QED BY <3>1 DEF Height
  <2> QED BY <2>1, <2>2, <2>3 DEF NeverHigher
<1>2. ASSUME NEW b \in Body, Visit(b)
      PROVE  NeverHigher'
  <2>1. PICK v \in Vertex :
          LET seen == m_seen[b] \cup {v}
              stack == Copied(b, v, First(b)) IN
          /\ state[b] = "walking"
          /\ ~AtEnd(b)
          /\ v = m_stack[b][m_it[b]]
          /\ LastCopied(b, v) \in Slot
          /\ m_seen' = [m_seen EXCEPT ![b] = seen]
          /\ m_it' = [m_it EXCEPT ![b] = NextUnseen(stack, LastCopied(b, v), seen)]
          /\ UNCHANGED <<input, state>>
    BY <1>2 DEF Visit
  <2>2. PICK seen, stack, last :
          /\ seen = m_seen[b] \cup {v} /\ stack = Copied(b, v, First(b))
          /\ last = LastCopied(b, v)
    OBVIOUS
  <2>3. /\ m_seen' = [m_seen EXCEPT ![b] = seen] /\ state' = state /\ input' = input
        /\ m_it' = [m_it EXCEPT ![b] = NextUnseen(stack, last, seen)]
        /\ Body' = Body
    BY <2>1, <2>2, CostSame
  <2>4. /\ m_it \in [Body -> Slot] /\ m_seen \in [Body -> SUBSET Vertex]
        /\ input.graph \in AdjacencyList
    BY InputParts DEF CostInv, TypeOK
  <2>5. /\ v \in Vertex \ m_seen[b] /\ last \in Nat
        /\ last <= 1 + SumFunctionOnSet(Others(input.graph), seen)
    BY <2>1, <2>2, CopyEnds
  <2>6. NextUnseen(stack, last, seen) \in 0..last
    <3>1. stack[0] = m_stack[b][0]
      <4>1. m_it[b] \in Nat /\ m_it[b] # 0
        BY <2>1, <2>4, SlotFacts DEF AtEnd
      <4>2. 0 - m_it[b] + 1 \notin DOMAIN input.graph[v]
        <5>1. input.graph[v] \in Seq(Vertex)
          BY <2>1, <2>4 DEF AdjacencyList
        <5>2. DOMAIN input.graph[v] = 1..Len(input.graph[v])
          BY <5>1
        <5>3. PICK it : it = m_it[b]
          OBVIOUS
        <5>4. it \in Nat /\ it # 0
          BY <4>1, <5>3
        <5>5. 0 - it + 1 <= 0
          BY <5>4
        <5> QED BY <5>2, <5>3, <5>4, <5>5
      <4> QED BY <2>2, <4>2, SlotFacts DEF Copied, First
    <3>2. stack[0] \notin seen
      BY <2>2, <2>1, <2>4, <3>1, NullAssumption DEF CostInv, Sentinel
    <3> QED BY <2>5, <3>2, NextUnseenExists
  <2>7. SUFFICES ASSUME NEW c \in Body, state[c] = "walking"
                 PROVE  m_it'[c] <= Height(c)'
    BY <2>3 DEF NeverHigher
  <2>8. CASE c = b
    <3>1. PICK nx, sum : /\ nx = NextUnseen(stack, last, seen)
                         /\ sum = SumFunctionOnSet(Others(input.graph), seen)
      OBVIOUS
    <3>2. sum \in Nat
      BY <2>1, <2>2, <2>4, <3>1, OthersFacts
    <3>3. nx <= 1 + sum
      BY <2>5, <2>6, <3>1, <3>2
    <3> QED BY <2>3, <2>4, <2>8, <3>1, <3>3 DEF Height
  <2>9. CASE c # b
    <3>1. m_it'[c] = m_it[c] /\ m_seen'[c] = m_seen[c]
      BY <2>3, <2>4, <2>9
    <3>2. Height(c)' = Height(c)
      BY <2>3, <3>1 DEF Height
    <3> QED BY <2>7, <3>1, <3>2 DEF NeverHigher
  <2> QED BY <2>8, <2>9
<1>3. ASSUME NEW b \in Body, ReturnTotal(b)
      PROVE  NeverHigher'
  <2>1. /\ Body' = Body /\ \A c \in Body : Height(c)' = Height(c)
        /\ state' = [state EXCEPT ![b] = "done"] /\ m_it' = m_it
        /\ state \in [Body -> {"waiting", "walking", "done"}]
    BY <1>3, CostSame DEF ReturnTotal, Height, CostInv, TypeOK
  <2> QED BY <2>1 DEF NeverHigher
<1>4. ASSUME UNCHANGED <<input, state, m_it, m_seen>>
      PROVE  NeverHigher'
  <2>1. Body' = Body /\ \A c \in Body : Height(c)' = Height(c)
    BY <1>4, CostSame DEF Height
  <2> QED BY <1>4, <2>1 DEF NeverHigher
<1> QED BY <1>1, <1>2, <1>3, <1>4 DEF Next, Step, Reduce, Return, vars

LEMMA NeverHigherFits ==
  ASSUME CostInv, NeverHigher, FewOthers(input.graph)
  PROVE  StackFits
<1>1. SUFFICES ASSUME NEW b \in Body, state[b] = "walking", ~AtEnd(b)
               PROVE  LastCopied(b, m_stack[b][m_it[b]]) \in Slot
  BY DEF StackFits
<1>2. PICK v : v = m_stack[b][m_it[b]]
  OBVIOUS
<1>3. PICK last, seen, all, n :
        /\ last = LastCopied(b, v) /\ seen = m_seen[b] \cup {v}
        /\ all = SumFunctionOnSet(Others(input.graph), Vertex) /\ n = Cardinality(Vertex)
  OBVIOUS
<1>4. /\ v \in Vertex \ m_seen[b] /\ last \in Nat
      /\ last <= 1 + SumFunctionOnSet(Others(input.graph), seen)
  BY <1>1, <1>2, <1>3, CopyEnds
<1>5. /\ input.graph \in AdjacencyList /\ m_seen[b] \in SUBSET Vertex
  BY InputParts DEF CostInv, TypeOK
<1>6. seen \in SUBSET Vertex
  BY <1>3, <1>4, <1>5
<1>7. PICK sum : sum = SumFunctionOnSet(Others(input.graph), seen)
  OBVIOUS
<1>8. sum \in Nat /\ all \in Nat /\ sum <= all /\ all < n /\ n \in Nat
  BY <1>3, <1>5, <1>6, <1>7, OthersFacts, SlotFacts DEF FewOthers
<1>9. last \in 0..n
  BY <1>4, <1>7, <1>8
<1> QED BY <1>2, <1>3, <1>9 DEF Slot

(* dfs.hpp 67-90: operator++ copies within the array if the includes of    *)
(* the files beyond the first of each are fewer than the files.  The run   *)
(* dag_stack shows a graph that has as many, and leaves the array.         *)
THEOREM StackFitsFewIncludes == Spec /\ FewOthers(input.graph) => []StackFits
<1>1. Init => NeverHigher
  BY DEF Init, NeverHigher
<1>2. CostInv /\ NeverHigher /\ [Next]_vars => NeverHigher'
  BY NeverHigherStep
<1>3. FewOthers(input.graph) /\ [Next]_vars => FewOthers(input.graph)'
  BY DEF FewOthers, Next, Step, begin, Visit, ReturnTotal, Reduce, Return, vars
<1>4. CostInv /\ NeverHigher /\ FewOthers(input.graph) => StackFits
  BY NeverHigherFits
<1> QED BY <1>1, <1>2, <1>3, <1>4, CostAlways, PTL DEF Spec
=============================================================================
