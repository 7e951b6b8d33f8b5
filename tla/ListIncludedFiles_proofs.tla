---------------------- MODULE ListIncludedFiles_proofs ----------------------
(***************************************************************************)
(* list_included_files counts right for every graph, every list of sources *)
(* and every interleaving of the bodies of its parallel loop.              *)
(***************************************************************************)
EXTENDS ListIncludedFiles, IncludeDigraph_proofs, FiniteSetTheorems, TLAPS

\* What a search keeps true of the vertices it has seen and its stack.
Found(b) == seen[b] \cup ToSet(stack[b])

RowInvariant(b) ==
  /\ Found(b) \subseteq Reachable(input.graph, input.sources[b])
  /\ IF state[b] = "waiting" THEN stack[b] = <<>> /\ seen[b] = {}
     ELSE input.sources[b] \in Found(b)
  /\ \A u \in seen[b] : ToSet(input.graph[u]) \subseteq Found(b)
  /\ state[b] = "done" => stack[b] = <<>>

SearchInvariant == \A b \in Body : RowInvariant(b)

-----------------------------------------------------------------------------
LEMMA BodyFinite ==
  ASSUME TypeOK
  PROVE  /\ IsFiniteSet(Body)
         /\ \A b \in Body : input.sources[b] \in Vertex
         /\ input.graph \in AdjacencyList
<1>1. input.sources \in Seq(Vertex) /\ input.graph \in AdjacencyList
  BY DEF TypeOK
<1>2. Body = 1..Len(input.sources) /\ Len(input.sources) \in Nat
  BY <1>1 DEF Body
<1>3. IsFiniteSet(Body)
  BY <1>2, FS_Interval
<1> QED BY <1>1, <1>2, <1>3

(* What is on top of a stack, and what is left below.                      *)
LEMMA Popped ==
  ASSUME TypeOK, NEW b \in Body, NEW v, Popping(b, v)
  PROVE  /\ v \in Vertex /\ Front(stack[b]) \in Seq(Vertex)
         /\ ToSet(stack[b]) = {v} \cup ToSet(Front(stack[b]))
         /\ input.graph[v] \in Seq(Vertex)
         /\ Front(stack[b]) \o input.graph[v] \in Seq(Vertex)
         /\ ToSet(Front(stack[b]) \o input.graph[v]) =
              ToSet(Front(stack[b])) \cup ToSet(input.graph[v])
<1>1. stack[b] \in Seq(Vertex) /\ stack[b] # <<>> /\ v = Last(stack[b])
  BY DEF TypeOK, Popping
<1>2. /\ v \in Vertex /\ Front(stack[b]) \in Seq(Vertex)
      /\ ToSet(stack[b]) = {v} \cup ToSet(Front(stack[b]))
  BY <1>1, LastInSeq
<1>3. input.graph[v] \in Seq(Vertex)
  BY <1>2, BodyFinite DEF AdjacencyList
<1> QED BY <1>2, <1>3, ConcatInSeq

(* The state of the loop keeps its types.                                  *)
THEOREM TypeCorrect == Spec => []TypeOK
<1>1. Init => TypeOK
  BY InputsAssumption DEF Init, TypeOK, Body
<1>2. TypeOK /\ [Next]_vars => TypeOK'
  <2> SUFFICES ASSUME TypeOK, [Next]_vars PROVE TypeOK'
    OBVIOUS
  <2>1. CASE UNCHANGED vars
    BY <2>1 DEF vars, TypeOK, Body
  <2>2. CASE Collect
    BY <2>2 DEF Collect, TypeOK, Body
  <2>3. ASSUME NEW b \in Body, Start(b) PROVE TypeOK'
    BY <2>3, BodyFinite DEF Start, TypeOK, Body
  <2>4. ASSUME NEW b \in Body, Skip(b) PROVE TypeOK'
    BY <2>4, Popped DEF Skip, TypeOK, Body
  <2>5. ASSUME NEW b \in Body, Visit(b) PROVE TypeOK'
    BY <2>5, Popped DEF Visit, TypeOK, Body
  <2>6. ASSUME NEW b \in Body, Done(b) PROVE TypeOK'
    BY <2>6 DEF Done, TypeOK, Body
  <2> QED BY <2>1, <2>2, <2>3, <2>4, <2>5, <2>6 DEF Next, Return, Step
<1> QED BY <1>1, <1>2, PTL DEF Spec

-----------------------------------------------------------------------------
(* No update of a counter is lost or made twice.                           *)
THEOREM CountersExact == Spec => []Counted
<1>1. Init => Counted
  <2> SUFFICES ASSUME Init, NEW v \in Vertex
               PROVE  count[v] = Cardinality(SeenBy(v))
    BY DEF Counted
  <2>1. SeenBy(v) = {}
    BY DEF Init, SeenBy
  <2> QED BY <2>1, FS_EmptySet DEF Init
<1>2. TypeOK /\ Counted /\ [Next]_vars => Counted'
  <2> SUFFICES ASSUME TypeOK, Counted, [Next]_vars, NEW v \in Vertex
               PROVE  count'[v] = Cardinality(SeenBy(v)')
    BY DEF Counted
  <2>1. count[v] = Cardinality(SeenBy(v)) /\ count[v] \in Nat
    BY DEF Counted, TypeOK
  <2>2. ASSUME UNCHANGED <<count, seen, input>>
        PROVE  count'[v] = Cardinality(SeenBy(v)')
    <3>1. SeenBy(v)' = SeenBy(v)
      BY <2>2 DEF SeenBy, Body
    <3> QED BY <2>1, <2>2, <3>1
  <2>3. ASSUME NEW b \in Body, Visit(b)
        PROVE  count'[v] = Cardinality(SeenBy(v)')
    <3>1. PICK u \in Vertex \ seen[b] : /\ seen' = [seen EXCEPT ![b] = @ \cup {u}]
                                        /\ count' = [count EXCEPT ![u] = @ + 1]
                                        /\ input' = input
      BY <2>3 DEF Visit
    <3>2. CASE u # v
      <4>1. SeenBy(v)' = SeenBy(v) /\ count'[v] = count[v]
        BY <3>1, <3>2 DEF SeenBy, Body, TypeOK
      <4> QED BY <4>1, <2>1
    <3>3. CASE u = v
      <4>1. SeenBy(v)' = SeenBy(v) \cup {b} /\ b \notin SeenBy(v)
        BY <3>1, <3>3 DEF SeenBy, Body, TypeOK
      <4>2. IsFiniteSet(SeenBy(v))
        BY BodyFinite, FS_Subset DEF SeenBy
      <4>3. Cardinality(SeenBy(v) \cup {b}) = Cardinality(SeenBy(v)) + 1
        BY <4>1, <4>2, FS_AddElement
      <4>4. count'[v] = count[v] + 1
        BY <3>1, <3>3 DEF TypeOK
      <4> QED BY <2>1, <4>1, <4>3, <4>4
    <3> QED BY <3>2, <3>3
  <2> QED BY <2>2, <2>3
          DEF Next, Collect, Return, Step, Start, Skip, Done, vars
<1> QED BY <1>1, <1>2, TypeCorrect, PTL DEF Spec

-----------------------------------------------------------------------------
(* A step of one body leaves the search of the others alone.               *)
LEMMA OtherRows ==
  ASSUME TypeOK, NEW b \in Body, Step(b), NEW c \in Body, c # b,
         RowInvariant(c)
  PROVE  RowInvariant(c)'
<1>1. UNCHANGED <<input, state[c], stack[c], seen[c]>>
  BY DEF TypeOK, Step, Start, Skip, Visit, Done
<1> QED BY <1>1 DEF RowInvariant, Found

LEMMA StartKeepsRow ==
  ASSUME TypeOK, NEW b \in Body, Start(b), RowInvariant(b)
  PROVE  RowInvariant(b)'
<1>1. /\ input' = input /\ state'[b] = "searching"
      /\ stack'[b] = <<input.sources[b]>> /\ seen'[b] = {}
  BY DEF TypeOK, Start, RowInvariant
<1>2. Found(b)' = {input.sources[b]}
  BY <1>1, SingletonQueue DEF Found
<1> QED BY <1>1, <1>2, ReachesItself, BodyFinite DEF RowInvariant

LEMMA SkipKeepsRow ==
  ASSUME TypeOK, NEW b \in Body, Skip(b), RowInvariant(b)
  PROVE  RowInvariant(b)'
<1>1. PICK v \in seen[b] : Popping(b, v) /\ stack' = [stack EXCEPT ![b] = Front(@)]
  BY DEF Skip
<1>2. /\ UNCHANGED <<input, state[b], seen[b]>>
      /\ state[b] = "searching" /\ stack'[b] = Front(stack[b])
  BY <1>1 DEF Skip, Popping, TypeOK
<1>3. Found(b)' = Found(b)
  BY <1>1, <1>2, Popped DEF Found
<1> QED BY <1>2, <1>3 DEF RowInvariant

LEMMA VisitKeepsRow ==
  ASSUME TypeOK, NEW b \in Body, Visit(b), RowInvariant(b)
  PROVE  RowInvariant(b)'
<1> DEFINE g == input.graph
           s == input.sources[b]
<1>1. PICK v \in Vertex \ seen[b] :
        /\ Popping(b, v)
        /\ seen' = [seen EXCEPT ![b] = @ \cup {v}]
        /\ stack' = [stack EXCEPT ![b] = Front(@) \o g[v]]
  BY DEF Visit
<1>2. /\ UNCHANGED <<input, state[b]>> /\ state[b] = "searching"
      /\ seen'[b] = seen[b] \cup {v} /\ stack'[b] = Front(stack[b]) \o g[v]
  BY <1>1 DEF Visit, Popping, TypeOK
<1>3. /\ ToSet(stack[b]) = {v} \cup ToSet(Front(stack[b]))
      /\ ToSet(stack'[b]) = ToSet(Front(stack[b])) \cup ToSet(g[v])
  <2>1. ToSet(Front(stack[b]) \o g[v]) = ToSet(Front(stack[b])) \cup ToSet(g[v])
    BY <1>1, Popped
  <2>2. ToSet(stack[b]) = {v} \cup ToSet(Front(stack[b]))
    BY <1>1, Popped
  <2> QED BY <1>2, <2>1, <2>2
<1>4. Found(b)' = Found(b) \cup ToSet(g[v])
  BY <1>2, <1>3 DEF Found
<1>5. v \in Found(b)
  BY <1>3 DEF Found
<1>6. Found(b)' \subseteq Reachable(g, s)
  <2>1. v \in Reachable(g, s) /\ Found(b) \subseteq Reachable(g, s)
    BY <1>5 DEF RowInvariant
  <2>2. ToSet(g[v]) \subseteq Reachable(g, s)
    BY <2>1, ReachesSuccessors, BodyFinite
  <2> QED BY <2>1, <2>2, <1>4
<1> QED BY <1>2, <1>4, <1>6 DEF RowInvariant

LEMMA DoneKeepsRow ==
  ASSUME TypeOK, NEW b \in Body, Done(b), RowInvariant(b)
  PROVE  RowInvariant(b)'
<1>1. /\ UNCHANGED <<input, stack[b], seen[b]>>
      /\ state[b] = "searching" /\ state'[b] = "done" /\ stack[b] = <<>>
  BY DEF TypeOK, Done
<1> QED BY <1>1 DEF RowInvariant, Found

LEMMA SearchCorrect == Spec => []SearchInvariant
<1>1. Init => SearchInvariant
  BY SingletonQueue DEF Init, SearchInvariant, RowInvariant, Found
<1>2. TypeOK /\ SearchInvariant /\ [Next]_vars => SearchInvariant'
  <2> SUFFICES ASSUME TypeOK, SearchInvariant, [Next]_vars
               PROVE  SearchInvariant'
    OBVIOUS
  <2>1. CASE UNCHANGED vars \/ Collect
    BY <2>1 DEF vars, Collect, SearchInvariant, RowInvariant, Found, Body
  <2>2. ASSUME NEW b \in Body, Step(b), NEW c \in Body
        PROVE  RowInvariant(c)'
    <3>1. CASE c # b
      BY <2>2, <3>1, OtherRows DEF SearchInvariant
    <3>2. CASE c = b
      BY <2>2, <3>2, StartKeepsRow, SkipKeepsRow, VisitKeepsRow, DoneKeepsRow
      DEF Step, SearchInvariant
    <3> QED BY <3>1, <3>2
  <2>3. ASSUME NEW b \in Body, Step(b) PROVE Body' = Body
    BY <2>3 DEF Body, Step, Start, Skip, Visit, Done
  <2> QED BY <2>1, <2>2, <2>3 DEF Next, Return, SearchInvariant
<1> QED BY <1>1, <1>2, TypeCorrect, PTL DEF Spec

(* A search that has ended has seen what its source reaches.               *)
LEMMA SearchedAll ==
  ASSUME TypeOK, SearchInvariant, NEW b \in Body, state[b] = "done"
  PROVE  seen[b] = Reachable(input.graph, input.sources[b])
<1>1. RowInvariant(b)
  BY DEF SearchInvariant
<1>2. Found(b) = seen[b] /\ input.sources[b] \in seen[b]
  BY <1>1, SingletonQueue DEF RowInvariant, Found
<1>3. Closed(input.graph, seen[b]) /\ seen[b] \in SUBSET Vertex
  BY <1>1, <1>2 DEF RowInvariant, Closed, TypeOK
<1>4. Reachable(input.graph, input.sources[b]) \subseteq seen[b]
  BY <1>2, <1>3, ReachesOnlyClosed
<1> QED BY <1>1, <1>2, <1>4 DEF RowInvariant

(* What from_graph returns: for every file, the number of sources it is    *)
(* included in, directly or not.                                           *)
THEOREM ResultCounts == Spec => []ResultRight
<1> DEFINE Inv == r # <<>> => r = count /\ Searched
<1>1. Init => Inv
  BY DEF Init
<1>2. TypeOK /\ Inv /\ [Next]_vars => Inv'
  <2> SUFFICES ASSUME TypeOK, Inv, [Next]_vars PROVE Inv'
    OBVIOUS
  <2>1. CASE UNCHANGED vars \/ Collect
    BY <2>1 DEF vars, Collect, Searched, Body
  <2>2. ASSUME NEW b \in Body, Step(b) PROVE Inv'
    <3>1. r' = r /\ state[b] # "done"
      BY <2>2 DEF Step, Start, Skip, Visit, Done, Popping
    <3> QED BY <3>1 DEF Searched
  <2> QED BY <2>1, <2>2 DEF Next, Return
<1>3. TypeOK /\ SearchInvariant /\ Counted /\ Inv => ResultRight
  <2> SUFFICES ASSUME TypeOK, SearchInvariant, Counted, Inv, r # <<>>,
                      NEW v \in Vertex
               PROVE  r[v] = Cardinality(ReachedBy(v))
    BY DEF ResultRight
  <2>1. r[v] = Cardinality(SeenBy(v)) /\ \A b \in Body : state[b] = "done"
    BY DEF Counted, Searched
  <2>2. SeenBy(v) = ReachedBy(v)
    BY <2>1, SearchedAll DEF SeenBy, ReachedBy
  <2> QED BY <2>1, <2>2
<1> QED BY <1>1, <1>2, <1>3, TypeCorrect, SearchCorrect, CountersExact, PTL
        DEF Spec
=============================================================================
