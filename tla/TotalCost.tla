------------------------------ MODULE TotalCost ------------------------------
(***************************************************************************)
(* get_total_cost::from_graph: a parallel transform over the sources, each *)
(* of which walks the graph with the dag_iterator of dfs.hpp and sums what *)
(* it sees.  The iterator keeps its stack in an array with one slot more   *)
(* than the graph has vertices, whose bounds it never checks.              *)
(***************************************************************************)
EXTENDS Integers, FiniteSets, IncludeDigraph

CONSTANTS
  Inputs,    \* what from_graph may be called with
  Null       \* null_vertex(), which is -1: it is never marked as seen

Input == [graph : AdjacencyList, sources : Seq(Vertex),
          underlying_cost : [Vertex -> Nat], is_precompiled : SUBSET Vertex]

ASSUME VertexAssumption == IsFiniteSet(Vertex)
ASSUME InputsAssumption == Inputs \subseteq Input

\* The results have a slot for each vertex, and are written at the position of
\* each source.
ASSUME SourcesAssumption == \A in \in Inputs : Len(in.sources) <= Cardinality(Vertex)

ASSUME NullAssumption == Null \notin Vertex

VARIABLES
  input,         \* graph and sources
  state,         \* of the body for a source: waiting, walking, done
  m_stack,       \* its stack
  m_it,          \* the slot of the vertex it is at
  m_seen,        \* the vertices it has left
  total,         \* its sums so far
  source_cost,   \* the sums of the bodies that are done
  r              \* the result, empty until from_graph returns

vars == <<input, state, m_stack, m_it, m_seen, total, source_cost, r>>

\* A body is known by the position of its source.
Body == DOMAIN input.sources

Slot == 0..Cardinality(Vertex)

Result == [true_cost : Nat, precompiled : Nat]
NoCost == [true_cost |-> 0, precompiled |-> 0]

Add(a, b) == [true_cost |-> a.true_cost + b.true_cost,
              precompiled |-> a.precompiled + b.precompiled]

\* What a file adds: true_cost() is nothing for a precompiled file.
CostOf(v) ==
  IF v \in input.is_precompiled
  THEN [NoCost EXCEPT !.precompiled = input.underlying_cost[v]]
  ELSE [NoCost EXCEPT !.true_cost = input.underlying_cost[v]]

Init ==
  /\ input \in Inputs
  /\ state = [b \in Body |-> "waiting"]
  /\ m_stack = [b \in Body |-> [s \in Slot |-> Null]]
  /\ m_it = [b \in Body |-> 0]
  /\ m_seen = [b \in Body |-> {}]
  /\ total = [b \in Body |-> NoCost]
  /\ source_cost = [v \in 1..Cardinality(Vertex) |-> NoCost]
  /\ r = <<>>

\* Mutant: the stack starts with its sentinel's slot.
StartAtSentinel(b) ==
  /\ state[b] = "waiting"
  /\ state' = [state EXCEPT ![b] = "walking"]
  /\ m_stack' = [m_stack EXCEPT ![b][0] = input.sources[b]]
  /\ UNCHANGED <<input, m_it, m_seen, total, source_cost, r>>

begin(b) ==
  /\ state[b] = "waiting"
  /\ state' = [state EXCEPT ![b] = "walking"]
  /\ m_stack' = [m_stack EXCEPT ![b][1] = input.sources[b]]
  /\ m_it' = [m_it EXCEPT ![b] = 1]
  /\ UNCHANGED <<input, m_seen, total, source_cost, r>>

AtEnd(b) == m_it[b] = 0

\* The stack once the successors of v are copied from slot `to` on.
Copied(b, v, to) ==
  [s \in Slot |->
     IF s - to + 1 \in DOMAIN input.graph[v]
     THEN input.graph[v][s - to + 1] ELSE m_stack[b][s]]

\* Where operator++ copies to: the vertex's own slot is overwritten.
First(b) == m_it[b]

\* Mutants: the last vertex copied is taken, or the one below it, seen or not.
TopOnly(stack, last, seen) == last
BelowTop(stack, last, seen) == last - 1

\* The highest slot up to `last` whose vertex is not seen: the sentinel's
\* slot if all are.
NextUnseen(stack, last, seen) ==
  CHOOSE s \in 0..last :
    /\ stack[s] \notin seen
    /\ \A t \in (s + 1)..last : stack[t] \in seen

\* The slot of the last successor of v once they are copied.
LastCopied(b, v) == First(b) + Len(input.graph[v]) - 1

\* The body of the range-for loop, and operator++.  Nothing is said of what
\* follows a copy that leaves the array.
Visit(b) ==
  \E v \in Vertex :
    LET seen == m_seen[b] \cup {v}
        stack == Copied(b, v, First(b)) IN
    /\ state[b] = "walking"
    /\ ~AtEnd(b)
    /\ v = m_stack[b][m_it[b]]
    /\ LastCopied(b, v) \in Slot
    /\ total' = [total EXCEPT ![b] = Add(@, CostOf(v))]
    /\ m_seen' = [m_seen EXCEPT ![b] = seen]
    /\ m_stack' = [m_stack EXCEPT ![b] = stack]
    /\ m_it' = [m_it EXCEPT ![b] = NextUnseen(stack, LastCopied(b, v), seen)]
    /\ UNCHANGED <<input, state, source_cost, r>>

ReturnTotal(b) ==
  /\ state[b] = "walking"
  /\ AtEnd(b)
  /\ state' = [state EXCEPT ![b] = "done"]
  /\ source_cost' = [source_cost EXCEPT ![b] = total[b]]
  /\ UNCHANGED <<input, m_stack, m_it, m_seen, total, r>>

\* transform has returned: the sums of the bodies are added up, and the
\* zeros of the vertices that have no body.
Reduce ==
  /\ \A b \in Body : state[b] = "done"
  /\ r = <<>>
  /\ r' = FoldFunction(Add, NoCost, source_cost)
  /\ UNCHANGED <<input, state, m_stack, m_it, m_seen, total, source_cost>>

Return == r # <<>> /\ UNCHANGED vars

Step(b) == begin(b) \/ Visit(b) \/ ReturnTotal(b)

Next == Reduce \/ Return \/ \E b \in Body : Step(b)

\* No body is promised its turn.
Spec == Init /\ [][Next]_vars

-----------------------------------------------------------------------------
TypeOK ==
  /\ input \in Input
  /\ state \in [Body -> {"waiting", "walking", "done"}]
  /\ m_stack \in [Body -> [Slot -> Vertex \cup {Null}]]
  /\ m_it \in [Body -> Slot]
  /\ m_seen \in [Body -> SUBSET Vertex]
  /\ total \in [Body -> Result]
  /\ source_cost \in [1..Cardinality(Vertex) -> Result]
  /\ r \in Result \cup {<<>>}

SumOver(S, f) == FoldFunctionOnSet(Add, NoCost, f, S)

(* dfs.hpp 37-50: the iterator is at a vertex it has not left, and every   *)
(* vertex it has still to visit is reachable, by vertices not left, from a *)
(* slot at or below the one it is at: copying over the slots that were     *)
(* popped loses nothing.                                                   *)
NothingLost ==
  \A b \in Body : state[b] = "walking" =>
    LET pending == {m_stack[b][s] : s \in 1..m_it[b]} \ m_seen[b] IN
    /\ ~AtEnd(b) => m_stack[b][m_it[b]] \in Vertex \ m_seen[b]
    /\ \A v \in m_seen[b] : ToSet(input.graph[v]) \subseteq m_seen[b] \cup pending

(* get_total_cost.hpp 14-31: the result is the sum, over the sources, of   *)
(* the files each of them reaches, every file once for each source, the    *)
(* precompiled ones on their own.                                          *)
ResultRight ==
  r # <<>> =>
    LET cost == [v \in Vertex |-> CostOf(v)] IN
    r = SumOver(Body, [b \in Body |->
          SumOver(Reachable(input.graph, input.sources[b]), cost)])

(* dfs.hpp 4 and 84-90: a DAG can be traversed: operator++ does without    *)
(* bounds checks and never copies a vertex behind the array.               *)
StackFits ==
  \A b \in Body : state[b] = "walking" /\ ~AtEnd(b) =>
    LastCopied(b, m_stack[b][m_it[b]]) \in Slot
=============================================================================
