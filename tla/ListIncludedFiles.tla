-------------------------- MODULE ListIncludedFiles --------------------------
(***************************************************************************)
(* list_included_files::from_graph: a parallel for_each over the sources,  *)
(* each of which searches the graph depth first and counts itself at every *)
(* file it sees, in counters that all the bodies share.                    *)
(***************************************************************************)
EXTENDS Naturals, FiniteSets, IncludeDigraph

CONSTANT Inputs    \* what from_graph may be called with

ASSUME InputsAssumption ==
  Inputs \subseteq [graph : AdjacencyList, sources : Seq(Vertex)]

VARIABLES
  input,    \* graph and sources
  state,    \* of the body for a source: waiting, searching, done
  seen,     \* the vertices the body has seen
  stack,    \* its stack, stack.back() last
  count,    \* the shared counters
  r         \* the result, empty until from_graph returns

vars == <<input, state, seen, stack, count, r>>

\* A body is known by the position of its source.
Body == DOMAIN input.sources

TypeOK ==
  /\ input \in [graph : AdjacencyList, sources : Seq(Vertex)]
  /\ state \in [Body -> {"waiting", "searching", "done"}]
  /\ seen \in [Body -> SUBSET Vertex]
  /\ stack \in [Body -> Seq(Vertex)]
  /\ count \in [Vertex -> Nat]
  /\ r \in [Vertex -> Nat] \cup {<<>>}

Init ==
  /\ input \in Inputs
  /\ state = [b \in Body |-> "waiting"]
  /\ seen = [b \in Body |-> {}]
  /\ stack = [b \in Body |-> <<>>]
  /\ count = [v \in Vertex |-> 0]
  /\ r = <<>>

Start(b) ==
  /\ state[b] = "waiting"
  /\ state' = [state EXCEPT ![b] = "searching"]
  /\ stack' = [stack EXCEPT ![b] = <<input.sources[b]>>]
  /\ UNCHANGED <<input, seen, count, r>>

\* stack.back() of a search that goes on.
Popping(b, v) == state[b] = "searching" /\ stack[b] # <<>> /\ v = Last(stack[b])

\* Mutants: a vertex that was seen is counted again; it is not popped.
SkipCounts(b) ==
  \E v \in seen[b] :
    /\ Popping(b, v)
    /\ stack' = [stack EXCEPT ![b] = Front(@)]
    /\ count' = [count EXCEPT ![v] = @ + 1]
    /\ UNCHANGED <<input, state, seen, r>>
SkipStays(b) == (\E v \in seen[b] : Popping(b, v)) /\ UNCHANGED vars

Skip(b) ==
  \E v \in seen[b] :
    /\ Popping(b, v)
    /\ stack' = [stack EXCEPT ![b] = Front(@)]
    /\ UNCHANGED <<input, state, seen, count, r>>

\* Mutant: the first successor is not pushed.
VisitButFirst(b) ==
  \E v \in Vertex \ seen[b] :
    /\ Popping(b, v)
    /\ seen' = [seen EXCEPT ![b] = @ \cup {v}]
    /\ count' = [count EXCEPT ![v] = @ + 1]
    /\ stack' = [stack EXCEPT
         ![b] = Front(@) \o SubSeq(input.graph[v], 2, Len(input.graph[v]))]
    /\ UNCHANGED <<input, state, r>>

\* The counter is the only thing a body shares with the others.
Visit(b) ==
  \E v \in Vertex \ seen[b] :
    /\ Popping(b, v)
    /\ seen' = [seen EXCEPT ![b] = @ \cup {v}]
    /\ count' = [count EXCEPT ![v] = @ + 1]
    /\ stack' = [stack EXCEPT ![b] = Front(@) \o input.graph[v]]
    /\ UNCHANGED <<input, state, r>>

Done(b) ==
  /\ state[b] = "searching"
  /\ stack[b] = <<>>
  /\ state' = [state EXCEPT ![b] = "done"]
  /\ UNCHANGED <<input, seen, stack, count, r>>

Searched == \A b \in Body : state[b] = "done"

\* for_each has returned: the counters are loaded into the result.
Collect ==
  /\ Searched
  /\ r = <<>>
  /\ r' = count
  /\ UNCHANGED <<input, state, seen, stack, count>>

Return == r # <<>> /\ UNCHANGED vars

Step(b) == Start(b) \/ Skip(b) \/ Visit(b) \/ Done(b)

Next == Collect \/ Return \/ \E b \in Body : Step(b)

\* Some thread of the pool runs a body as long as there is one to run.
Spec == Init /\ [][Next]_vars /\ WF_vars(Next)

-----------------------------------------------------------------------------
ReachedBy(v) ==
  {b \in Body : v \in Reachable(input.graph, input.sources[b])}

SeenBy(v) == {b \in Body : v \in seen[b]}

(* No update of a counter is lost or made twice: at any moment it counts   *)
(* the bodies that have seen the file, however their steps interleave.     *)
Counted == \A v \in Vertex : count[v] = Cardinality(SeenBy(v))

(* list_included_files.hpp 11: the result has the number of sources in     *)
(* which each file is directly or indirectly included.                     *)
ResultRight ==
  r # <<>> => \A v \in Vertex : r[v] = Cardinality(ReachedBy(v))

(* from_graph returns, also when files include each other.                 *)
Termination == <>(r # <<>>)
=============================================================================
