--------------------------- MODULE UnusedComponents ---------------------------
(***************************************************************************)
(* find_unused_components::from_graph: a parallel for_each over the        *)
(* sources reports those whose header hardly any other file includes.  Its *)
(* bodies share nothing but the results, which they push to under a mutex, *)
(* as ExpensiveFiles shows it, so each is one step.  Costs are token       *)
(* counts.                                                                 *)
(***************************************************************************)
EXTENDS Integers, FiniteSets, IncludeDigraph

CONSTANT UnsignedWidth    \* the bits of an unsigned

Input ==
  [graph : AdjacencyList, sources : Seq(Vertex), true_cost : [Vertex -> Nat],
   component : [Vertex -> SUBSET Vertex],   \* none or one
   included_by_at_most : 0..(2 ^ UnsignedWidth - 1),
   minimum_token_count_cut_off : Nat]

VARIABLES
  input,
  called,
  left,      \* the positions of the sources whose body has not returned
  results

vars == <<input, called, left, results>>

Init == called = FALSE /\ left = {} /\ results = <<>>

Call ==
  /\ ~called
  /\ called' = TRUE
  /\ left' = DOMAIN input.sources
  /\ UNCHANGED <<input, results>>

CostOf(S) == SumFunctionOnSet(input.true_cost, S)

\* get_total_cost::from_graph(graph, {v}): TotalCost shows what it returns.
true_cost_from(v) == CostOf(Reachable(input.graph, v))

Includers(v) == {u \in Vertex : v \in ToSet(input.graph[u])}
in_degree(v) == Cardinality(Includers(v))

\* Mutant: the component's own source is counted as another includer.
AtMostItself == input.included_by_at_most

\* One more, for the component's source.
AtMost == (input.included_by_at_most + 1) % 2 ^ UnsignedWidth

IsUnused(v) ==
  /\ \E header \in input.component[v] : in_degree(header) <= AtMost
  /\ true_cost_from(v) >= input.minimum_token_count_cut_off

Report(v) == <<[source |-> v, saving |-> true_cost_from(v)]>>

Body(b) ==
  LET v == input.sources[b] IN
  /\ b \in left
  /\ left' = left \ {b}
  /\ results' = results \o (IF IsUnused(v) THEN Report(v) ELSE <<>>)
  /\ UNCHANGED <<input, called>>

Returned == called /\ left = {}

Next == \E b \in left : Body(b)

-----------------------------------------------------------------------------
TypeOK ==
  /\ input \in Input
  /\ called \in BOOLEAN
  /\ left \subseteq Nat
  /\ results \in Seq([source : Vertex, saving : Nat])

\* The files that would still need the header if the component were removed.
OtherIncluders(header, v) == Includers(header) \ {v}

Loop == INSTANCE ParallelLoop WITH
  todo <- left,
  outcome <- [b \in DOMAIN input.sources |->
    LET v == input.sources[b] IN
    IF /\ \E header \in input.component[v] :
            Cardinality(OtherIncluders(header, v)) <= input.included_by_at_most
       /\ true_cost_from(v) >= input.minimum_token_count_cut_off
    THEN Report(v) ELSE <<>>]

(* find_unused_components.hpp 48: the components whose header is included  *)
(* by no more than included_by_at_most files other than their source are   *)
(* reported, with what their source costs, each once.  That takes a source *)
(* to include its header, and leaves out the largest value of              *)
(* included_by_at_most, for which the sum above wraps.                     *)
FindsUnused == Loop!Spec
=============================================================================
