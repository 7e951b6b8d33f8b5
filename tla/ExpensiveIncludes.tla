-------------------------- MODULE ExpensiveIncludes --------------------------
(***************************************************************************)
(* find_expensive_includes::from_graph: for every include directive that   *)
(* could be removed, what its removal saves, summed over the sources.  For *)
(* each source two searches run over one state array: the first without    *)
(* the directive, the second from the file it includes.                    *)
(*                                                                         *)
(* The bodies of the parallel loop over the directives share nothing but   *)
(* the results, which they push to under a mutex and whose order does not  *)
(* matter, so they are taken in the order of the edges.  The reachability  *)
(* matrix is what Reachability constructs.  Costs are token counts.        *)
(***************************************************************************)
EXTENDS Integers, FiniteSets, IncludeDigraph

CONSTANT None    \* no directive is being examined

\* A directive is the position of the includee among the adjacent vertices
\* of the includer.  Vertices are numbers.
Include == Vertex \X (Nat \ {0})

Input ==
  [graph : AdjacencyList, sources : Seq(Vertex), true_cost : [Vertex -> Nat],
   is_external : SUBSET Vertex, not_removable : SUBSET Include,
   minimum_token_count_cut_off : Nat]

VARIABLES
  input,
  reach,      \* the reachability matrix
  phase,      \* ready, and then of a body: idle, sources, first, second
  left,       \* the directives whose body has not returned
  include,    \* the directive of the body
  i,          \* the position of the next source
  m_state,    \* search_state of every vertex
  m_stack,    \* m_stack.back() last
  savings,    \* of the source, so far
  saved,      \* of the sources before it
  results

vars == <<input, reach, phase, left, include, i, m_state, m_stack, savings,
          saved, results>>

Edges(g) == UNION {{v} \X DOMAIN g[v] : v \in Vertex}

includer == include[1]
includee == input.graph[include[1]][include[2]]

\* The array of a new DFSHelper, and of none between two bodies.
Uninitialized == [v \in Vertex |-> "uninitialized"]
NotSeen == [v \in Vertex |-> "not_seen"]

Init ==
  /\ reach = [v \in Vertex |-> {}]
  /\ phase = "ready"
  /\ left = {}
  /\ include = None
  /\ i = 1
  /\ m_state = Uninitialized
  /\ m_stack = <<>>
  /\ savings = 0 /\ saved = 0
  /\ results = {}

Call ==
  /\ phase = "ready"
  /\ phase' = "idle"
  /\ reach' = IF input.sources = <<>> THEN reach
              ELSE [v \in Vertex |-> Reachable(input.graph, v)]
  /\ left' = IF input.sources = <<>> THEN {} ELSE Edges(input.graph)
  /\ UNCHANGED <<input, include, i, m_state, m_stack, savings, saved, results>>

IsCandidate(e) ==
  e[1] \notin input.is_external /\ e \notin input.not_removable

NextInclude ==
  CHOOSE e \in left :
    \A f \in left : e[1] < f[1] \/ (e[1] = f[1] /\ e[2] <= f[2])

MoreIncludes == phase = "idle" /\ left # {}

NotCandidate ==
  /\ MoreIncludes
  /\ ~IsCandidate(NextInclude)
  /\ left' = left \ {NextInclude}
  /\ UNCHANGED <<input, reach, phase, include, i, m_state, m_stack, savings, saved,
                 results>>

Begin ==
  /\ MoreIncludes
  /\ IsCandidate(NextInclude)
  /\ phase' = "sources"
  /\ include' = NextInclude
  /\ UNCHANGED <<input, reach, left, i, m_state, m_stack, savings, saved, results>>

-----------------------------------------------------------------------------
(* total_file_size_of_unreachable *)

is_reachable(from, to) == to \in reach[from]

MoreSources == phase = "sources" /\ i <= Len(input.sources)

\* The source does not include the includer.
Unaffected ==
  /\ MoreSources
  /\ ~is_reachable(input.sources[i], includer)
  /\ i' = i + 1
  /\ UNCHANGED <<input, reach, phase, left, include, m_state, m_stack, savings, saved,
                 results>>

\* Mutant: the state of the last source is kept.
StateKept == IF m_state = Uninitialized THEN NotSeen ELSE m_state

StateReset == NotSeen

FirstSearch ==
  /\ MoreSources
  /\ is_reachable(input.sources[i], includer)
  /\ phase' = "first"
  /\ m_state' = StateReset
  /\ m_stack' = <<input.sources[i]>>
  /\ UNCHANGED <<input, reach, left, include, i, savings, saved, results>>

\* Mutant: the directive is not left out.
AllTargets(v) == input.graph[v]

\* The targets of the out edges of v but the directive.
OtherTargets(v) ==
  LET g == input.graph IN
  IF v = includer
  THEN SubSeq(g[v], 1, include[2] - 1) \o SubSeq(g[v], include[2] + 1, Len(g[v]))
  ELSE g[v]

\* Mutant: a vertex seen twice stays on the stack.
SkipStays == UNCHANGED vars

Skip ==
  /\ m_stack' = Front(m_stack)
  /\ UNCHANGED <<input, reach, phase, left, include, i, m_state, savings, saved,
                 results>>

Expand(v, mark, targets) ==
  /\ m_state' = [m_state EXCEPT ![v] = mark]
  /\ m_stack' = Front(m_stack) \o targets
  /\ UNCHANGED <<input, reach, phase, left, include, i, saved, results>>

\* There is another path to the includee: nothing is saved.
IncludedElsewhere(v) ==
  /\ m_state' = [m_state EXCEPT ![v] = "seen_initial"]
  /\ m_stack' = <<>>
  /\ phase' = "sources"
  /\ i' = i + 1
  /\ UNCHANGED <<input, reach, left, include, savings, saved, results>>

PopFirst ==
  LET v == Last(m_stack) IN
  /\ phase = "first"
  /\ m_stack # <<>>
  /\ \/ m_state[v] = "seen_initial" /\ Skip
     \/ /\ m_state[v] = "not_seen"
        /\ includee \in ToSet(OtherTargets(v))
        /\ IncludedElsewhere(v)
     \/ /\ m_state[v] = "not_seen"
        /\ includee \notin ToSet(OtherTargets(v))
        /\ Expand(v, "seen_initial", OtherTargets(v))
        /\ UNCHANGED savings

SecondSearch ==
  /\ phase = "first"
  /\ m_stack = <<>>
  /\ phase' = "second"
  /\ m_stack' = <<includee>>
  /\ UNCHANGED <<input, reach, left, include, i, m_state, savings, saved, results>>

\* Mutant: the cost of an unreachable vertex is subtracted.
Loss(v) == IF m_state[v] = "not_seen" THEN -input.true_cost[v] ELSE 0

\* What v adds to the savings when the second search meets it.
Gain(v) == IF m_state[v] = "not_seen" THEN input.true_cost[v] ELSE 0

PopSecond ==
  LET v == Last(m_stack) IN
  /\ phase = "second"
  /\ m_stack # <<>>
  /\ \/ m_state[v] = "seen_followup" /\ Skip
     \/ /\ m_state[v] # "seen_followup"
        /\ savings' = savings + Gain(v)
        /\ Expand(v, "seen_followup", input.graph[v])

SourceDone ==
  /\ phase = "second"
  /\ m_stack = <<>>
  /\ phase' = "sources"
  /\ saved' = saved + savings
  /\ savings' = 0
  /\ i' = i + 1
  /\ UNCHANGED <<input, reach, left, include, m_state, m_stack, results>>

-----------------------------------------------------------------------------
\* The body returns, and its locals are gone.
Push ==
  /\ phase = "sources"
  /\ i > Len(input.sources)
  /\ results' = IF saved >= input.minimum_token_count_cut_off
                THEN results \cup {[include |-> include, saving |-> saved]}
                ELSE results
  /\ phase' = "idle"
  /\ left' = left \ {include}
  /\ include' = None
  /\ i' = 1
  /\ saved' = 0
  /\ m_state' = Uninitialized
  /\ UNCHANGED <<input, reach, m_stack, savings>>

Returned == phase = "idle" /\ left = {}

Next ==
  \/ NotCandidate \/ Begin
  \/ Unaffected \/ FirstSearch \/ PopFirst
  \/ SecondSearch \/ PopSecond \/ SourceDone \/ Push

-----------------------------------------------------------------------------
TypeOK ==
  /\ input \in Input
  /\ reach \in [Vertex -> SUBSET Vertex]
  /\ phase \in {"ready", "idle", "sources", "first", "second"}
  /\ left \subseteq Include
  /\ include \in Include \cup {None}
  /\ i \in Nat
  /\ m_state \in [Vertex -> {"uninitialized", "not_seen", "seen_initial",
                            "seen_followup"}]
  /\ m_stack \in Seq(Vertex)
  /\ savings \in Nat /\ saved \in Nat
  /\ results \subseteq [include : Include, saving : Nat]

CostOf(S) == SumFunctionOnSet(input.true_cost, S)

Without(e) ==
  [input.graph EXCEPT
     ![e[1]] = SubSeq(@, 1, e[2] - 1) \o SubSeq(@, e[2] + 1, Len(@))]

\* What the source at position j would not include any more without e.
SavedBy(e, j) ==
  LET s == input.sources[j] IN
  CostOf(Reachable(input.graph, s) \ Reachable(Without(e), s))

Saving(e) == SumFunction([j \in DOMAIN input.sources |-> SavedBy(e, j)])

(* find_expensive_includes.hpp 28: a directive is reported if and only if  *)
(* what the sources would no longer include without it reaches the cutoff, *)
(* with that saving, also when files include each other.                   *)
ResultsRight ==
  Returned /\ input.sources # <<>> =>
    \A e \in Edges(input.graph) :
      {x \in results : x.include = e} =
        IF IsCandidate(e) /\ Saving(e) >= input.minimum_token_count_cut_off
        THEN {[include |-> e, saving |-> Saving(e)]} ELSE {}

(* Lines 79-83 and 114: the first search never meets a mark of the second, *)
(* of this source or the one before it, and it always reaches the includer.*)
SearchesApart ==
  phase = "first" =>
    /\ \A v \in Vertex : m_state[v] \in {"not_seen", "seen_initial"}
    /\ m_stack = <<>> => m_state[includer] = "seen_initial"
=============================================================================
