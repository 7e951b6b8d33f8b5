-------------------------- MODULE UnnecessarySources --------------------------
(***************************************************************************)
(* find_unnecessary_sources::from_graph: for every source that has a       *)
(* header, what is saved when the contents of the source move into the     *)
(* header and the source is removed, and what that adds to the sources     *)
(* that include the header.  Two searches over one array of marks, from    *)
(* the source and from the header, find what only the source reaches;      *)
(* then one search from every other source finds what of that it reaches   *)
(* already.                                                                *)
(*                                                                         *)
(* The bodies of the parallel loop over the sources share nothing but the  *)
(* results, so they are taken one after the other, in any order; those of  *)
(* the inner transform share nothing at all, so they are taken in order.   *)
(* The reachability matrix is what Reachability constructs.  Costs are     *)
(* token counts.                                                           *)
(***************************************************************************)
EXTENDS Integers, FiniteSets, IncludeDigraph

Input ==
  [graph : AdjacencyList, sources : Seq(Vertex), true_cost : [Vertex -> Nat],
   component : [Vertex -> SUBSET Vertex],   \* none or one
   is_external : SUBSET Vertex, minimum_token_count_cut_off : Nat]

VARIABLES
  input,
  reach,       \* the reachability matrix
  phase,       \* ready, idle, source, header, extra, searching
  left,        \* the positions of the sources whose body has not returned
  b,           \* the position of the source of the body, 0 for none
  reachable,   \* the vertices marked from the source, and from the header
  stack,       \* stack.back() last
  number,      \* num_reachable_from_source_only
  only,        \* reachable_from_source_only
  saving,
  i,           \* the position of the start_source of the inner body
  seen, count, total,   \* its locals
  extra,       \* the sum of added_cost
  results

locals == <<reachable, stack, number, only, saving, i, seen, count, total, extra>>
vars == <<input, reach, phase, left, b, locals, results>>

NotMarked == [mark \in {"SOURCE", "HEADER"} |-> {}]

Init ==
  /\ reach = [v \in Vertex |-> {}]
  /\ phase = "ready" /\ left = {} /\ b = 0
  /\ reachable = NotMarked /\ stack = <<>>
  /\ number = 0 /\ only = 0 /\ saving = 0
  /\ i = 0 /\ seen = {} /\ count = 0 /\ total = 0 /\ extra = 0
  /\ results = <<>>

Call ==
  /\ phase = "ready"
  /\ phase' = "idle"
  /\ reach' = [v \in Vertex |-> Reachable(input.graph, v)]
  /\ left' = DOMAIN input.sources
  /\ UNCHANGED <<input, b, locals, results>>

source == input.sources[b]
header == CHOOSE h \in input.component[source] : TRUE
CostOf(S) == SumFunctionOnSet(input.true_cost, S)

IsCandidate(v) == input.component[v] # {} /\ v \notin input.is_external

NotCandidate(p) ==
  /\ phase = "idle"
  /\ ~IsCandidate(input.sources[p])
  /\ left' = left \ {p}
  /\ UNCHANGED <<input, reach, phase, b, locals, results>>

Begin(p) ==
  /\ phase = "idle"
  /\ IsCandidate(input.sources[p])
  /\ phase' = "source"
  /\ b' = p
  /\ stack' = <<input.sources[p]>>
  /\ UNCHANGED <<input, reach, left, reachable, number, only, saving, i, seen, count,
                 total, extra, results>>

\* The body returns, and its locals are gone.
Return(reported) ==
  /\ results' = results \o reported
  /\ left' = left \ {b}
  /\ phase' = "idle"
  /\ b' = 0
  /\ reachable' = NotMarked /\ stack' = <<>>
  /\ number' = 0 /\ only' = 0 /\ saving' = 0
  /\ i' = 0 /\ seen' = {} /\ count' = 0 /\ total' = 0 /\ extra' = 0
  /\ UNCHANGED <<input, reach>>

-----------------------------------------------------------------------------
(* The searches from the source and from the header. *)

Skip ==
  /\ stack' = Front(stack)
  /\ UNCHANGED <<input, reach, phase, left, b, reachable, number, only, saving, i, seen,
                 count, total, extra, results>>

Mark(v, mark) ==
  /\ reachable' = [reachable EXCEPT ![mark] = @ \cup {v}]
  /\ stack' = Front(stack) \o input.graph[v]
  /\ UNCHANGED <<input, reach, phase, left, b, i, seen, count, total, extra, results>>

Passes(v, mark) == v \in reachable[mark]

PopSource ==
  LET v == Last(stack) IN
  /\ phase = "source"
  /\ stack # <<>>
  /\ \/ Passes(v, "SOURCE") /\ Skip
     \/ /\ ~Passes(v, "SOURCE")
        /\ Mark(v, "SOURCE")
        /\ saving' = saving + input.true_cost[v]
        /\ only' = only + input.true_cost[v]
        /\ number' = number + 1

\* If we won't save enough in the first place, exit early.
TooCheap ==
  /\ phase = "source"
  /\ stack = <<>>
  /\ saving < input.minimum_token_count_cut_off
  /\ Return(<<>>)

SourceSearched ==
  /\ phase = "source"
  /\ stack = <<>>
  /\ saving >= input.minimum_token_count_cut_off
  /\ phase' = "header"
  /\ stack' = <<header>>
  /\ UNCHANGED <<input, reach, left, b, reachable, number, only, saving, i, seen, count,
                 total, extra, results>>

PopHeader ==
  LET v == Last(stack) IN
  /\ phase = "header"
  /\ stack # <<>>
  /\ \/ Passes(v, "HEADER") /\ Skip
     \/ /\ ~Passes(v, "HEADER")
        /\ Mark(v, "HEADER")
        /\ only' = only - input.true_cost[v]
        /\ number' = number - 1
        /\ UNCHANGED saving

HeaderSearched ==
  /\ phase = "header"
  /\ stack = <<>>
  /\ phase' = "extra"
  /\ i' = 1
  /\ UNCHANGED <<input, reach, left, b, reachable, stack, number, only, saving, seen,
                 count, total, extra, results>>

-----------------------------------------------------------------------------
(* What the removal adds to the other sources. *)

MoreSources == phase = "extra" /\ i <= Len(input.sources)

\* Whether the start source includes the larger header.
Affected(start) ==
  start # source /\ header \in reach[start]

NotAffected ==
  /\ MoreSources
  /\ ~Affected(input.sources[i])
  /\ i' = i + 1
  /\ UNCHANGED <<input, reach, phase, left, b, reachable, stack, number, only, saving,
                 seen, count, total, extra, results>>

\* The cost of the source, to be reduced by what is reached some other way.
Search ==
  /\ MoreSources
  /\ Affected(input.sources[i])
  /\ phase' = "searching"
  /\ stack' = <<input.sources[i]>>
  /\ seen' = {} /\ count' = 0 /\ total' = only
  /\ UNCHANGED <<input, reach, left, b, reachable, number, only, saving, i, extra,
                 results>>

\* Mutant: what the header includes is counted as well.
IsSourceOnlyNot(v) == v \in reachable.SOURCE

IsSourceOnly(v) == v \in reachable.SOURCE \ reachable.HEADER

\* count goes down, not up: the search is not left early once number is 1.
Searching == phase = "searching" /\ stack # <<>> /\ count < number

PopExtra ==
  LET v == Last(stack) IN
  /\ Searching
  /\ IF v \in seen
     THEN stack' = Front(stack) /\ UNCHANGED <<seen, count, total>>
     ELSE /\ stack' = Front(stack) \o input.graph[v]
          /\ seen' = seen \cup {v}
          /\ count' = IF IsSourceOnly(v) THEN count - 1 ELSE count
          /\ total' = IF IsSourceOnly(v) THEN total - input.true_cost[v]
                      ELSE total
  /\ UNCHANGED <<input, reach, phase, left, b, reachable, number, only, saving, i,
                 extra, results>>

Searched ==
  /\ phase = "searching"
  /\ ~Searching
  /\ phase' = "extra"
  /\ stack' = <<>>
  /\ extra' = extra + total
  /\ i' = i + 1
  /\ UNCHANGED <<input, reach, left, b, reachable, number, only, saving, seen, count,
                 total, results>>

Push ==
  /\ phase = "extra"
  /\ i > Len(input.sources)
  /\ Return(IF saving - extra >= input.minimum_token_count_cut_off
            THEN <<[source |-> source, saving |-> saving, extra_cost |-> extra]>>
            ELSE <<>>)

Returned == phase = "idle" /\ left = {}

Next ==
  \/ \E p \in left : NotCandidate(p) \/ Begin(p)
  \/ PopSource \/ TooCheap \/ SourceSearched \/ PopHeader \/ HeaderSearched
  \/ NotAffected \/ Search \/ PopExtra \/ Searched \/ Push

-----------------------------------------------------------------------------
TypeOK ==
  /\ input \in Input
  /\ reach \in [Vertex -> SUBSET Vertex]
  /\ phase \in {"ready", "idle", "source", "header", "extra", "searching"}
  /\ left \subseteq Nat /\ b \in Nat
  /\ reachable \in [{"SOURCE", "HEADER"} -> SUBSET Vertex]
  /\ stack \in Seq(Vertex)
  /\ number \in Int /\ only \in Int
  /\ saving \in Nat
  /\ i \in Nat /\ seen \subseteq Vertex
  /\ count \in Int /\ total \in Int /\ extra \in Int
  /\ results \in Seq([source : Vertex, saving : Nat, extra_cost : Int])

\* The cost of the sources at some positions.
ProjectCost(g, positions) ==
  SumFunctionOnSet(
    [j \in DOMAIN input.sources |-> CostOf(Reachable(g, input.sources[j]))],
    positions)

\* What the removal of the source at position p saves in all: the header has
\* the contents and the includes of the source, which is no longer compiled.
Inlined(p) ==
  LET s == input.sources[p] IN
  [v \in Vertex |-> IF v \in input.component[s] THEN Append(input.graph[v], s)
                    ELSE input.graph[v]]

TotalSaving(p) ==
  ProjectCost(input.graph, DOMAIN input.sources)
    - ProjectCost(Inlined(p), DOMAIN input.sources \ {p})

Loop == INSTANCE ParallelLoop WITH
  called <- phase # "ready",
  todo <- left,
  outcome <- [p \in DOMAIN input.sources |->
    LET s == input.sources[p]
        cost == CostOf(Reachable(input.graph, s)) IN
    IF IsCandidate(s) /\ TotalSaving(p) >= input.minimum_token_count_cut_off
    THEN <<[source |-> s, saving |-> cost, extra_cost |-> cost - TotalSaving(p)]>>
    ELSE <<>>]

(* find_unnecessary_sources.hpp 57: the sources are reported whose removal *)
(* makes the whole project that much cheaper, when their header has their  *)
(* contents and includes instead, each once, with what that costs the      *)
(* other sources: neither early return loses one, and include cycles and   *)
(* sources that include each other do not matter.  That takes a source to  *)
(* include its header: what a header reaches is subtracted from what its   *)
(* source reaches, whether it is part of that or not.                      *)
FindsUnnecessary == Loop!Spec
=============================================================================
