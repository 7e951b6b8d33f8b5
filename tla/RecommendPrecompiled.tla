------------------------- MODULE RecommendPrecompiled -------------------------
(***************************************************************************)
(* recommend_precompiled::from_graph: for every external file a search     *)
(* finds what precompiling it would precompile, and one search from every  *)
(* source sums up what that source would save.  All searches for one file  *)
(* share a state array and a stack.  Vertices are numbers, and costs are    *)
(* token counts.                                                           *)
(***************************************************************************)
EXTENDS Integers, FiniteSets, IncludeDigraph

Input ==
  [graph : AdjacencyList, sources : Seq(Vertex), cost : [Vertex -> Nat],
   internal_incoming : [Vertex -> Nat],
   is_external : SUBSET Vertex, is_precompiled : SUBSET Vertex,
   minimum_token_count_cut_off : Nat,
   minimum_saving_ratio : Nat \X (Nat \ {0})]    \* as a fraction

VARIABLES
  input,
  phase,    \* ready, next, marking, sources, searching
  left,     \* the vertices the loop has still to visit
  file,
  newly_precompiled,
  state,    \* the vertices marked as seen
  stack,    \* stack.back() last
  i,        \* the position of the next source
  r,        \* its extra_precompiled_size and saving
  results

vars == <<input, phase, left, file, newly_precompiled, state, stack, i, r,
          results>>

Init ==
  /\ phase = "ready"
  /\ left = {}
  /\ file = 0 /\ i = 1
  /\ newly_precompiled = {} /\ state = {} /\ stack = <<>>
  /\ r = [extra |-> 0, saving |-> 0]
  /\ results = {}

Call ==
  /\ phase = "ready"
  /\ phase' = "next"
  /\ left' = IF input.sources = <<>> THEN {} ELSE Vertex
  /\ UNCHANGED <<input, file, newly_precompiled, state, stack, i, r, results>>

IsCandidate(f) ==
  /\ input.internal_incoming[f] # 0
  /\ f \in input.is_external
  /\ f \notin input.is_precompiled

NextFile == phase = "next" /\ left # {}

NotCandidate ==
  /\ NextFile
  /\ ~IsCandidate(Min(left))
  /\ left' = left \ {Min(left)}
  /\ UNCHANGED <<input, phase, file, newly_precompiled, state, stack, i, r,
                 results>>

Begin ==
  /\ NextFile
  /\ IsCandidate(Min(left))
  /\ phase' = "marking"
  /\ file' = Min(left)
  /\ stack' = <<Min(left)>>
  /\ newly_precompiled' = {} /\ state' = {}
  /\ r' = [extra |-> 0, saving |-> 0]
  /\ UNCHANGED <<input, left, i, results>>

-----------------------------------------------------------------------------
(* The searches. *)

\* Mutant: a precompiled file is searched as well.
PassesSeenOnly(v) == v \in state

\* What the search from the file leaves alone.
Passes(v) == v \in state \/ v \in input.is_precompiled

Skip(v) ==
  /\ stack' = Front(stack)
  /\ UNCHANGED <<input, phase, left, file, newly_precompiled, state, i, r,
                 results>>

Expand(v) ==
  /\ state' = state \cup {v}
  /\ stack' = Front(stack) \o input.graph[v]
  /\ UNCHANGED <<input, phase, left, file, i, results>>

Mark(v) ==
  /\ newly_precompiled' = newly_precompiled \cup {v}
  /\ r' = [r EXCEPT !.extra = @ + input.cost[v]]
  /\ Expand(v)

\* Mutant: what precompiling the file does not add is saved as well.
SaveEverything(v) ==
  /\ r' = [r EXCEPT !.saving = @ + input.cost[v]]
  /\ UNCHANGED newly_precompiled
  /\ Expand(v)

Save(v) ==
  /\ r' = [r EXCEPT !.saving =
             IF v \in newly_precompiled THEN @ + input.cost[v] ELSE @]
  /\ UNCHANGED newly_precompiled
  /\ Expand(v)

\* One iteration of either search.
Pop ==
  LET v == Last(stack) IN
  /\ stack # <<>>
  /\ \/ phase = "marking" /\ Passes(v) /\ Skip(v)
     \/ phase = "marking" /\ ~Passes(v) /\ Mark(v)
     \/ phase = "searching" /\ v \in state /\ Skip(v)
     \/ phase = "searching" /\ v \notin state /\ Save(v)

\* The state array is not reset for the first source.
Marked ==
  /\ phase = "marking"
  /\ stack = <<>>
  /\ phase' = "sources"
  /\ i' = 1
  /\ UNCHANGED <<input, left, file, newly_precompiled, state, stack, r, results>>

Cutoff(extra) ==
  LET ratio == input.minimum_saving_ratio
      scaled == (ratio[1] * extra) \div ratio[2] IN
  Max({scaled, input.minimum_token_count_cut_off})

\* Mutant: the source that comes next is not among the remaining ones.
RemainingAfter == Len(input.sources) - i

remaining_sources == Len(input.sources) - i + 1

MoreSources == phase = "sources" /\ i <= Len(input.sources)

TooSmall == r.extra * remaining_sources + r.saving < Cutoff(r.extra)

GiveUp ==
  /\ MoreSources
  /\ TooSmall
  /\ phase' = "next"
  /\ left' = left \ {file}
  /\ UNCHANGED <<input, file, newly_precompiled, state, stack, i, r, results>>

SearchSource ==
  /\ MoreSources
  /\ ~TooSmall
  /\ phase' = "searching"
  /\ stack' = <<input.sources[i]>>
  /\ UNCHANGED <<input, left, file, newly_precompiled, state, i, r, results>>

SourceSearched ==
  /\ phase = "searching"
  /\ stack = <<>>
  /\ phase' = "sources"
  /\ state' = {}
  /\ i' = i + 1
  /\ UNCHANGED <<input, left, file, newly_precompiled, stack, r, results>>

Report ==
  /\ phase = "sources"
  /\ i > Len(input.sources)
  /\ results' =
       IF r.saving >= Cutoff(r.extra)
       THEN results \cup {[v |-> file, saving |-> r.saving, extra |-> r.extra]}
       ELSE results
  /\ phase' = "next"
  /\ left' = left \ {file}
  /\ UNCHANGED <<input, file, newly_precompiled, state, stack, i, r>>

Returned == phase = "next" /\ left = {}

Next ==
  \/ NotCandidate \/ Begin \/ Pop \/ Marked
  \/ GiveUp \/ SearchSource \/ SourceSearched \/ Report

-----------------------------------------------------------------------------
TypeOK ==
  /\ input \in Input
  /\ phase \in {"ready", "next", "marking", "sources", "searching"}
  /\ left \subseteq Vertex
  /\ file \in Vertex \cup {0}
  /\ newly_precompiled \subseteq Vertex
  /\ state \subseteq Vertex
  /\ stack \in Seq(Vertex)
  /\ i \in Nat
  /\ r \in [extra : Nat, saving : Nat]
  /\ results \subseteq [v : Vertex, saving : Nat, extra : Nat]

CostOf(S) == SumFunctionOnSet(input.cost, S)

\* The graph in which nothing follows what is precompiled already.
Unprecompiled ==
  [v \in Vertex |-> IF v \in input.is_precompiled THEN <<>> ELSE input.graph[v]]

\* What precompiling f adds, and what it saves the source at position j.
Added(f) == Reachable(Unprecompiled, f) \ input.is_precompiled
SavedBy(f, j) == CostOf(Added(f) \cap Reachable(input.graph, input.sources[j]))
Saved(f, positions) ==
  SumFunctionOnSet([j \in DOMAIN input.sources |-> SavedBy(f, j)], positions)

(* Lines 59-86: the search from a file finds what precompiling it adds to  *)
(* the precompiled header, and its size, whatever cycles the graph has.    *)
MarkedRight ==
  phase \in {"sources", "searching"} =>
    newly_precompiled = Added(file) /\ r.extra = CostOf(Added(file))

All == DOMAIN input.sources

(* recommend_precompiled.hpp 49-57: a file is reported only if it is an    *)
(* external header that is not precompiled and its saving pays for what    *)
(* precompiling it adds; a saving is never overstated (lines 100-129).     *)
OnlyPaying ==
  \A x \in results :
    /\ IsCandidate(x.v)
    /\ x.extra = CostOf(Added(x.v))
    /\ Cutoff(x.extra) <= x.saving
    /\ x.saving <= Saved(x.v, All)

(* Giving up early (line 104), with savings that are still to be summed    *)
(* up, loses no file that the savings of all sources but the first pay     *)
(* for, and none of these savings; what becomes of the first source is     *)
(* SavingRight's subject.                                                  *)
NoneMissed ==
  phase # "ready" /\ input.sources # <<>> =>
    \A f \in Vertex \ left :
      LET saving == Saved(f, All \ {1}) IN
      IsCandidate(f) /\ Cutoff(CostOf(Added(f))) <= saving =>
        \E x \in results : x.v = f /\ saving <= x.saving

(* recommend_precompiled.hpp 49 and 55: the saving of a file that is       *)
(* reported is the sum over all sources.                                   *)
SavingRight ==
  \A x \in results : x.saving = Saved(x.v, All)
=============================================================================
