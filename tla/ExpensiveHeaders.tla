--------------------------- MODULE ExpensiveHeaders ---------------------------
(***************************************************************************)
(* find_expensive_headers::from_graph: what would be saved if no header of *)
(* ours included a file, and the source of every such header did instead.  *)
(* The cost before is that of get_total_cost; for the cost after, every    *)
(* body of a parallel for_each over the files rewrites the graph and sums  *)
(* it up the same way.  The bodies share nothing but the results, which    *)
(* they push to under a mutex, as ExpensiveFiles shows it, so each is one  *)
(* step.  Costs are token counts.                                          *)
(***************************************************************************)
EXTENDS TotalCost

CONSTANT Projects    \* what from_graph is called with, next to the graph

ASSUME NumbersAssumption == Vertex \subseteq Nat \ {0}

Project ==
  [is_external : SUBSET Vertex,
   component : [Vertex -> SUBSET Vertex],   \* none or one
   minimum_token_count_cut_off : Nat]

ASSUME ProjectsAssumption == Projects \subseteq Project

VARIABLES
  project,
  left,       \* the files whose body has not returned
  aborted,    \* whether an assertion has failed
  results

loopVars == <<project, left, aborted, results>>

HeadersInit ==
  /\ Init
  /\ project \in Projects
  /\ left = Vertex
  /\ aborted = FALSE
  /\ results = <<>>

cost_before == r.true_cost

CostBefore ==
  /\ input.sources # <<>>
  /\ Reduce \/ \E b \in Body : Step(b)
  /\ UNCHANGED loopVars

-----------------------------------------------------------------------------
(* The body for a file. *)

graph == input.graph
is_source == ToSet(input.sources)
Internal == Vertex \ project.is_external

\* The headers of ours that include the file.
headers_including(file) ==
  {s \in Internal \ is_source : file \in ToSet(graph[s])}

TokensOf(g, v) == SumOver(Reachable(g, v), [u \in Vertex |-> CostOf(u)]).true_cost

NotIncluded(file) == \A s \in Internal : file \notin ToSet(graph[s])

\* If every source saved the full amount and this does not hit the target.
CannotSave(file) ==
  TokensOf(graph, file) * Len(input.sources) < project.minimum_token_count_cut_off

\* The sources of the headers, which include the file instead.
Sources(file) ==
  (UNION {project.component[s] : s \in headers_including(file)}) \cap is_source

\* A header without a source gets one, which is known by its negation.  Two
\* files have one edge at most, so it gets one only.
new_sources(file) ==
  {-s : s \in {h \in headers_including(file) : project.component[h] = {}}}

NewVertex(file) == Vertex \cup new_sources(file)

\* Mutant: the sources of the headers do not include the file.
NotMoved(file) ==
  [v \in NewVertex(file) |->
     IF v \notin Vertex THEN <<file, -v>>
     ELSE IF v \in headers_including(file)
     THEN SelectSeq(graph[v], LAMBDA t : t # file) ELSE graph[v]]

new_graph(file) ==
  [v \in NewVertex(file) |->
     IF v \notin Vertex THEN <<file, -v>>
     ELSE IF v \in headers_including(file)
     THEN SelectSeq(graph[v], LAMBDA t : t # file)
     ELSE IF v \in Sources(file) THEN Append(graph[v], file) ELSE graph[v]]

New(file) == INSTANCE IncludeDigraph WITH Vertex <- NewVertex(file)

cost_after(file) ==
  LET g == new_graph(file)
      \* A new source has no tokens of its own.
      tokens == [v \in is_source \cup new_sources(file) |->
                   SumOver(New(file)!Reachable(g, v) \cap Vertex,
                           [u \in Vertex |-> CostOf(u)]).true_cost]
  IN MapThenSumSet(LAMBDA b : tokens[input.sources[b]], Body)
       + MapThenSumSet(LAMBDA v : tokens[v], new_sources(file))

count_headers(file) == Cardinality(headers_including(file))

WorthIt(file, saving) ==
  IF saving >= project.minimum_token_count_cut_off
  THEN <<[v |-> file, saving |-> saving,
          header_reference_count |-> count_headers(file)]>>
  ELSE <<>>

\* assert(false): a header is paired with a file that is not a source.
FailsAssertion(file) ==
  /\ ~NotIncluded(file) /\ ~CannotSave(file)
  /\ \E s \in headers_including(file) : ~(project.component[s] \subseteq is_source)

Running(file) == r # <<>> /\ ~aborted /\ file \in left

Examine(file) ==
  /\ Running(file)
  /\ ~FailsAssertion(file)
  /\ left' = left \ {file}
  /\ results' = results \o
       (IF NotIncluded(file) \/ CannotSave(file) THEN <<>>
        ELSE WorthIt(file, cost_before - cost_after(file)))
  /\ UNCHANGED <<vars, project, aborted>>

Abort(file) ==
  /\ Running(file)
  /\ FailsAssertion(file)
  /\ aborted' = TRUE
  /\ UNCHANGED <<vars, project, left, results>>

HeadersReturned == input.sources # <<>> => r # <<>> /\ left = {}

HeadersNext ==
  \/ CostBefore
  \/ \E file \in Vertex : Examine(file) \/ Abort(file)
  \/ (HeadersReturned \/ aborted) /\ UNCHANGED <<vars, loopVars>>

HeadersSpec == HeadersInit /\ [][HeadersNext]_<<vars, loopVars>>

-----------------------------------------------------------------------------
\* What a file still needs when no header of ours includes `file`.
Lean(file) ==
  [v \in Vertex |-> IF v \in Internal \ is_source
                    THEN SelectSeq(graph[v], LAMBDA t : t # file) ELSE graph[v]]

Tokens(S) == SumOver(S, [u \in Vertex |-> CostOf(u)]).true_cost

\* The files of a source then: `file` and what it needs as well if one of
\* them is a source that has to include it.
Needs(file, t) ==
  LET own == Reachable(Lean(file), t) IN
  IF \E s \in headers_including(file) : own \cap project.component[s] # {}
  THEN own \cup Reachable(Lean(file), file) ELSE own

Saving(file) ==
  cost_before
    - MapThenSumSet(LAMBDA b : Tokens(Needs(file, input.sources[b])), Body)
    - MapThenSumSet(LAMBDA h : Tokens(Needs(file, h) \cup Reachable(Lean(file), file)),
                    {h \in headers_including(file) : project.component[h] = {}})

Loop == INSTANCE ParallelLoop WITH
  called <- r # <<>>,
  todo <- IF r = <<>> THEN {} ELSE left,
  outcome <- [f \in Vertex |-> IF NotIncluded(f) THEN <<>> ELSE WorthIt(f, Saving(f))]

(* find_expensive_headers.hpp 64-66: the files are reported for which the  *)
(* project gets that much cheaper when every header of ours that includes  *)
(* one leaves it to its source, and to a new source if it has none, each   *)
(* once: the early exit loses none, and include cycles do not matter.      *)
FindsExpensiveHeaders == Loop!Spec

(* Comment at 105-106: the component of a header of ours that is not a     *)
(* source should always be a source.                                       *)
NoAssertionFails == ~aborted
=============================================================================
