-------------------------- MODULE MCExpensiveHeaders --------------------------
(***************************************************************************)
(* The graphs of MCTotalCost, and what build_graph may find the files to   *)
(* be: vertex 3 has the name of vertex 1 or 2, which may be a source or    *)
(* not.                                                                    *)
(***************************************************************************)
EXTENDS ExpensiveHeaders, MCTotalCost

Pair(a, b) ==
  [v \in MCVertex |-> IF v = a THEN {b} ELSE IF v = b THEN {a} ELSE {}]

NamedAlike ==
  [is_external |-> {4}, component |-> Pair(2, 3),
   minimum_token_count_cut_off |-> 3000]

SourceAndHeader ==
  [is_external |-> {}, component |-> Pair(1, 3),
   minimum_token_count_cut_off |-> 200]

MCProjects == {NamedAlike, SourceAndHeader}

\* One source reaches everything, and the files named alike are 2 and 3, of
\* which 2 includes 3.
IncludedHeaders == {NamedAlike}
OneSource ==
  {i \in DagInputs :
     /\ i.sources = <<1>>
     /\ Reachable(i.graph, 1) = MCVertex
     /\ 3 \in ToSet(i.graph[2])}
=============================================================================
