----------------------------- MODULE MCTotalCost -----------------------------
(***************************************************************************)
(* Every DAG on Size vertices whose edges go from lower to higher numbers, *)
(* the successors of a vertex in every order and without parallel edges,   *)
(* and graphs in which no file includes more than one: those have the      *)
(* include cycles.  The sums of the costs tell which files were added, and *)
(* how often.                                                              *)
(***************************************************************************)
EXTENDS TotalCost

CONSTANTS Size, Precompiled

MCVertex == 1..Size

\* The lists of successors of the vertices from v on.
DagsFrom[v \in 1..(Size + 1)] ==
  IF v > Size THEN {<<>>}
  ELSE {<<s>> \o g : s \in SetToAllKPermutations((v + 1)..Size), g \in DagsFrom[v + 1]}

Dags == DagsFrom[1]

Chains ==
  {g \in [MCVertex -> UNION {[1..n -> MCVertex] : n \in 0..1}] :
     ToSet(g[Size]) \subseteq {1}}

InputsWith(graphs) ==
  [graph : graphs, sources : {<<1>>, <<2, 1>>},
   underlying_cost : {[v \in MCVertex |-> 10 ^ v]},
   is_precompiled : Precompiled]

DagInputs == InputsWith(Dags)
MCInputs == DagInputs \cup InputsWith(Chains)

SomePrecompiled == {{}, {2, Size}}
NonePrecompiled == {{}}
=============================================================================
