-------------------------- MODULE MCExpensiveFiles --------------------------
(***************************************************************************)
(* Every graph on three files, up to renaming, in which two of them have   *)
(* up to two successors and the third up to one: with cycles, self loops   *)
(* and parallel edges.                                                     *)
(***************************************************************************)
EXTENDS ExpensiveFiles

MCVertex == 1..3

MCGraphs ==
  {g \in [MCVertex -> UNION {[1..n -> MCVertex] : n \in 0..2}] :
     Len(g[1]) >= Len(g[2]) /\ Len(g[2]) >= Len(g[3]) /\ Len(g[3]) <= 1}

MCInputs ==
  {[sources |-> s, true_cost |-> <<2, 1, 3>>, is_external |-> {2},
    minimum_token_count_cut_off |-> 4] : s \in {<<>>, <<3, 1>>}}
=============================================================================
