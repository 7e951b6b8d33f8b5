------------------------ MODULE MCListIncludedFiles ------------------------
(***************************************************************************)
(* Two and three sources over every graph on three vertices without        *)
(* parallel edges, one source listed twice.                                *)
(***************************************************************************)
EXTENDS ListIncludedFiles

MCVertex == 1..3

Successors == {s \in UNION {[1..n -> MCVertex] : n \in 0..2} :
                 \A i, j \in DOMAIN s : s[i] = s[j] => i = j}

MCInputs ==
  [graph : [MCVertex -> Successors],
   sources : {<<1, 2>>, <<3, 3>>, <<1, 3, 2>>}]
=============================================================================
