--------------------------- MODULE IncludeDigraph ---------------------------
(***************************************************************************)
(* An include graph as boost's adjacency_list stores it for the analyses:  *)
(* for every vertex the sequence of its adjacent vertices, in the order    *)
(* the edges were added.                                                   *)
(***************************************************************************)
EXTENDS Sequences, SequencesExt

CONSTANT Vertex

AdjacencyList == [Vertex -> Seq(Vertex)]

Closed(g, S) == \A v \in S : ToSet(g[v]) \subseteq S

(* The vertices reachable from v: those in every closed set that has v.    *)
Reachable(g, v) ==
  {u \in Vertex : \A S \in SUBSET Vertex : v \in S /\ Closed(g, S) => u \in S}
=============================================================================
