--------------------------- MODULE TopologicalOrder ---------------------------
(***************************************************************************)
(* topological_order::from_graph: the include graph turned round, with a   *)
(* root before the files that include nothing and every source and its     *)
(* header in a cycle.  The level of a file is the length of the longest    *)
(* path to it, counted in edges between different strong components, which *)
(* Bellman-Ford finds with negative weights.  boost's strong_components    *)
(* and bellman_ford_shortest_paths are external.                           *)
(***************************************************************************)
EXTENDS Integers, FiniteSets, IncludeDigraph

\* Vertices are numbered from 1 on, and the root has the number after theirs.
Root == Cardinality(Vertex) + 1

Input ==
  [graph : AdjacencyList, sources : Seq(Vertex),
   component : [Vertex -> SUBSET Vertex],   \* none or one
   is_external : SUBSET Vertex]

VARIABLES
  input,
  phase,     \* ready, relaxing, returned
  component_map,   \* the vertices each shares its strong component with
  round,     \* of Bellman-Ford
  levels,    \* the distances, from 0 downwards
  output     \* for every level from 1 on, the groups of files that have it

vars == <<input, phase, component_map, round, levels, output>>

NewVertex == Vertex \cup {Root}

Init ==
  /\ phase = "ready"
  /\ component_map = [v \in NewVertex |-> {v}]
  /\ round = 0
  /\ levels = [v \in NewVertex |-> 0]
  /\ output = <<>>

-----------------------------------------------------------------------------
(* The new graph. *)

Includers(v) == {u \in Vertex : v \in ToSet(input.graph[u])}

\* Mutant: the sources and their headers are not connected.
TargetsApart(v) ==
  IF v = Root
  THEN {u \in Vertex \ input.is_external : input.graph[u] = <<>>}
  ELSE IF v \in input.is_external THEN {} ELSE Includers(v)

Targets(v) ==
  IF v = Root
  THEN {u \in Vertex \ input.is_external : input.graph[u] = <<>>}
  ELSE (IF v \in input.is_external THEN {} ELSE Includers(v))
         \cup (IF v \in ToSet(input.sources) THEN input.component[v] ELSE {})

\* strong_components: the vertices each vertex shares its component with are
\* those in the same sets that no edge leaves.
strong_components ==
  LET targets == [v \in NewVertex |-> Targets(v)]
      closed == {S \in SUBSET NewVertex : \A v \in S : targets[v] \subseteq S}
  IN [v \in NewVertex |->
        {u \in NewVertex : \A S \in closed : u \in S <=> v \in S}]

Call ==
  /\ phase = "ready"
  /\ UNCHANGED <<input, round, levels, output>>
  /\ IF input.sources = <<>>
     THEN phase' = "returned" /\ UNCHANGED component_map
     ELSE phase' = "relaxing" /\ component_map' = strong_components

-----------------------------------------------------------------------------
(* The levels. *)

weight(v, u) == IF component_map[v] = component_map[u] THEN 0 ELSE -1

\* One round of Bellman-Ford: every edge is relaxed, in the order of the
\* vertices they leave.
Relaxed(distance) ==
  LET after[v \in 0..Root] ==
        LET d == after[v - 1] IN
        IF v = 0 THEN distance
        ELSE [u \in NewVertex |->
                IF u \in Targets(v) THEN Min({d[u], d[v] + weight(v, u)}) ELSE d[u]]
  IN after[Root]

\* Mutant: half the rounds.
FewRounds == Cardinality(Vertex) \div 2

\* The root's number is passed where the number of rounds is expected: one
\* round fewer than the new graph has vertices.
Rounds == Cardinality(Vertex)

Round ==
  /\ phase = "relaxing"
  /\ round < Rounds
  /\ levels # Relaxed(levels)
  /\ levels' = Relaxed(levels)
  /\ round' = round + 1
  /\ UNCHANGED <<input, phase, component_map, output>>

num_levels == Max({-levels[v] : v \in NewVertex})

\* Level 0 is left out.
Group ==
  /\ phase = "relaxing"
  /\ round < Rounds => levels = Relaxed(levels)
  /\ phase' = "returned"
  /\ output' =
       [l \in 1..num_levels |->
          {component_map[v] : v \in {u \in Vertex : levels[u] = -l}}]
  /\ UNCHANGED <<input, component_map, round, levels>>

Returned == phase = "returned"

Next == Round \/ Group

-----------------------------------------------------------------------------
TypeOK ==
  /\ input \in Input
  /\ phase \in {"ready", "relaxing", "returned"}
  /\ component_map \in [NewVertex -> SUBSET NewVertex]
  /\ round \in Nat
  /\ levels \in [NewVertex -> Int]
  /\ output \in Seq(SUBSET SUBSET Vertex)

Internal == Vertex \ input.is_external

Listed == UNION UNION ToSet(output)

\* The level of a file in the output, 0 if it is not listed.
LevelOf(v) ==
  LET ls == {l \in DOMAIN output : v \in UNION output[l]} IN
  IF ls = {} THEN 0 ELSE Max(ls)

(* topological_order.hpp 12: a file is listed after the files of ours it   *)
(* includes, as early as that allows, and in one group with those it       *)
(* includes in a cycle and with its header: the level of a group is one    *)
(* more than the highest level its files include, and 1 if one of them     *)
(* includes nothing.  So there are enough rounds for the longest chain of  *)
(* includes.                                                               *)
LevelsRight ==
  Returned /\ input.sources # <<>> =>
    LET OnOwn(C) == \E v \in C : input.graph[v] = <<>>
        Below(C) == (UNION {ToSet(input.graph[v]) \cap Internal : v \in C}) \ C
    IN \A v \in Internal :
         LET C == component_map[v] IN
         LevelOf(v) = Max({IF OnOwn(C) THEN 1 ELSE 0}
                            \cup {LevelOf(u) + 1 : u \in Below(C)})

(* Comment at 46-47: a source and its header exist at the same level, in   *)
(* one group.                                                              *)
ComponentsTogether ==
  Returned =>
    \A v \in ToSet(input.sources) \cap Listed :
      \A h \in input.component[v] \cap Internal :
        \E l \in DOMAIN output : \E G \in output[l] : {v, h} \subseteq G

(* topological_order.hpp 12 lists all files, and the comment at lines      *)
(* 115-116 says that level 0 is that of the root and of external files.    *)
AllListed ==
  Returned /\ input.sources # <<>> => Internal \subseteq Listed
=============================================================================
