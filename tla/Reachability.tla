---------------------------- MODULE Reachability ----------------------------
(***************************************************************************)
(* The constructor of reachability_graph: a parallel for_each over the     *)
(* vertices, each of which searches the graph breadth first and marks its  *)
(* own row of the matrix m_paths.                                          *)
(***************************************************************************)
EXTENDS Naturals, IncludeDigraph

CONSTANT Graphs    \* the graphs a matrix may be built for

ASSUME GraphsAssumption == Graphs \subseteq AdjacencyList

VARIABLES
  dag,
  state,    \* of the loop body for v: waiting, searching, done
  vs,       \* the deque of the body for v
  m_paths   \* the row of v, as the set of marked vertices

vars == <<dag, state, vs, m_paths>>

TypeOK ==
  /\ dag \in AdjacencyList
  /\ state \in [Vertex -> {"waiting", "searching", "done"}]
  /\ vs \in [Vertex -> Seq(Vertex)]
  /\ m_paths \in [Vertex -> SUBSET Vertex]

Init ==
  /\ dag \in Graphs
  /\ state = [v \in Vertex |-> "waiting"]
  /\ vs = [v \in Vertex |-> <<>>]
  /\ m_paths = [v \in Vertex |-> {}]

\* Some thread of the pool takes v.
Start(v) ==
  /\ state[v] = "waiting"
  /\ state' = [state EXCEPT ![v] = "searching"]
  /\ vs' = [vs EXCEPT ![v] = <<v>>]
  /\ UNCHANGED <<dag, m_paths>>

\* Mutant: only the start is expanded.
CarryOnNever(v, u) == u = v

\* Whether u is met for the first time.
CarryOn(v, u) == u \notin m_paths[v]

\* Mutant: the matrix is written the other way round.
VisitTransposed(v) ==
  LET u == Head(vs[v]) IN
  /\ state[v] = "searching"
  /\ vs[v] # <<>>
  /\ m_paths' = [m_paths EXCEPT ![u] = @ \cup {v}]
  /\ vs' = [vs EXCEPT ![v] =
              IF CarryOn(v, u) THEN Tail(@) \o dag[u] ELSE Tail(@)]
  /\ UNCHANGED <<dag, state>>

\* Mutant: the front is not popped.
VisitPeeks(v) ==
  LET u == Head(vs[v]) IN
  /\ state[v] = "searching"
  /\ vs[v] # <<>>
  /\ m_paths' = [m_paths EXCEPT ![v] = @ \cup {u}]
  /\ vs' = [vs EXCEPT ![v] = IF CarryOn(v, u) THEN @ \o dag[u] ELSE @]
  /\ UNCHANGED <<dag, state>>

\* vis(u), and the successors of u behind the queue if it was not marked.
Visit(v) ==
  LET u == Head(vs[v]) IN
  /\ state[v] = "searching"
  /\ vs[v] # <<>>
  /\ m_paths' = [m_paths EXCEPT ![v] = @ \cup {u}]
  /\ vs' = [vs EXCEPT ![v] =
              IF CarryOn(v, u) THEN Tail(@) \o dag[u] ELSE Tail(@)]
  /\ UNCHANGED <<dag, state>>

Done(v) ==
  /\ state[v] = "searching"
  /\ vs[v] = <<>>
  /\ state' = [state EXCEPT ![v] = "done"]
  /\ UNCHANGED <<dag, vs, m_paths>>

\* for_each returns when every body has; the matrix is constant from then on.
Constructed == \A v \in Vertex : state[v] = "done"
Return == Constructed /\ UNCHANGED vars

Body(v) == Start(v) \/ Visit(v) \/ Done(v)

Next == Return \/ \E v \in Vertex : Body(v)

\* Some thread of the pool runs a body as long as there is one to run.
Spec == Init /\ [][Next]_vars /\ WF_vars(Next)

is_reachable(from, to) == to \in m_paths[from]

-----------------------------------------------------------------------------
(* A mark is a path, at any moment of any interleaving.                    *)
Sound ==
  \A v, u \in Vertex : is_reachable(v, u) => u \in Reachable(dag, v)

(* A finished row has every vertex its file reaches, the file itself among *)
(* them, in graphs with cycles as well.                                    *)
Complete ==
  \A v \in Vertex :
    state[v] = "done" => Reachable(dag, v) \subseteq m_paths[v]

(* The constructor returns, whatever cycles the graph has: a vertex that   *)
(* is queued again and again is expanded once.                             *)
Termination == <>Constructed

-----------------------------------------------------------------------------
(***************************************************************************)
(* What a search keeps true between two steps, of its row and its queue:   *)
(* everything it has found is reachable, and the successors of a marked    *)
(* vertex are marked or queued.                                            *)
(***************************************************************************)
Found(v) == m_paths[v] \cup ToSet(vs[v])

NotStarted(v) == vs[v] = <<>> /\ m_paths[v] = {}

RowInvariant(v) ==
  /\ Found(v) \subseteq Reachable(dag, v)
  /\ IF state[v] = "waiting" THEN NotStarted(v) ELSE v \in Found(v)
  /\ \A u \in m_paths[v] : ToSet(dag[u]) \subseteq Found(v)
  /\ state[v] = "done" => vs[v] = <<>>

(* The invariant of the loop, which holds of every row at any moment.      *)
SearchInvariant == \A v \in Vertex : RowInvariant(v)
=============================================================================
