--------------------------- MODULE Report_proofs ---------------------------
(***************************************************************************)
(* run() on every project: the two analyses that search the graph with     *)
(* state they keep between searches report what they promise.              *)
(*                                                                         *)
(* A search is right while what it has visited and what is on its stack is *)
(* reachable, and every successor of what it has visited is visited or on  *)
(* the stack (Search in IncludeDigraph_proofs); once the stack is empty it *)
(* has visited exactly what is reachable.  The invariants say which search *)
(* of which graph each phase of an analysis is in, and what has been summed*)
(* so far.                                                                 *)
(***************************************************************************)
EXTENDS Report, IncludeDigraph_proofs

(* What a build returns, whatever the sources.                             *)
ResultType ==
  [graph : AdjacencyList, sources : Seq(Vertex),
   component : [Vertex -> SUBSET Vertex], is_external : SUBSET Vertex,
   internal_incoming : [Vertex -> Nat]]

LEMMA VertexFinite == IsFiniteSet(Vertex)
BY VertexAssumption

LEMMA ResultOfType ==
  ASSUME project \in Project, NEW found \in Seq(Vertex)
  PROVE  ResultOf(found) \in ResultType
<1> DEFINE in == UNION {Reachable(project.graph, v) : v \in ToSet(found)}
           incoming(v) == {u \in in \ project.is_external :
                             v \in ToSet(project.graph[u])}
<1>1. in \in SUBSET Vertex
  BY DEF Reachable
<1>2. /\ project.graph \in [Vertex -> Seq(Vertex)]
      /\ project.component \in [Vertex -> SUBSET Vertex]
      /\ project.is_external \in SUBSET Vertex
  BY DEF Project, AdjacencyList
<1>3. \A v \in Vertex : Cardinality(incoming(v)) \in Nat
  BY <1>1, VertexFinite, FS_Subset, FS_CardinalityType
<1>4. ResultOf(found) =
        [graph |-> [v \in Vertex |-> IF v \in in THEN project.graph[v] ELSE <<>>],
         sources |-> found,
         component |-> [v \in Vertex |->
                          IF v \in in THEN project.component[v] \cap in ELSE {}],
         is_external |-> project.is_external \cup (Vertex \ in),
         internal_incoming |-> [v \in Vertex |-> Cardinality(incoming(v))]]
  BY DEF ResultOf
<1> HIDE DEF in, incoming
<1>5. /\ [v \in Vertex |-> IF v \in in THEN project.graph[v] ELSE <<>>]
           \in AdjacencyList
      /\ [v \in Vertex |-> IF v \in in THEN project.component[v] \cap in ELSE {}]
           \in [Vertex -> SUBSET Vertex]
      /\ project.is_external \cup (Vertex \ in) \in SUBSET Vertex
      /\ [v \in Vertex |-> Cardinality(incoming(v))] \in [Vertex -> Nat]
  BY <1>1, <1>2, <1>3 DEF AdjacencyList
<1> QED BY <1>4, <1>5 DEF ResultType

LEMMA TotalCostType ==
  ASSUME project \in Project, NEW found \in Seq(Vertex)
  PROVE  TotalCostOf(found) \in Nat
<1> DEFINE of(v) == SumFunctionOnSet(true_cost, Reachable(project.graph, v))
           costs == [p \in DOMAIN found |-> of(found[p])]
<1>1. \A v \in Vertex : true_cost[v] \in Nat
  BY DEF true_cost, Project
<1>2. \A v \in Vertex : of(v) \in Nat
  <2> SUFFICES ASSUME NEW v \in Vertex PROVE of(v) \in Nat
    OBVIOUS
  <2>1. Reachable(project.graph, v) \subseteq Vertex
    BY DEF Reachable
  <2>2. IsFiniteSet(Reachable(project.graph, v))
    BY <2>1, VertexFinite, FS_Subset
  <2> QED BY <1>1, <2>1, <2>2, SumType
<1>3. DOMAIN found = 1..Len(found) /\ Len(found) \in Nat
  OBVIOUS
<1>4. IsFiniteSet(DOMAIN found)
  BY <1>3, FS_Interval
<1>5. \A p \in DOMAIN found : costs[p] \in Nat
  BY <1>2, <1>3
<1>6. TotalCostOf(found) = SumFunctionOnSet(costs, DOMAIN costs) /\ DOMAIN costs = DOMAIN found
  BY DEF TotalCostOf, SumFunction
<1> HIDE DEF costs
<1> QED BY <1>4, <1>5, <1>6, SumType

(* The stages before the build has returned, and before an analysis is     *)
(* called.                                                                 *)
NotBuilt == {"options", "listing", "build"}
BeforeIncludes == NotBuilt \cup {"built", "unreferenced components"}
BeforePch == BeforeIncludes \cup {"include directives"}

Stages ==
  {"options", "listing", "build", "built", "unreferenced components",
   "include directives", "pch additions", "inline sources",
   "topological order", "exited"}

(* The invariant of run() itself: the analyses are called with a result of *)
(* the build and a cutoff that is not negative, and have done nothing      *)
(* before.                                                                 *)
CalledRight ==
  /\ project \in Project
  /\ stage \in Stages
  /\ m_sources \in Seq(Vertex)
  /\ result \in ResultType
  /\ project_cost \in Nat
  /\ Rejected => stage \in {"options", "exited"} /\ project_cost = 0
  /\ stage \in BeforeIncludes => Includes!Init
  /\ stage \in BeforePch => Pch!Init

(* What the steps of run() leave to the two analyses below: a build before *)
(* either is called, one step of the analysis that runs, or neither.       *)
Builds ==
  /\ stage \in NotBuilt
  /\ ~Rejected \/ stage # "options"
  /\ stage' = "built"
  /\ \E found \in {project.database, m_sources} : Result(found)
  /\ UNCHANGED analyses

LEMMA Steps ==
  ASSUME [Next]_vars
  PROVE  /\ UNCHANGED project
         /\ \/ Builds
            \/ UNCHANGED <<resultVars, includesVars, pchVars>>
            \/ /\ stage = "include directives"
               /\ UNCHANGED <<resultVars, pchVars>>
               /\ \/ stage' = "include directives" /\ (Includes!Call \/ Includes!Next)
                  \/ stage' = "pch additions" /\ UNCHANGED includesVars
            \/ /\ stage = "pch additions"
               /\ UNCHANGED <<resultVars, includesVars>>
               /\ \/ stage' = "pch additions" /\ (Pch!Call \/ Pch!Next)
                  \/ stage' = "inline sources" /\ UNCHANGED pchVars
<1>1. CASE RejectOptions
  BY <1>1 DEF RejectOptions, analyses
<1>2. CASE Load
  BY <1>2 DEF Load, AcceptOptions, Builds, NotBuilt
<1>3. CASE ReadDatabase
  BY <1>3 DEF ReadDatabase, AcceptOptions, analyses
<1>4. CASE StartListing
  BY <1>4 DEF StartListing, AcceptOptions, analyses
<1>5. CASE OpenDirectory \/ NextEntry \/ Listed
  BY <1>5 DEF OpenDirectory, NextEntry, Listed, analyses
<1>6. CASE BuildFails
  BY <1>6 DEF BuildFails, analyses
<1>7. CASE Build
  BY <1>7 DEF Build, Builds, NotBuilt
<1>8. CASE Analyze \/ SkipAnalysis
  BY <1>8 DEF Analyze, SkipAnalysis, AfterAnalysis, analyses
<1>9. CASE UnreferencedComponents
  BY <1>9 DEF UnreferencedComponents
<1>10. CASE IncludeDirectives
  BY <1>10 DEF IncludeDirectives
<1>11. CASE PchAdditions
  BY <1>11 DEF PchAdditions
<1>12. CASE InlineSources
  BY <1>12 DEF InlineSources, AfterAnalysis, analyses
<1>13. CASE TopologicalOrder
  BY <1>13 DEF TopologicalOrder
<1>14. CASE Exited \/ UNCHANGED vars
  BY <1>14 DEF Exited, vars, analyses
<1> QED BY <1>1, <1>2, <1>3, <1>4, <1>5, <1>6, <1>7, <1>8, <1>9, <1>10, <1>11,
           <1>12, <1>13, <1>14 DEF Next

LEMMA CalledRightInit ==
  ASSUME Init
  PROVE  CalledRight
<1>1. project \in Project
  BY ProjectsAssumption DEF Init
<1>2. <<>> \in Seq(Vertex)
  OBVIOUS
<1>3. result \in ResultType
  BY <1>1, <1>2, ResultOfType DEF Init
<1>4. Includes!Init /\ Pch!Init
  BY DEF Init
<1> QED BY <1>1, <1>2, <1>3, <1>4
        DEF Init, CalledRight, Stages, BeforeIncludes, BeforePch, NotBuilt

LEMMA CalledRightStep ==
  ASSUME CalledRight, [Next]_vars
  PROVE  CalledRight'
<1> USE DEF CalledRight
<1>1. project' = project
  BY Steps
<1>2. /\ stage' \in Stages
      /\ stage' \in BeforeIncludes => stage \in BeforeIncludes
      /\ stage' \in BeforePch => stage \in BeforePch
      /\ Rejected => stage' \in {"options", "exited"} /\ ~Builds
  <2> USE DEF Stages, BeforeIncludes, BeforePch, NotBuilt
  <2>1. CASE RejectOptions
    BY <2>1 DEF RejectOptions, Exit, Builds
  <2>2. CASE Load
    BY <2>2 DEF Load, AcceptOptions, Builds
  <2>3. CASE ReadDatabase \/ StartListing
    BY <2>3 DEF ReadDatabase, StartListing, AcceptOptions, Builds
  <2>4. CASE OpenDirectory \/ NextEntry \/ Listed
    BY <2>4 DEF OpenDirectory, NextEntry, Listed, Builds
  <2>5. CASE BuildFails \/ Build
    BY <2>5 DEF BuildFails, Build, Exit, Builds
  <2>6. CASE Analyze \/ SkipAnalysis
    BY <2>6 DEF Analyze, SkipAnalysis, AfterAnalysis, Exit, Builds
  <2>7. CASE UnreferencedComponents
    BY <2>7 DEF UnreferencedComponents, Builds
  <2>8. CASE IncludeDirectives
    BY <2>8 DEF IncludeDirectives, Builds
  <2>9. CASE PchAdditions
    BY <2>9 DEF PchAdditions, Builds
  <2>10. CASE InlineSources
    BY <2>10 DEF InlineSources, AfterAnalysis, Exit, Builds
  <2>11. CASE TopologicalOrder
    BY <2>11 DEF TopologicalOrder, Exit, Builds
  <2>12. CASE Exited \/ UNCHANGED vars
    BY <2>12 DEF Exited, vars, Builds
  <2> QED BY <2>1, <2>2, <2>3, <2>4, <2>5, <2>6, <2>7, <2>8, <2>9, <2>10, <2>11,
             <2>12 DEF Next
<1>3. m_sources' \in Seq(Vertex)
  <2>1. project.database \in Seq(Vertex) /\ project.is_source \subseteq Vertex
    BY DEF Project
  <2>2. CASE ReadDatabase
    BY <2>1, <2>2 DEF ReadDatabase
  <2>3. CASE NextEntry
    BY <2>1, <2>3 DEF NextEntry
  <2>4. CASE UNCHANGED m_sources
    BY <2>4
  <2>5. ReadDatabase \/ NextEntry \/ UNCHANGED m_sources
    BY DEF Next, RejectOptions, Load, StartListing, OpenDirectory, Listed,
           BuildFails, Build, Analyze, SkipAnalysis, AfterAnalysis,
           UnreferencedComponents, IncludeDirectives, PchAdditions,
           InlineSources, TopologicalOrder, Exited, vars, listVars
  <2> QED BY <2>2, <2>3, <2>4, <2>5
<1>4. /\ result' \in ResultType /\ project_cost' \in Nat
      /\ Rejected => project_cost' = 0
  <2>1. CASE Builds
    <3>1. PICK found \in {project.database, m_sources} : Result(found)
      BY <2>1 DEF Builds
    <3>2. found \in Seq(Vertex)
      BY DEF Project
    <3> QED BY <2>1, <3>1, <3>2, <1>2, ResultOfType, TotalCostType DEF Result
  <2>2. CASE UNCHANGED resultVars
    BY <2>2 DEF resultVars
  <2> QED BY <2>1, <2>2, Steps
<1>5. Rejected' <=> Rejected
  BY <1>1 DEF Rejected
<1>6. stage' \in BeforeIncludes => Includes!Init'
  <2>1. stage' \in BeforeIncludes => UNCHANGED includesVars
    BY Steps DEF Builds, analyses, BeforeIncludes, NotBuilt
  <2> QED BY <1>2, <2>1 DEF includesVars, Includes!Init, Includes!Uninitialized
<1>7. stage' \in BeforePch => Pch!Init'
  <2>1. stage' \in BeforePch => UNCHANGED pchVars
    BY Steps DEF Builds, analyses, BeforePch, BeforeIncludes, NotBuilt
  <2> QED BY <1>2, <2>1 DEF pchVars, Pch!Init
<1> QED BY <1>1, <1>2, <1>3, <1>4, <1>5, <1>6, <1>7

LEMMA InputsTyped ==
  ASSUME CalledRight
  PROVE  pchInput \in Pch!Input /\ includesInput \in Includes!Input
<1>1. /\ result.graph \in AdjacencyList /\ result.sources \in Seq(Vertex)
      /\ result.is_external \in SUBSET Vertex
      /\ result.internal_incoming \in [Vertex -> Nat]
  BY DEF CalledRight, ResultType
<1>2. /\ project.token_count \in [Vertex -> Nat]
      /\ project.is_precompiled \in SUBSET Vertex
      /\ project.not_removable \in SUBSET (Vertex \X (Nat \ {0}))
      /\ project.cutoff \in Int
      /\ project.pch_ratio \in Nat \X (Nat \ {0})
  BY DEF CalledRight, Project
<1>3. true_cost \in [Vertex -> Nat]
  BY <1>2 DEF true_cost
<1>4. minimum_token_count_cut_off \in Nat
  <2>1. project_cost * project.cutoff \in Nat
    <3>1. CASE project.cutoff < 0
      BY <1>2, <3>1 DEF CalledRight, Rejected
    <3>2. CASE project.cutoff >= 0
      <4>1. \A m, n \in Nat : m * n \in Nat
        OBVIOUS
      <4> QED BY <3>2, <4>1, <1>2 DEF CalledRight
    <3> QED BY <3>1, <3>2, <1>2
  <2>2. \A n \in Nat : n \div 100 \in Nat
    OBVIOUS
  <2> QED BY <2>1, <2>2 DEF minimum_token_count_cut_off
<1>5. Pch!AdjacencyList = AdjacencyList /\ Includes!AdjacencyList = AdjacencyList
  BY DEF Pch!AdjacencyList, Includes!AdjacencyList, AdjacencyList
<1> QED BY <1>1, <1>2, <1>3, <1>4, <1>5
        DEF pchInput, includesInput, Pch!Input, Includes!Input, Includes!Include

LEMMA CalledRightAlways == Spec => []CalledRight
<1>1. Init => CalledRight
  BY CalledRightInit
<1>2. CalledRight /\ [Next]_vars => CalledRight'
  BY CalledRightStep
<1> QED BY <1>1, <1>2, PTL DEF Spec

LEMMA InputsTypedAlways == Spec => [](pchInput \in Pch!Input /\ includesInput \in Includes!Input)
<1>1. CalledRight => pchInput \in Pch!Input /\ includesInput \in Includes!Input
  BY InputsTyped
<1> QED BY <1>1, CalledRightAlways, PTL

LEMMA PchNames ==
  /\ \A s : Pch!ToSet(s) = ToSet(s) /\ Pch!Last(s) = Last(s) /\ Pch!Front(s) = Front(s)
  /\ \A g, v : Pch!Reachable(g, v) = Reachable(g, v)
  /\ \A f, S : Pch!SumFunctionOnSet(f, S) = SumFunctionOnSet(f, S)
<1>1. \A s : Pch!ToSet(s) = ToSet(s) /\ Pch!Last(s) = Last(s) /\ Pch!Front(s) = Front(s)
  BY DEF Pch!ToSet, ToSet, Pch!Last, Last, Pch!Front, Front
<1>2. \A g, v : Pch!Reachable(g, v) = Reachable(g, v)
  BY <1>1 DEF Pch!Reachable, Reachable, Pch!Closed, Closed
<1>3. \A f, S : Pch!SumFunctionOnSet(f, S) = SumFunctionOnSet(f, S)
  BY Zenon DEF Pch!SumFunctionOnSet, SumFunctionOnSet, Pch!FoldFunctionOnSet, FoldFunctionOnSet,
         Pch!MapThenFoldSet, MapThenFoldSet
<1> QED BY <1>1, <1>2, <1>3

-----------------------------------------------------------------------------
(***************************************************************************)
(* recommend_precompiled.                                                  *)
(*                                                                         *)
(* The search that marks what a header would add follows nothing that is   *)
(* precompiled already: it is a search of Unprecompiled, for which what it *)
(* meets there counts as visited.  The search from each source but the     *)
(* first is a search of the graph; the first starts with the marks in its  *)
(* place, and counts nothing.                                              *)
(***************************************************************************)
PassedBy(f) == pchInput.is_precompiled \cap Reachable(Pch!Unprecompiled, f)

(* The invariant, phase by phase.                                          *)
PchMarking ==
  r_phase = "marking" =>
    /\ r_state = r_newly
    /\ r_newly \cap pchInput.is_precompiled = {}
    /\ Search(Pch!Unprecompiled, r_file, r_newly \cup PassedBy(r_file),
              ToSet(r_stack))
    /\ r_r = [extra |-> Pch!CostOf(r_newly), saving |-> 0]

PchBetween ==
  r_phase = "sources" =>
    /\ r_stack = <<>>
    /\ r_i \in 1..(Len(pchInput.sources) + 1)
    /\ r_state = IF r_i = 1 THEN r_newly ELSE {}
    /\ r_r.saving = Pch!Saved(r_file, 2..(r_i - 1))

PchSearching ==
  r_phase = "searching" =>
    /\ r_i \in 1..Len(pchInput.sources)
    /\ r_i = 1 => r_newly \subseteq r_state /\ r_r.saving = 0
    /\ r_i # 1 =>
         /\ Search(pchInput.graph, pchInput.sources[r_i], r_state, ToSet(r_stack))
         /\ r_r.saving = Pch!Saved(r_file, 2..(r_i - 1))
                           + Pch!CostOf(r_newly \cap r_state)

PchFile ==
  r_phase \in {"marking", "sources", "searching"} =>
    r_file \in r_left /\ Pch!IsCandidate(r_file)

PchResults ==
  /\ r_phase = "ready" => r_results = {}
  /\ pchInput.sources = <<>> => r_left = {} /\ r_results = {}
  /\ \A x \in r_results : x.v \notin r_left

\* What the loop does for f in the end: the first source saves nothing.
Outcome(f) ==
  LET saving == Pch!Saved(f, 2..Len(pchInput.sources))
      extra == Pch!CostOf(Pch!Added(f)) IN
  IF Pch!IsCandidate(f) /\ saving >= Pch!Cutoff(extra)
  THEN {[v |-> f, saving |-> saving, extra |-> extra]} ELSE {}

PchOutcomes ==
  r_phase # "ready" /\ pchInput.sources # <<>> =>
    \A f \in Vertex \ r_left : {x \in r_results : x.v = f} = Outcome(f)

PchInv ==
  /\ Pch!TypeOK
  /\ PchResults /\ PchFile /\ PchMarking /\ PchBetween /\ PchSearching
  /\ Pch!MarkedRight /\ PchOutcomes

LEMMA PchInputParts ==
  ASSUME pchInput \in Pch!Input
  PROVE  /\ pchInput.graph \in AdjacencyList
         /\ pchInput.sources \in Seq(Vertex) /\ Len(pchInput.sources) \in Nat
         /\ \A j \in 1..Len(pchInput.sources) : pchInput.sources[j] \in Vertex
         /\ pchInput.cost \in [Vertex -> Nat]
         /\ pchInput.is_precompiled \in SUBSET Vertex
         /\ pchInput.minimum_token_count_cut_off \in Nat
         /\ pchInput.minimum_saving_ratio \in Nat \X (Nat \ {0})
<1>1. pchInput.sources \in Seq(Vertex)
  BY DEF Pch!Input
<1>2. Len(pchInput.sources) \in Nat
      /\ \A j \in 1..Len(pchInput.sources) : pchInput.sources[j] \in Vertex
  BY <1>1
<1> QED BY <1>1, <1>2 DEF Pch!Input, Pch!AdjacencyList, AdjacencyList

LEMMA UnprecompiledType ==
  ASSUME pchInput \in Pch!Input
  PROVE  /\ Pch!Unprecompiled \in AdjacencyList
         /\ \A v \in Vertex : Pch!Unprecompiled[v]
              = IF v \in pchInput.is_precompiled THEN <<>> ELSE pchInput.graph[v]
<1>1. pchInput.graph \in [Vertex -> Seq(Vertex)]
  BY PchInputParts DEF AdjacencyList
<1> QED BY <1>1 DEF Pch!Unprecompiled, AdjacencyList

LEMMA PchCosts ==
  ASSUME pchInput \in Pch!Input
  PROVE  /\ Pch!CostOf({}) = 0
         /\ \A S \in SUBSET Vertex : Pch!CostOf(S) \in Nat
         /\ \A S \in SUBSET Vertex : \A v \in Vertex \ S :
              Pch!CostOf(S \cup {v}) = Pch!CostOf(S) + pchInput.cost[v]
         /\ \A S \in SUBSET Vertex : \A T \in SUBSET S :
              Pch!CostOf(T) <= Pch!CostOf(S)
<1> DEFINE cost == pchInput.cost
<1>1. \A S : Pch!CostOf(S) = SumFunctionOnSet(cost, S)
  BY PchNames DEF Pch!CostOf
<1>2. \A v \in Vertex : cost[v] \in Nat
  BY PchInputParts
<1>3. \A S \in SUBSET Vertex : IsFiniteSet(S)
  BY VertexFinite, FS_Subset
<1> HIDE DEF cost
<1>4. ASSUME NEW S \in SUBSET Vertex
      PROVE  SumFunctionOnSet(cost, S) \in Nat
  BY <1>2, <1>3, SumType
<1>5. ASSUME NEW S \in SUBSET Vertex, NEW v \in Vertex \ S
      PROVE  SumFunctionOnSet(cost, S \cup {v}) = SumFunctionOnSet(cost, S) + cost[v]
  <2>1. \A y \in S \cup {v} : cost[y] \in Nat
    BY <1>2
  <2> QED BY <1>3, <2>1, SumAdd
<1>6. ASSUME NEW S \in SUBSET Vertex, NEW T \in SUBSET S
      PROVE  SumFunctionOnSet(cost, T) <= SumFunctionOnSet(cost, S)
  <2>1. \A x \in S : cost[x] \in Nat
    BY <1>2
  <2> QED BY <1>3, <2>1, SumSubset
<1> QED BY <1>1, <1>4, <1>5, <1>6, SumOfNothing DEF cost

LEMMA PchSavings ==
  ASSUME pchInput \in Pch!Input, NEW f \in Vertex
  PROVE  LET n == Len(pchInput.sources) IN
         /\ Pch!Added(f) \in SUBSET Vertex
         /\ \A k \in 0..n : Pch!Saved(f, 2..k) \in Nat
         /\ \A k \in 0..1 : Pch!Saved(f, 2..k) = 0
         /\ \A k \in 2..n : Pch!Saved(f, 2..k) =
                              Pch!Saved(f, 2..(k - 1)) + Pch!SavedBy(f, k)
         /\ \A k \in 1..n : Pch!Saved(f, 2..n) <=
              Pch!Saved(f, 2..(k - 1)) + Pch!CostOf(Pch!Added(f)) * (n - k + 1)
         /\ Pch!Saved(f, 2..n) <= Pch!Saved(f, 1..n)
<1> DEFINE n == Len(pchInput.sources)
           by == [j \in DOMAIN pchInput.sources |-> Pch!SavedBy(f, j)]
           extra == Pch!CostOf(Pch!Added(f))
<1>1. n \in Nat /\ DOMAIN pchInput.sources = 1..n
  BY PchInputParts
<1>2. Pch!Added(f) \in SUBSET Vertex
  BY PchNames DEF Pch!Added, Reachable
<1>3. extra \in Nat
  BY <1>2, PchCosts
<1>4. ASSUME NEW j \in 1..n
      PROVE  by[j] = Pch!SavedBy(f, j) /\ by[j] \in Nat /\ by[j] <= extra
  <2> DEFINE S == Pch!Reachable(pchInput.graph, pchInput.sources[j])
  <2>1. by[j] = Pch!SavedBy(f, j)
    BY <1>1
  <2>2. Pch!SavedBy(f, j) = Pch!CostOf(Pch!Added(f) \cap S)
    BY DEF Pch!SavedBy
  <2>3. /\ Pch!Added(f) \cap S \in SUBSET Vertex
        /\ Pch!Added(f) \cap S \in SUBSET Pch!Added(f)
    BY <1>2
  <2> HIDE DEF S, by
  <2> QED BY <2>1, <2>2, <2>3, <1>2, PchCosts
<1>5. \A S : Pch!Saved(f, S) = SumFunctionOnSet(by, S)
  BY PchNames DEF Pch!Saved
<1> HIDE DEF by, extra
<1>6. \A k \in 0..n : IsFiniteSet(2..k) /\ 2..k \subseteq 1..n
  BY <1>1, FS_Interval
<1>7. ASSUME NEW k \in 0..n
      PROVE  SumFunctionOnSet(by, 2..k) \in Nat
  BY <1>4, <1>6, SumType
<1>8. ASSUME NEW k \in 0..1
      PROVE  SumFunctionOnSet(by, 2..k) = 0
  <2>1. 2..k = {}
    OBVIOUS
  <2> QED BY <2>1, SumOfNothing
<1>9. ASSUME NEW k \in 2..n
      PROVE  SumFunctionOnSet(by, 2..k) = SumFunctionOnSet(by, 2..(k - 1)) + by[k]
  <2>1. k - 1 \in 0..n /\ k \notin 2..(k - 1) /\ 2..k = 2..(k - 1) \cup {k}
    BY <1>1
  <2>2. \A y \in 2..(k - 1) \cup {k} : by[y] \in Nat
    BY <1>1, <1>4
  <2>3. SumFunctionOnSet(by, 2..(k - 1) \cup {k}) = SumFunctionOnSet(by, 2..(k - 1)) + by[k]
    BY <1>6, <2>1, <2>2, SumAdd
  <2> QED BY <2>1, <2>3
<1>10. ASSUME NEW k \in 1..n
       PROVE  SumFunctionOnSet(by, 2..n) <=
                SumFunctionOnSet(by, 2..(k - 1)) + extra * (n - k + 1)
  <2>1. /\ IsFiniteSet(2..n) /\ 2..(k - 1) \in SUBSET (2..n)
        /\ \A j \in 2..n : by[j] \in Nat
        /\ \A j \in (2..n) \ (2..(k - 1)) : by[j] <= extra
    BY <1>1, <1>4, <1>6
  <2> DEFINE rest == (2..n) \ (2..(k - 1))
  <2>2. SumFunctionOnSet(by, 2..n) <=
          SumFunctionOnSet(by, 2..(k - 1)) + extra * Cardinality(rest)
    BY <1>3, <2>1, SumBounded
  <2>3. Cardinality(rest) \in Nat /\ Cardinality(rest) <= n - k + 1
    <3>1. rest \subseteq k..n
      OBVIOUS
    <3>2. IsFiniteSet(k..n) /\ Cardinality(k..n) = n - k + 1
      <4>1. k \in Int /\ n \in Int /\ ~(k > n)
        BY <1>1
      <4> QED BY <4>1, FS_Interval
    <3> HIDE DEF rest
    <3> QED BY <3>1, <3>2, FS_Subset, FS_CardinalityType
  <2> HIDE DEF rest
  <2>4. \A a \in Nat : \A b \in Nat : \A c \in Nat : b <= c => a * b <= a * c
    OBVIOUS
  <2>5. extra * Cardinality(rest) <= extra * (n - k + 1)
    BY <1>1, <1>3, <2>3, <2>4
  <2>6. /\ SumFunctionOnSet(by, 2..n) \in Nat
        /\ SumFunctionOnSet(by, 2..(k - 1)) \in Nat
        /\ extra * Cardinality(rest) \in Int /\ extra * (n - k + 1) \in Int
    <3>1. k - 1 \in 0..n /\ n \in 0..n
      BY <1>1
    <3> QED BY <3>1, <1>1, <1>3, <1>7, <2>3
  <2> QED BY <2>2, <2>5, <2>6
<1>11. SumFunctionOnSet(by, 2..n) <= SumFunctionOnSet(by, 1..n)
  <2>1. IsFiniteSet(1..n) /\ 2..n \in SUBSET (1..n)
    BY <1>1, FS_Interval
  <2> QED BY <1>4, <2>1, SumSubset
<1> QED BY <1>1, <1>2, <1>4, <1>5, <1>7, <1>8, <1>9, <1>10, <1>11 DEF extra

LEMMA PchSame ==
  ASSUME pchInput' = pchInput
  PROVE  /\ \A S : Pch!CostOf(S)' = Pch!CostOf(S)
         /\ Pch!Unprecompiled' = Pch!Unprecompiled
         /\ \A f : Pch!Added(f)' = Pch!Added(f)
         /\ \A f : PassedBy(f)' = PassedBy(f)
         /\ \A f : Pch!IsCandidate(f)' <=> Pch!IsCandidate(f)
         /\ \A f, j : Pch!SavedBy(f, j)' = Pch!SavedBy(f, j)
         /\ \A f, S : Pch!Saved(f, S)' = Pch!Saved(f, S)
         /\ \A n : Pch!Cutoff(n)' = Pch!Cutoff(n)
<1>1. \A S : Pch!CostOf(S)' = Pch!CostOf(S)
  BY DEF Pch!CostOf
<1>2. Pch!Unprecompiled' = Pch!Unprecompiled
  BY DEF Pch!Unprecompiled
<1>3. \A f : Pch!Added(f)' = Pch!Added(f)
  BY <1>2 DEF Pch!Added
<1>4. \A f : PassedBy(f)' = PassedBy(f)
  BY <1>2 DEF PassedBy
<1>5. \A f : Pch!IsCandidate(f)' <=> Pch!IsCandidate(f)
  BY DEF Pch!IsCandidate
<1>6. \A f, j : Pch!SavedBy(f, j)' = Pch!SavedBy(f, j)
  BY <1>1, <1>3 DEF Pch!SavedBy
<1>7. \A f, S : Pch!Saved(f, S)' = Pch!Saved(f, S)
  BY <1>6 DEF Pch!Saved
<1>8. \A n : Pch!Cutoff(n)' = Pch!Cutoff(n)
  BY DEF Pch!Cutoff
<1> QED BY <1>1, <1>2, <1>3, <1>4, <1>5, <1>6, <1>7, <1>8

LEMMA OutcomeSame ==
  ASSUME pchInput' = pchInput
  PROVE  \A f : Outcome(f)' = Outcome(f)
BY PchSame DEF Outcome

LEMMA OutcomesNext ==
  ASSUME pchInput' = pchInput
  PROVE  PchOutcomes' <=>
           (r_phase' # "ready" /\ pchInput.sources # <<>> =>
              \A f \in Vertex \ r_left' : {x \in r_results' : x.v = f} = Outcome(f))
BY OutcomeSame DEF PchOutcomes

LEMMA CutoffType ==
  ASSUME pchInput \in Pch!Input, NEW n \in Nat
  PROVE  Pch!Cutoff(n) \in Int
<1> DEFINE ratio == pchInput.minimum_saving_ratio
           scaled == (ratio[1] * n) \div ratio[2]
           least == pchInput.minimum_token_count_cut_off
<1>1. ratio[1] \in Nat /\ ratio[2] \in Nat \ {0} /\ least \in Nat
  BY PchInputParts
<1>2. scaled \in Int
  <2>1. ratio[1] * n \in Int
    BY <1>1
  <2>2. \A a \in Int : \A b \in Nat \ {0} : a \div b \in Int
    OBVIOUS
  <2> QED BY <1>1, <2>1, <2>2
<1>3. Pch!Cutoff(n) = Pch!Max({scaled, least})
  BY DEF Pch!Cutoff
<1> HIDE DEF scaled, least
<1>4. \E m \in {scaled, least} : \A k \in {scaled, least} : m >= k
  BY <1>1, <1>2
<1>5. Pch!Max({scaled, least}) \in {scaled, least}
  BY <1>4 DEF Pch!Max
<1> QED BY <1>1, <1>2, <1>3, <1>5

LEMMA MinIn ==
  ASSUME NEW S \in SUBSET Vertex, S # {}
  PROVE  Pch!Min(S) \in S
<1>1. Vertex \subseteq Nat
  <2>1. Cardinality(Vertex) \in Nat
    BY VertexAssumption, FS_CardinalityType
  <2>2. \A n \in Nat : 1..n \subseteq Nat
    OBVIOUS
  <2> QED BY <2>1, <2>2, VertexAssumption
<1>2. \E n \in S : \A m \in S : n <= m
  BY <1>1, Least
<1> QED BY <1>2 DEF Pch!Min

(* The invariant holds at first, and every step of the analysis keeps it.  *)
LEMMA PchInit ==
  ASSUME Pch!Init, pchInput \in Pch!Input
  PROVE  PchInv
<1> USE DEF Pch!Init
<1>1. Pch!TypeOK
  BY DEF Pch!TypeOK
<1>2. PchResults /\ PchFile /\ PchMarking /\ PchBetween /\ PchSearching
  BY DEF PchResults, PchFile, PchMarking, PchBetween, PchSearching
<1>3. Pch!MarkedRight /\ PchOutcomes
  BY DEF Pch!MarkedRight, PchOutcomes
<1> QED BY <1>1, <1>2, <1>3 DEF PchInv

\* What PchInv says of a state whose input is the one of the state before.
PchStepped ==
  /\ pchInput \in Pch!Input
  /\ pchInput' = pchInput
  /\ PchInv

LEMMA PchCall ==
  ASSUME PchStepped, Pch!Call
  PROVE  PchInv'
<1> USE DEF PchStepped, PchInv, Pch!Call
<1>1. Pch!TypeOK'
  BY DEF Pch!TypeOK
<1>2. PchResults' /\ PchFile' /\ PchMarking' /\ PchBetween' /\ PchSearching'
  BY DEF PchResults, PchFile, PchMarking, PchBetween, PchSearching
<1>3. Pch!MarkedRight'
  BY DEF Pch!MarkedRight
<1>4. PchOutcomes'
  <2>1. ASSUME pchInput.sources # <<>>, NEW f \in Vertex \ r_left' PROVE FALSE
    BY <2>1
  <2> QED BY <2>1 DEF PchOutcomes
<1> QED BY <1>1, <1>2, <1>3, <1>4

LEMMA PchNotCandidate ==
  ASSUME PchStepped, Pch!NotCandidate
  PROVE  PchInv'
<1> USE DEF PchStepped, PchInv, Pch!NotCandidate, Pch!NextFile
<1>1. Pch!TypeOK'
  BY DEF Pch!TypeOK
<1>2. PchResults' /\ PchFile' /\ PchMarking' /\ PchBetween' /\ PchSearching'
  BY DEF PchResults, PchFile, PchMarking, PchBetween, PchSearching
<1>3. Pch!MarkedRight'
  BY DEF Pch!MarkedRight
<1>4. PchOutcomes'
  <2> DEFINE f == Pch!Min(r_left)
  <2>1. f \in r_left /\ r_left \subseteq Vertex
    BY MinIn DEF Pch!TypeOK
  <2>2. Outcome(f) = {} /\ {x \in r_results : x.v = f} = {}
    BY <2>1 DEF Outcome, PchResults
  <2> HIDE DEF f
  <2>3. ASSUME pchInput.sources # <<>>, NEW g \in Vertex \ r_left'
        PROVE  {x \in r_results : x.v = g} = Outcome(g)
    <3>1. r_left' = r_left \ {f}
      BY DEF f
    <3>2. CASE g = f
      BY <2>2, <3>2
    <3>3. CASE g # f
      BY <2>3, <3>1, <3>3 DEF PchOutcomes
    <3> QED BY <3>2, <3>3
  <2> QED BY <2>3, OutcomesNext
<1> QED BY <1>1, <1>2, <1>3, <1>4

LEMMA PchBegin ==
  ASSUME PchStepped, Pch!Begin
  PROVE  PchInv'
<1> USE DEF PchStepped, PchInv, Pch!Begin, Pch!NextFile
<1> DEFINE G == Pch!Unprecompiled
<1>1. PICK f \in Vertex : f = Pch!Min(r_left) /\ f \in r_left /\ Pch!IsCandidate(f)
  BY MinIn DEF Pch!TypeOK
<1>2. Pch!TypeOK'
  <2>1. <<f>> \in Seq(Vertex)
    BY <1>1
  <2> QED BY <1>1, <2>1 DEF Pch!TypeOK
<1>3. PchResults' /\ PchBetween' /\ PchSearching' /\ Pch!MarkedRight'
  BY DEF PchResults, PchBetween, PchSearching, Pch!MarkedRight
<1>4. PchFile'
  BY <1>1, PchSame DEF PchFile
<1>5. PchMarking'
  <2>1. Search(G, f, PassedBy(f), {f})
    <3>1. f \in Reachable(G, f)
      BY <1>1, UnprecompiledType, ReachesItself
    <3>2. \A u \in PassedBy(f) : ToSet(G[u]) = {}
      BY UnprecompiledType, SingletonQueue DEF PassedBy, Reachable
    <3> QED BY <3>1, <3>2 DEF Search, PassedBy
  <2>2. Search(G, f, {} \cup PassedBy(f), ToSet(<<f>>))
    BY <2>1, SingletonQueue
  <2>3. Pch!CostOf({}) = 0
    BY PchCosts
  <2> HIDE DEF G
  <2>4. /\ r_file' = f /\ r_newly' = {} /\ r_state' = {} /\ r_stack' = <<f>>
        /\ r_r' = [extra |-> 0, saving |-> 0]
    BY <1>1
  <2>5. Pch!Unprecompiled' = G /\ PassedBy(f)' = PassedBy(f) /\ Pch!CostOf({})' = Pch!CostOf({})
    BY PchSame DEF G
  <2> QED BY <2>2, <2>3, <2>4, <2>5, PchSame DEF PchMarking
<1>6. PchOutcomes'
  BY OutcomesNext DEF PchOutcomes
<1> QED BY <1>2, <1>3, <1>4, <1>5, <1>6

LEMMA PchTop ==
  ASSUME Pch!TypeOK, r_stack # <<>>
  PROVE  /\ Pch!Last(r_stack) \in Vertex
         /\ Pch!Front(r_stack) \in Seq(Vertex)
         /\ ToSet(r_stack) = {Pch!Last(r_stack)} \cup ToSet(Pch!Front(r_stack))
<1>1. r_stack \in Seq(Vertex)
  BY DEF Pch!TypeOK
<1> QED BY <1>1, LastInSeq, PchNames

\* What one iteration of either search leaves as it was.
LEMMA PchPopFrame ==
  ASSUME PchStepped, UNCHANGED <<r_phase, r_left, r_file, r_i, r_results>>,
         r_phase # "sources"
  PROVE  PchResults' /\ PchFile' /\ PchBetween' /\ PchOutcomes'
<1> USE DEF PchStepped, PchInv
<1>1. PchResults' /\ PchBetween'
  BY DEF PchResults, PchBetween
<1>2. PchFile'
  BY PchSame DEF PchFile
<1>3. PchOutcomes'
  BY OutcomesNext DEF PchOutcomes
<1> QED BY <1>1, <1>2, <1>3

LEMMA PchSkip ==
  ASSUME PchStepped, r_stack # <<>>, NEW v \in Vertex, v = Pch!Last(r_stack),
         Pch!Skip(v),
         \/ r_phase = "marking" /\ Pch!Passes(v)
         \/ r_phase = "searching" /\ v \in r_state
  PROVE  PchInv'
<1> USE DEF PchStepped, PchInv, Pch!Skip
<1>1. /\ r_stack' \in Seq(Vertex)
      /\ ToSet(r_stack) = {v} \cup ToSet(r_stack')
  BY PchTop
<1>2. Pch!TypeOK'
  BY <1>1 DEF Pch!TypeOK
<1>3. PchResults' /\ PchFile' /\ PchBetween' /\ PchOutcomes'
  BY PchPopFrame
<1>4. PchMarking'
  <2>1. SUFFICES ASSUME r_phase = "marking" PROVE PchMarking'
    BY DEF PchMarking
  <2> DEFINE seen == r_newly \cup PassedBy(r_file)
  <2>2. Search(Pch!Unprecompiled, r_file, seen, ToSet(r_stack))
    BY <2>1 DEF PchMarking
  <2>3. v \in seen
    BY <1>1, <2>1, <2>2 DEF PchMarking, Pch!Passes, PassedBy, Search
  <2>4. Search(Pch!Unprecompiled, r_file, seen, ToSet(r_stack'))
    <3> HIDE DEF seen
    <3> QED BY <1>1, <2>2, <2>3, SearchSkips
  <2> QED BY <2>1, <2>4, PchSame DEF PchMarking
<1>5. PchSearching'
  <2>1. SUFFICES ASSUME r_phase = "searching" PROVE PchSearching'
    BY DEF PchSearching
  <2>2. ASSUME r_i # 1
        PROVE  Search(pchInput.graph, pchInput.sources[r_i], r_state, ToSet(r_stack'))
    BY <1>1, <2>1, <2>2, SearchSkips DEF PchSearching
  <2> QED BY <2>1, <2>2, PchSame DEF PchSearching
<1>6. Pch!MarkedRight'
  BY PchSame DEF Pch!MarkedRight
<1> QED BY <1>2, <1>3, <1>4, <1>5, <1>6

LEMMA PchMark ==
  ASSUME PchStepped, r_stack # <<>>, NEW v \in Vertex, v = Pch!Last(r_stack),
         r_phase = "marking", ~Pch!Passes(v), Pch!Mark(v)
  PROVE  PchInv'
<1> USE DEF PchStepped, PchInv, Pch!Mark, Pch!Expand
<1> DEFINE G == Pch!Unprecompiled
           next == pchInput.graph[v]
           seen == r_newly \cup PassedBy(r_file)
<1>1. v \notin r_newly /\ v \notin pchInput.is_precompiled /\ r_newly \in SUBSET Vertex
  BY DEF Pch!Passes, PchMarking, Pch!TypeOK
<1>2. G \in AdjacencyList /\ G[v] = next /\ next \in Seq(Vertex)
  BY <1>1, UnprecompiledType, PchInputParts DEF AdjacencyList
<1>3. /\ r_stack' \in Seq(Vertex)
      /\ ToSet(r_stack) = {v} \cup ToSet(Pch!Front(r_stack))
      /\ ToSet(r_stack') = ToSet(Pch!Front(r_stack)) \cup ToSet(next)
  <2> HIDE DEF next
  <2>1. r_stack' = Pch!Front(r_stack) \o next
    BY DEF next
  <2> QED BY <1>2, <2>1, PchTop, ConcatInSeq
<1>4. Pch!TypeOK'
  <2>1. pchInput.cost[v] \in Nat
    BY PchInputParts
  <2> QED BY <1>3, <2>1 DEF Pch!TypeOK
<1>5. PchResults' /\ PchFile' /\ PchBetween' /\ PchOutcomes'
  BY PchPopFrame
<1>6. PchMarking'
  <2>1. Search(G, r_file, seen, ToSet(r_stack)) /\ r_file \in Vertex
    BY DEF PchMarking, PchFile, Pch!TypeOK
  <2>2. Search(G, r_file, seen \cup {v}, ToSet(r_stack'))
    <3> HIDE DEF G, seen, next
    <3> QED BY <1>2, <1>3, <2>1, SearchExpands
  <2>3. seen \cup {v} = (r_newly \cup {v}) \cup PassedBy(r_file)
    OBVIOUS
  <2>4. Pch!CostOf(r_newly \cup {v}) = Pch!CostOf(r_newly) + pchInput.cost[v]
    BY <1>1, PchCosts
  <2>5. r_r' = [extra |-> Pch!CostOf(r_newly \cup {v}), saving |-> 0]
    <3>1. r_r = [extra |-> Pch!CostOf(r_newly), saving |-> 0]
      BY DEF PchMarking
    <3>2. \A c, k : [[extra |-> c, saving |-> 0] EXCEPT !.extra = c + k]
                     = [extra |-> c + k, saving |-> 0]
      OBVIOUS
    <3>3. r_r.extra = Pch!CostOf(r_newly)
      BY <3>1
    <3> QED BY <2>4, <3>1, <3>2, <3>3, Zenon
  <2>6. r_newly' = r_newly \cup {v} /\ r_state' = r_newly \cup {v} /\ r_file' = r_file
    BY DEF PchMarking
  <2>7. r_newly' \cap pchInput.is_precompiled = {}
    BY <1>1, <2>6 DEF PchMarking
  <2> HIDE DEF seen, Pch!Mark, Pch!Expand
  <2> QED BY <2>2, <2>3, <2>5, <2>6, <2>7, PchSame DEF PchMarking
<1>7. PchSearching' /\ Pch!MarkedRight'
  BY DEF PchSearching, Pch!MarkedRight
<1> QED BY <1>4, <1>5, <1>6, <1>7

LEMMA PchSave ==
  ASSUME PchStepped, r_stack # <<>>, NEW v \in Vertex, v = Pch!Last(r_stack),
         r_phase = "searching", v \notin r_state, Pch!Save(v)
  PROVE  PchInv'
<1> USE DEF PchStepped, PchInv, Pch!Save, Pch!Expand
<1> DEFINE G == pchInput.graph
           next == G[v]
<1>1. G \in AdjacencyList /\ next \in Seq(Vertex) /\ pchInput.cost[v] \in Nat
  BY PchInputParts DEF AdjacencyList
<1>2. /\ r_stack' \in Seq(Vertex)
      /\ ToSet(r_stack) = {v} \cup ToSet(Pch!Front(r_stack))
      /\ ToSet(r_stack') = ToSet(Pch!Front(r_stack)) \cup ToSet(next)
  <2> HIDE DEF next
  <2>1. r_stack' = Pch!Front(r_stack) \o next
    BY DEF next
  <2> QED BY <1>1, <2>1, PchTop, ConcatInSeq
<1>3. /\ r_r' \in [extra : Nat, saving : Nat]
      /\ r_r'.extra = r_r.extra
      /\ r_r'.saving = IF v \in r_newly THEN r_r.saving + pchInput.cost[v] ELSE r_r.saving
  BY <1>1 DEF Pch!TypeOK
<1>4. Pch!TypeOK'
  BY <1>2, <1>3 DEF Pch!TypeOK
<1>5. PchResults' /\ PchFile' /\ PchBetween' /\ PchOutcomes'
  BY PchPopFrame
<1>6. PchMarking'
  BY DEF PchMarking
<1>7. PchSearching'
  <2> HIDE DEF Pch!Save
  <2>1. /\ r_state' = r_state \cup {v} /\ r_i' = r_i /\ r_newly' = r_newly
        /\ r_file' = r_file
    BY DEF Pch!Save
  <2>2. CASE r_i = 1
    BY <1>3, <2>1, <2>2 DEF PchSearching
  <2>3. CASE r_i # 1
    <3>1. /\ Search(G, pchInput.sources[r_i], r_state, ToSet(r_stack))
          /\ pchInput.sources[r_i] \in Vertex
      BY <2>3, PchInputParts DEF PchSearching
    <3>2. Search(G, pchInput.sources[r_i], r_state \cup {v}, ToSet(r_stack'))
      <4> HIDE DEF G, next
      <4>1. next = G[v]
        BY DEF next
      <4> QED BY <1>1, <1>2, <3>1, <4>1, SearchExpands
    <3>3. r_r'.saving = Pch!Saved(r_file, 2..(r_i - 1))
                          + Pch!CostOf(r_newly \cap (r_state \cup {v}))
      <4>1. r_r.saving = Pch!Saved(r_file, 2..(r_i - 1)) + Pch!CostOf(r_newly \cap r_state)
        BY <2>3 DEF PchSearching
      <4>2. r_newly \in SUBSET Vertex /\ r_file \in Vertex /\ r_newly \cap r_state \in SUBSET Vertex
        BY DEF Pch!TypeOK, PchFile
      <4>3. CASE v \notin r_newly
        <5>1. r_newly \cap (r_state \cup {v}) = r_newly \cap r_state
          BY <4>3
        <5> QED BY <1>3, <4>1, <4>3, <5>1
      <4>4. CASE v \in r_newly
        <5>1. r_newly \cap (r_state \cup {v}) = (r_newly \cap r_state) \cup {v}
          BY <4>4
        <5>2. v \in Vertex \ (r_newly \cap r_state)
          OBVIOUS
        <5>3. Pch!CostOf((r_newly \cap r_state) \cup {v})
                = Pch!CostOf(r_newly \cap r_state) + pchInput.cost[v]
          BY <4>2, <5>2, PchCosts
        <5>4. Pch!CostOf(r_newly \cap r_state) \in Nat
          BY <4>2, PchCosts
        <5>5. Pch!Saved(r_file, 2..(r_i - 1)) \in Nat
          <6>1. r_i - 1 \in 0..Len(pchInput.sources)
            BY PchInputParts DEF PchSearching
          <6> QED BY <4>2, <6>1, PchSavings
        <5>6. r_r'.saving = r_r.saving + pchInput.cost[v]
          BY <1>3, <4>4
        <5>7. r_r'.saving = Pch!Saved(r_file, 2..(r_i - 1))
                              + Pch!CostOf((r_newly \cap r_state) \cup {v})
          BY <1>1, <4>1, <5>3, <5>4, <5>5, <5>6
        <5> QED BY <5>1, <5>7
      <4> QED BY <4>3, <4>4
    <3> QED BY <2>1, <2>3, <3>2, <3>3, PchSame DEF PchSearching
  <2> QED BY <2>2, <2>3
<1>8. Pch!MarkedRight'
  BY <1>3, PchSame DEF Pch!MarkedRight
<1> QED BY <1>4, <1>5, <1>6, <1>7, <1>8

LEMMA PchPop ==
  ASSUME PchStepped, Pch!Pop
  PROVE  PchInv'
<1>1. r_stack # <<>>
  BY DEF Pch!Pop
<1>2. PICK v \in Vertex : v = Pch!Last(r_stack)
  BY <1>1, PchTop DEF PchStepped, PchInv
<1>3. \/ r_phase = "marking" /\ Pch!Passes(v) /\ Pch!Skip(v)
      \/ r_phase = "marking" /\ ~Pch!Passes(v) /\ Pch!Mark(v)
      \/ r_phase = "searching" /\ v \in r_state /\ Pch!Skip(v)
      \/ r_phase = "searching" /\ v \notin r_state /\ Pch!Save(v)
  BY <1>2 DEF Pch!Pop
<1> QED BY <1>1, <1>2, <1>3, PchSkip, PchMark, PchSave

LEMMA PchMarked ==
  ASSUME PchStepped, Pch!Marked
  PROVE  PchInv'
<1> USE DEF PchStepped, PchInv, Pch!Marked
<1> DEFINE n == Len(pchInput.sources)
<1>1. r_file \in Vertex /\ n \in Nat
  BY PchInputParts DEF PchFile, Pch!TypeOK
<1>2. r_newly = Pch!Added(r_file) /\ r_r.extra = Pch!CostOf(r_newly) /\ r_r.saving = 0
  <2> DEFINE G == Pch!Unprecompiled
             seen == r_newly \cup PassedBy(r_file)
  <2>1. Search(G, r_file, seen, {})
    BY SingletonQueue DEF PchMarking
  <2>2. seen = Reachable(G, r_file)
    <3> HIDE DEF G, seen
    <3> QED BY <2>1, SearchEnds
  <2>3. r_newly \cap pchInput.is_precompiled = {}
    BY DEF PchMarking
  <2>4. r_newly = Reachable(G, r_file) \ pchInput.is_precompiled
    BY <2>2, <2>3 DEF PassedBy
  <2> QED BY <2>4, PchNames DEF PchMarking, Pch!Added
<1>3. Pch!TypeOK'
  BY DEF Pch!TypeOK
<1>4. PchResults' /\ PchMarking' /\ PchSearching'
  BY DEF PchResults, PchMarking, PchSearching
<1>5. PchFile'
  BY PchSame DEF PchFile
<1>6. PchBetween'
  <2>1. Pch!Saved(r_file, 2..(1 - 1)) = 0
    <3>1. 1 - 1 \in 0..1
      OBVIOUS
    <3> QED BY <1>1, <3>1, PchSavings
  <2>2. r_i' = 1 /\ 1 \in 1..(n + 1) /\ r_state = r_newly
    BY <1>1 DEF PchMarking
  <2>3. Pch!Saved(r_file, 2..(r_i - 1))' = Pch!Saved(r_file, 2..(1 - 1))
    BY PchSame
  <2> QED BY <1>2, <2>1, <2>2, <2>3 DEF PchBetween
<1>7. Pch!MarkedRight'
  BY <1>2, PchSame DEF Pch!MarkedRight
<1>8. PchOutcomes'
  BY OutcomesNext DEF PchOutcomes
<1> QED BY <1>3, <1>4, <1>5, <1>6, <1>7, <1>8

LEMMA PchSearchSource ==
  ASSUME PchStepped, Pch!SearchSource
  PROVE  PchInv'
<1> USE DEF PchStepped, PchInv, Pch!SearchSource, Pch!MoreSources
<1> DEFINE n == Len(pchInput.sources)
           s == pchInput.sources[r_i]
<1>1. r_file \in Vertex /\ r_i \in 1..n /\ n \in Nat /\ s \in Vertex
  BY PchInputParts DEF PchFile, PchBetween, Pch!TypeOK
<1>2. <<s>> \in Seq(Vertex)
  BY <1>1
<1>3. Pch!TypeOK'
  BY <1>2 DEF Pch!TypeOK
<1>4. PchResults' /\ PchMarking' /\ PchBetween'
  BY DEF PchResults, PchMarking, PchBetween
<1>5. PchFile' /\ Pch!MarkedRight'
  BY PchSame DEF PchFile, Pch!MarkedRight
<1>6. PchSearching'
  <2>1. r_state = IF r_i = 1 THEN r_newly ELSE {}
    BY DEF PchBetween
  <2>2. r_r.saving = Pch!Saved(r_file, 2..(r_i - 1))
    BY DEF PchBetween
  <2>3. CASE r_i = 1
    <3>1. r_i - 1 \in 0..1
      BY <2>3
    <3>2. r_r.saving = 0
      BY <1>1, <2>2, <3>1, PchSavings
    <3> QED BY <1>1, <2>1, <2>3, <3>2 DEF PchSearching
  <2>4. CASE r_i # 1
    <3>1. Search(pchInput.graph, s, {}, ToSet(<<s>>))
      <4> HIDE DEF s
      <4> QED BY <1>1, PchInputParts, SearchStarts, SingletonQueue
    <3>2. r_newly \cap {} = {} /\ Pch!CostOf({}) = 0
      BY PchCosts
    <3>3. Pch!Saved(r_file, 2..(r_i - 1)) \in Nat
      <4>1. r_i - 1 \in 0..n
        BY <1>1
      <4> QED BY <1>1, <4>1, PchSavings
    <3>4. r_r.saving = Pch!Saved(r_file, 2..(r_i - 1)) + Pch!CostOf(r_newly \cap {})
      BY <2>2, <3>2, <3>3
    <3> QED BY <1>1, <2>1, <2>4, <3>1, <3>4, PchSame DEF PchSearching
  <2> QED BY <2>3, <2>4
<1>7. PchOutcomes'
  BY OutcomesNext DEF PchOutcomes
<1> QED BY <1>3, <1>4, <1>5, <1>6, <1>7

LEMMA PchSourceSearched ==
  ASSUME PchStepped, Pch!SourceSearched
  PROVE  PchInv'
<1> USE DEF PchStepped, PchInv, Pch!SourceSearched
<1> DEFINE n == Len(pchInput.sources)
<1>1. r_file \in Vertex /\ r_i \in 1..n /\ n \in Nat
  BY PchInputParts DEF PchFile, PchSearching, Pch!TypeOK
<1>2. Pch!TypeOK'
  BY DEF Pch!TypeOK
<1>3. PchResults' /\ PchMarking' /\ PchSearching'
  BY DEF PchResults, PchMarking, PchSearching
<1>4. PchFile' /\ Pch!MarkedRight'
  BY PchSame DEF PchFile, Pch!MarkedRight
<1>5. r_r.saving = Pch!Saved(r_file, 2..((r_i + 1) - 1))
  <2>1. CASE r_i = 1
    <3>1. (r_i + 1) - 1 \in 0..1
      BY <2>1
    <3> QED BY <1>1, <2>1, <3>1, PchSavings DEF PchSearching
  <2>2. CASE r_i # 1
    <3>1. r_i \in 2..n /\ (r_i + 1) - 1 = r_i
      BY <1>1, <2>2
    <3>2. r_state = Reachable(pchInput.graph, pchInput.sources[r_i])
      <4>1. Search(pchInput.graph, pchInput.sources[r_i], r_state, {})
        BY <2>2, SingletonQueue DEF PchSearching
      <4> QED BY <4>1, SearchEnds
    <3>3. Pch!CostOf(r_newly \cap r_state) = Pch!SavedBy(r_file, r_i)
      BY <3>2, PchNames DEF Pch!SavedBy, Pch!MarkedRight
    <3> QED BY <1>1, <2>2, <3>1, <3>3, PchSavings DEF PchSearching
  <2> QED BY <2>1, <2>2
<1>6. PchBetween'
  <2>1. r_i' = r_i + 1 /\ r_i + 1 \in 1..(n + 1) /\ r_i + 1 # 1
    BY <1>1
  <2>2. Pch!Saved(r_file, 2..(r_i - 1))' = Pch!Saved(r_file, 2..((r_i + 1) - 1))
    BY PchSame
  <2> QED BY <1>5, <2>1, <2>2 DEF PchBetween
<1>7. PchOutcomes'
  BY OutcomesNext DEF PchOutcomes
<1> QED BY <1>2, <1>3, <1>4, <1>6, <1>7

LEMMA PchGiveUp ==
  ASSUME PchStepped, Pch!GiveUp
  PROVE  PchInv'
<1> USE DEF PchStepped, PchInv, Pch!GiveUp, Pch!MoreSources
<1> DEFINE n == Len(pchInput.sources)
           all == Pch!Saved(r_file, 2..n)
           before == Pch!Saved(r_file, 2..(r_i - 1))
           extra == Pch!CostOf(Pch!Added(r_file))
<1>1. r_file \in Vertex /\ r_i \in 1..n /\ n \in Nat
  BY PchInputParts DEF PchFile, PchBetween, Pch!TypeOK
<1>2. r_file \in r_left
  BY DEF PchFile
<1>3. Pch!TypeOK'
  BY DEF Pch!TypeOK
<1>4. PchResults' /\ PchFile' /\ PchMarking' /\ PchBetween' /\ PchSearching'
  BY DEF PchResults, PchFile, PchMarking, PchBetween, PchSearching
<1>5. Pch!MarkedRight'
  BY DEF Pch!MarkedRight
<1>6. Outcome(r_file) = {}
  <2>1. all <= before + extra * (n - r_i + 1)
    BY <1>1, PchSavings
  <2>2. extra * (n - r_i + 1) + before < Pch!Cutoff(extra)
    <3>1. r_r.extra = extra /\ r_r.saving = before
      BY DEF Pch!MarkedRight, PchBetween
    <3> QED BY <3>1 DEF Pch!TooSmall, Pch!remaining_sources
  <2>3. /\ all \in Nat /\ before \in Nat /\ extra \in Nat
        /\ extra * (n - r_i + 1) \in Int /\ Pch!Cutoff(extra) \in Int
    <3>1. n \in 0..n /\ r_i - 1 \in 0..n
      BY <1>1
    <3>2. all \in Nat /\ before \in Nat /\ extra \in Nat
      BY <1>1, <3>1, PchSavings, PchCosts
    <3> HIDE DEF all, before, extra
    <3> QED BY <1>1, <3>2, CutoffType
  <2>4. ~(all >= Pch!Cutoff(extra))
    <3> HIDE DEF all, before, extra, n
    <3> QED BY <2>1, <2>2, <2>3
  <2> QED BY <2>4 DEF Outcome
<1>7. {x \in r_results : x.v = r_file} = {}
  BY <1>2 DEF PchResults
<1>8. PchOutcomes'
  <2>1. ASSUME pchInput.sources # <<>>, NEW g \in Vertex \ r_left'
        PROVE  {x \in r_results : x.v = g} = Outcome(g)
    <3>1. CASE g = r_file
      BY <1>6, <1>7, <3>1
    <3>2. CASE g # r_file
      BY <2>1, <3>2 DEF PchOutcomes
    <3> QED BY <3>1, <3>2
  <2> QED BY <2>1, OutcomesNext
<1> QED BY <1>3, <1>4, <1>5, <1>8

LEMMA PchReport ==
  ASSUME PchStepped, Pch!Report
  PROVE  PchInv'
<1> USE DEF PchStepped, PchInv, Pch!Report
<1> DEFINE n == Len(pchInput.sources)
           found == [v |-> r_file, saving |-> r_r.saving, extra |-> r_r.extra]
<1>1. r_file \in Vertex /\ r_file \in r_left /\ Pch!IsCandidate(r_file)
  BY DEF PchFile, Pch!TypeOK
<1>2. r_i = n + 1 /\ n \in Nat
  BY PchInputParts DEF PchBetween
<1>3. found \in [v : Vertex, saving : Nat, extra : Nat]
  BY <1>1 DEF Pch!TypeOK
<1>4. r_results' = r_results \cup Outcome(r_file)
      /\ (Outcome(r_file) = {} \/ Outcome(r_file) = {found})
  <2>1. r_r.extra = Pch!CostOf(Pch!Added(r_file)) /\ r_r.saving = Pch!Saved(r_file, 2..n)
    BY <1>2 DEF Pch!MarkedRight, PchBetween
  <2> HIDE DEF n
  <2>2. Outcome(r_file) = IF r_r.saving >= Pch!Cutoff(r_r.extra) THEN {found} ELSE {}
    BY <1>1, <2>1 DEF Outcome, n
  <2> QED BY <2>2
<1> HIDE DEF found
<1>5. Pch!TypeOK'
  BY <1>3, <1>4 DEF Pch!TypeOK
<1>6. PchFile' /\ PchMarking' /\ PchBetween' /\ PchSearching' /\ Pch!MarkedRight'
  BY DEF PchFile, PchMarking, PchBetween, PchSearching, Pch!MarkedRight
<1>7. found.v = r_file
  BY DEF found
<1>8. PchResults'
  BY <1>1, <1>4, <1>7 DEF PchResults
<1>9. PchOutcomes'
  <2>1. ASSUME pchInput.sources # <<>>, NEW g \in Vertex \ r_left'
        PROVE  {x \in r_results' : x.v = g} = Outcome(g)
    <3>1. CASE g = r_file
      <4>1. \A x \in r_results : x.v # r_file
        BY <1>1 DEF PchResults
      <4> QED BY <1>4, <1>7, <3>1, <4>1
    <3>2. CASE g # r_file
      <4>1. {x \in r_results' : x.v = g} = {x \in r_results : x.v = g}
        BY <1>4, <1>7, <3>2
      <4> QED BY <2>1, <3>2, <4>1 DEF PchOutcomes
    <3> QED BY <3>1, <3>2
  <2> QED BY <2>1, OutcomesNext
<1> QED BY <1>5, <1>6, <1>8, <1>9

LEMMA PchStep ==
  ASSUME PchStepped, Pch!Call \/ Pch!Next
  PROVE  PchInv'
BY PchCall, PchNotCandidate, PchBegin, PchPop, PchMarked, PchGiveUp,
   PchSearchSource, PchSourceSearched, PchReport DEF Pch!Next

LEMMA PchSameState ==
  ASSUME PchInv, pchInput' = pchInput, UNCHANGED pchVars
  PROVE  PchInv'
<1> USE DEF PchInv, pchVars
<1>1. Pch!TypeOK'
  BY DEF Pch!TypeOK
<1>2. PchResults' /\ PchFile' /\ PchMarking' /\ PchBetween' /\ PchSearching'
  BY PchSame DEF PchResults, PchFile, PchMarking, PchBetween, PchSearching
<1>3. Pch!MarkedRight' /\ PchOutcomes'
  BY PchSame, OutcomesNext DEF Pch!MarkedRight, PchOutcomes
<1> QED BY <1>1, <1>2, <1>3

(* A build before the call leaves the analysis in its first state.         *)
LEMMA PchAlways == Spec => []PchInv
<1> DEFINE Typed == pchInput \in Pch!Input
<1>1. CalledRight => Typed
  BY InputsTyped
<1>2. Init /\ Typed => PchInv
  BY PchInit DEF Init
<1>3. Pch!Init /\ Typed => PchInv
  BY PchInit
<1>4. CalledRight /\ Typed /\ PchInv /\ [Next]_vars => (Pch!Init)' \/ PchInv'
  <2> SUFFICES ASSUME CalledRight, Typed, PchInv, [Next]_vars
               PROVE  (Pch!Init)' \/ PchInv'
    OBVIOUS
  <2>1. CASE Builds
    <3>1. Pch!Init /\ UNCHANGED pchVars
      BY <2>1 DEF Builds, CalledRight, BeforePch, BeforeIncludes, analyses
    <3> QED BY <3>1 DEF Pch!Init, pchVars
  <2>2. CASE UNCHANGED resultVars
    <3>1. pchInput' = pchInput
      BY <2>2, Steps DEF resultVars, pchInput, minimum_token_count_cut_off
    <3>2. CASE UNCHANGED pchVars
      BY <3>1, <3>2, PchSameState
    <3>3. CASE Pch!Call \/ Pch!Next
      BY <3>1, <3>3, PchStep DEF PchStepped
    <3> QED BY <2>2, <3>2, <3>3, Steps DEF Builds, analyses
  <2> QED BY <2>1, <2>2, Steps
<1> HIDE DEF Typed
<1>5. CalledRight /\ PchInv /\ [Next]_vars /\ CalledRight' => PchInv'
  BY <1>1, <1>3, <1>4, PTL
<1> QED BY <1>1, <1>2, <1>5, CalledRightAlways, PTL DEF Spec

(* Whatever is recommended, what it adds to the precompiled header was     *)
(* marked exactly, and its cost summed: the files it reaches that are not  *)
(* behind what is precompiled already.                                     *)
THEOREM MarkedRightAlways == Spec => []MarkedRight
<1>1. PchInv => MarkedRight
  BY DEF PchInv, MarkedRight
<1> QED BY <1>1, PchAlways, PTL

\* What the savings that are summed up say of those of all sources.
LEMMA OutcomesPay ==
  ASSUME PchInv, pchInput \in Pch!Input
  PROVE  Pch!OnlyPaying /\ Pch!NoneMissed
<1> DEFINE n == Len(pchInput.sources)
<1>1. n \in Nat /\ Pch!All = 1..n /\ Pch!All \ {1} = 2..n
  <2>1. n \in Nat /\ DOMAIN pchInput.sources = 1..n
    BY PchInputParts
  <2>2. \A k \in Nat : (1..k) \ {1} = 2..k
    OBVIOUS
  <2> QED BY <2>1, <2>2 DEF Pch!All
<1>2. Pch!OnlyPaying
  <2>1. SUFFICES ASSUME NEW x \in r_results
                 PROVE  /\ Pch!IsCandidate(x.v)
                        /\ x.extra = Pch!CostOf(Pch!Added(x.v))
                        /\ Pch!Cutoff(x.extra) <= x.saving
                        /\ x.saving <= Pch!Saved(x.v, Pch!All)
    BY DEF Pch!OnlyPaying
  <2>2. x.v \in Vertex \ r_left
    BY DEF PchInv, Pch!TypeOK, PchResults
  <2>3. x \in Outcome(x.v)
    BY <2>2 DEF PchInv, PchResults, PchOutcomes
  <2>4. /\ Pch!IsCandidate(x.v)
        /\ x.saving = Pch!Saved(x.v, 2..n)
        /\ x.extra = Pch!CostOf(Pch!Added(x.v))
        /\ Pch!Saved(x.v, 2..n) >= Pch!Cutoff(Pch!CostOf(Pch!Added(x.v)))
    BY <2>3 DEF Outcome
  <2>5. Pch!Saved(x.v, 2..n) <= Pch!Saved(x.v, 1..n)
    BY <2>2, PchSavings
  <2> HIDE DEF n
  <2> QED BY <1>1, <2>4, <2>5
<1>3. Pch!NoneMissed
  <2>1. SUFFICES ASSUME r_phase # "ready", pchInput.sources # <<>>,
                        NEW f \in Vertex \ r_left, Pch!IsCandidate(f),
                        Pch!Cutoff(Pch!CostOf(Pch!Added(f))) <= Pch!Saved(f, 2..n)
                 PROVE  \E x \in r_results : x.v = f /\ Pch!Saved(f, 2..n) <= x.saving
    BY <1>1 DEF Pch!NoneMissed
  <2>2. {x \in r_results : x.v = f} = Outcome(f)
    BY <2>1 DEF PchInv, PchOutcomes
  <2>3. [v |-> f, saving |-> Pch!Saved(f, 2..n), extra |-> Pch!CostOf(Pch!Added(f))]
          \in Outcome(f)
    BY <2>1 DEF Outcome
  <2>4. Pch!Saved(f, 2..n) \in Nat
    <3>1. n \in 0..n
      BY <1>1
    <3> QED BY <3>1, PchSavings
  <2> HIDE DEF n
  <2> QED BY <2>2, <2>3, <2>4
<1> QED BY <1>2, <1>3

(* Whatever is recommended for the precompiled header pays for what it     *)
(* adds, and its saving is not overstated.                                 *)
THEOREM OnlyPayingAlways == Spec => []OnlyPaying
<1>1. PchInv /\ pchInput \in Pch!Input => OnlyPaying
  BY OutcomesPay DEF OnlyPaying
<1> QED BY <1>1, PchAlways, InputsTypedAlways, PTL

(* Giving up early misses no header that the sources but the first pay     *)
(* for, and the saving that is reported has all of theirs.                 *)
THEOREM NoneMissedAlways == Spec => []NoneMissed
<1>1. PchInv /\ pchInput \in Pch!Input => NoneMissed
  BY OutcomesPay DEF NoneMissed
<1> QED BY <1>1, PchAlways, InputsTypedAlways, PTL

-----------------------------------------------------------------------------
(***************************************************************************)
(* find_expensive_includes.                                                *)
(*                                                                         *)
(* The first search goes from the source through the graph without the     *)
(* directive; the second goes from the includee through the whole graph    *)
(* over the marks of the first, and sums the cost of what has none.        *)
(***************************************************************************)

(* The marks of either search, and the source they started from.           *)
Seen == {v \in Vertex : e_state[v] = "seen_initial"}
Followed == {v \in Vertex : e_state[v] = "seen_followup"}
Source == includesInput.sources[e_i]

\* What the sources up to position k save without e.
SavedUpTo(e, k) ==
  SumFunctionOnSet([j \in DOMAIN includesInput.sources |-> Includes!SavedBy(e, j)], 1..k)

(* What the body of e reports.                                             *)
IncludesFound(e) ==
  IF Includes!IsCandidate(e)
     /\ Includes!Saving(e) >= includesInput.minimum_token_count_cut_off
  THEN {[include |-> e, saving |-> Includes!Saving(e)]} ELSE {}

(* The invariant, phase by phase.                                          *)
IncludesLoop ==
  /\ e_left \subseteq Includes!Edges(includesInput.graph)
  /\ e_left # {} => e_reach = [v \in Vertex |-> Reachable(includesInput.graph, v)]
  /\ e_phase = "ready" => e_results = {}
  /\ e_phase \in {"ready", "idle"} =>
       e_i = 1 /\ e_saved = 0 /\ e_savings = 0 /\ e_stack = <<>>

IncludesBody ==
  e_phase \in {"sources", "first", "second"} =>
    /\ e_include \in e_left /\ Includes!IsCandidate(e_include)
    /\ e_i \in 1..(Len(includesInput.sources) + 1)
    /\ e_saved = SavedUpTo(e_include, e_i - 1)
    /\ e_phase = "sources" => e_stack = <<>>
    /\ e_phase # "second" => e_savings = 0
    /\ e_phase # "sources" =>
         /\ e_i <= Len(includesInput.sources)
         /\ Includes!includer \in Reachable(includesInput.graph, Source)

IncludesFirst ==
  e_phase = "first" =>
    /\ \A v \in Vertex : e_state[v] \in {"not_seen", "seen_initial"}
    /\ Search(Includes!Without(e_include), Source, Seen, ToSet(e_stack))

IncludesSecond ==
  e_phase = "second" =>
    LET kept == Reachable(Includes!Without(e_include), Source) IN
    /\ \A v \in Vertex : e_state[v] # "seen_followup" =>
         e_state[v] = IF v \in kept THEN "seen_initial" ELSE "not_seen"
    /\ Search(includesInput.graph, Includes!includee, Followed, ToSet(e_stack))
    /\ e_savings = Includes!CostOf(Followed \ kept)

IncludesResults ==
  /\ \A x \in e_results : x.include \notin e_left
  /\ e_phase # "ready" /\ includesInput.sources # <<>> =>
       \A e \in Includes!Edges(includesInput.graph) \ e_left :
         {x \in e_results : x.include = e} = IncludesFound(e)

IncludesInv ==
  /\ Includes!TypeOK
  /\ IncludesLoop /\ IncludesBody /\ IncludesFirst /\ IncludesSecond
  /\ IncludesResults

LEMMA IncludesNames ==
  /\ \A s : Includes!ToSet(s) = ToSet(s) /\ Includes!Last(s) = Last(s)
            /\ Includes!Front(s) = Front(s)
  /\ \A g, v : Includes!Reachable(g, v) = Reachable(g, v)
  /\ \A f, S : Includes!SumFunctionOnSet(f, S) = SumFunctionOnSet(f, S)
  /\ \A f : Includes!SumFunction(f) = SumFunctionOnSet(f, DOMAIN f)
<1>1. \A s : Includes!ToSet(s) = ToSet(s) /\ Includes!Last(s) = Last(s)
             /\ Includes!Front(s) = Front(s)
  BY DEF Includes!ToSet, ToSet, Includes!Last, Last, Includes!Front, Front
<1>2. \A g, v : Includes!Reachable(g, v) = Reachable(g, v)
  BY <1>1 DEF Includes!Reachable, Reachable, Includes!Closed, Closed
<1>3. \A f, S : Includes!SumFunctionOnSet(f, S) = SumFunctionOnSet(f, S)
  BY Zenon DEF Includes!SumFunctionOnSet, SumFunctionOnSet,
         Includes!FoldFunctionOnSet, FoldFunctionOnSet,
         Includes!MapThenFoldSet, MapThenFoldSet
<1>4. \A f : Includes!SumFunction(f) = SumFunctionOnSet(f, DOMAIN f)
  BY <1>3 DEF Includes!SumFunction
<1> QED BY <1>1, <1>2, <1>3, <1>4

LEMMA IncludesInputParts ==
  ASSUME includesInput \in Includes!Input
  PROVE  /\ includesInput.graph \in AdjacencyList
         /\ includesInput.sources \in Seq(Vertex) /\ Len(includesInput.sources) \in Nat
         /\ DOMAIN includesInput.sources = 1..Len(includesInput.sources)
         /\ \A j \in 1..Len(includesInput.sources) : includesInput.sources[j] \in Vertex
         /\ includesInput.true_cost \in [Vertex -> Nat]
         /\ includesInput.minimum_token_count_cut_off \in Nat
<1>1. includesInput.sources \in Seq(Vertex)
  BY DEF Includes!Input
<1>2. /\ Len(includesInput.sources) \in Nat
      /\ DOMAIN includesInput.sources = 1..Len(includesInput.sources)
      /\ \A j \in 1..Len(includesInput.sources) : includesInput.sources[j] \in Vertex
  BY <1>1
<1> QED BY <1>1, <1>2 DEF Includes!Input, Includes!AdjacencyList, AdjacencyList

LEMMA IncludesCosts ==
  ASSUME includesInput \in Includes!Input
  PROVE  /\ Includes!CostOf({}) = 0
         /\ \A S \in SUBSET Vertex : Includes!CostOf(S) \in Nat
         /\ \A S \in SUBSET Vertex : \A v \in Vertex \ S :
              Includes!CostOf(S \cup {v}) = Includes!CostOf(S) + includesInput.true_cost[v]
<1> DEFINE cost == includesInput.true_cost
<1>1. \A S : Includes!CostOf(S) = SumFunctionOnSet(cost, S)
  BY IncludesNames DEF Includes!CostOf
<1>2. \A v \in Vertex : cost[v] \in Nat
  BY IncludesInputParts
<1>3. \A S \in SUBSET Vertex : IsFiniteSet(S)
  BY VertexFinite, FS_Subset
<1> HIDE DEF cost
<1>4. ASSUME NEW S \in SUBSET Vertex
      PROVE  SumFunctionOnSet(cost, S) \in Nat
  BY <1>2, <1>3, SumType
<1>5. ASSUME NEW S \in SUBSET Vertex, NEW v \in Vertex \ S
      PROVE  SumFunctionOnSet(cost, S \cup {v}) = SumFunctionOnSet(cost, S) + cost[v]
  <2>1. \A y \in S \cup {v} : cost[y] \in Nat
    BY <1>2
  <2> QED BY <1>3, <2>1, SumAdd
<1> QED BY <1>1, <1>4, <1>5, SumOfNothing DEF cost

LEMMA IncludesSavings ==
  ASSUME includesInput \in Includes!Input, NEW e
  PROVE  LET n == Len(includesInput.sources) IN
         /\ \A j \in 1..n : Includes!SavedBy(e, j) \in Nat
         /\ SavedUpTo(e, 0) = 0
         /\ \A k \in 0..n : SavedUpTo(e, k) \in Nat
         /\ \A k \in 1..n : SavedUpTo(e, k) = SavedUpTo(e, k - 1) + Includes!SavedBy(e, k)
         /\ SavedUpTo(e, n) = Includes!Saving(e)
<1> DEFINE n == Len(includesInput.sources)
           by == [j \in DOMAIN includesInput.sources |-> Includes!SavedBy(e, j)]
<1>1. n \in Nat /\ DOMAIN includesInput.sources = 1..n
  BY IncludesInputParts
<1>2. ASSUME NEW j \in 1..n
      PROVE  by[j] = Includes!SavedBy(e, j) /\ by[j] \in Nat
  <2> DEFINE S == Includes!Reachable(includesInput.graph, includesInput.sources[j])
             T == Includes!Reachable(Includes!Without(e), includesInput.sources[j])
  <2>1. by[j] = Includes!SavedBy(e, j)
    BY <1>1
  <2>2. Includes!SavedBy(e, j) = Includes!CostOf(S \ T)
    BY DEF Includes!SavedBy
  <2>3. S \ T \in SUBSET Vertex
    BY DEF Includes!Reachable
  <2> HIDE DEF S, T, by
  <2> QED BY <2>1, <2>2, <2>3, IncludesCosts
<1>3. /\ \A k : SavedUpTo(e, k) = SumFunctionOnSet(by, 1..k)
      /\ Includes!Saving(e) = SumFunctionOnSet(by, 1..n)
  BY <1>1, IncludesNames DEF SavedUpTo, Includes!Saving
<1> HIDE DEF by
<1>4. \A k \in 0..n : IsFiniteSet(1..k) /\ 1..k \subseteq 1..n
  BY <1>1, FS_Interval
<1>5. ASSUME NEW k \in 0..n
      PROVE  SumFunctionOnSet(by, 1..k) \in Nat
  BY <1>2, <1>4, SumType
<1>6. SumFunctionOnSet(by, 1..0) = 0
  <2>1. 1..0 = {}
    OBVIOUS
  <2> QED BY <2>1, SumOfNothing
<1>7. ASSUME NEW k \in 1..n
      PROVE  SumFunctionOnSet(by, 1..k) = SumFunctionOnSet(by, 1..(k - 1)) + by[k]
  <2>1. k - 1 \in 0..n /\ k \notin 1..(k - 1) /\ 1..k = 1..(k - 1) \cup {k}
    BY <1>1
  <2>2. \A y \in 1..(k - 1) \cup {k} : by[y] \in Nat
    BY <1>1, <1>2
  <2>3. SumFunctionOnSet(by, 1..(k - 1) \cup {k}) = SumFunctionOnSet(by, 1..(k - 1)) + by[k]
    BY <1>4, <2>1, <2>2, SumAdd
  <2> QED BY <2>1, <2>3
<1> QED BY <1>1, <1>2, <1>3, <1>5, <1>6, <1>7

(* The graph without a directive, and what its source reaches in it.       *)
LEMMA DirectiveParts ==
  ASSUME includesInput \in Includes!Input,
         NEW e \in Includes!Edges(includesInput.graph)
  PROVE  LET g == includesInput.graph
             h == Includes!Without(e)
             v == e[1] IN
         /\ e \in Includes!Include /\ e = <<v, e[2]>>
         /\ v \in Vertex /\ e[2] \in DOMAIN g[v] /\ g[v][e[2]] \in Vertex
         /\ h \in AdjacencyList
         /\ \A u \in Vertex \ {v} : h[u] = g[u]
         /\ h[v] = SubSeq(g[v], 1, e[2] - 1) \o SubSeq(g[v], e[2] + 1, Len(g[v]))
         /\ ToSet(g[v]) = ToSet(h[v]) \cup {g[v][e[2]]}
<1> DEFINE g == includesInput.graph
           h == Includes!Without(e)
           v == e[1]
           rest == SubSeq(g[v], 1, e[2] - 1) \o SubSeq(g[v], e[2] + 1, Len(g[v]))
<1>1. g \in [Vertex -> Seq(Vertex)]
  BY IncludesInputParts DEF AdjacencyList
<1>2. v \in Vertex /\ e[2] \in DOMAIN g[v] /\ e = <<v, e[2]>>
  BY DEF Includes!Edges
<1>3. g[v] \in Seq(Vertex)
  BY <1>1, <1>2
<1>4. /\ e \in Includes!Include /\ g[v][e[2]] \in Vertex
  BY <1>2, <1>3 DEF Includes!Include
<1>5. rest \in Seq(Vertex) /\ ToSet(g[v]) = ToSet(rest) \cup {g[v][e[2]]}
  <2> HIDE DEF g, v
  <2> QED BY <1>2, <1>3, RemoveFromSeq
<1>6. h = [g EXCEPT ![v] = rest]
  BY DEF Includes!Without
<1> HIDE DEF g, h, rest
<1>7. h \in AdjacencyList /\ h[v] = rest /\ \A u \in Vertex \ {v} : h[u] = g[u]
  BY <1>1, <1>2, <1>5, <1>6 DEF AdjacencyList
<1> QED BY <1>2, <1>4, <1>5, <1>7 DEF g, h, rest

LEMMA DirectiveRemoved ==
  ASSUME includesInput \in Includes!Input,
         NEW e \in Includes!Edges(includesInput.graph), NEW s \in Vertex
  PROVE  LET g == includesInput.graph
             h == Includes!Without(e)
             w == g[e[1]][e[2]] IN
         /\ Reachable(h, s) \subseteq Reachable(g, s)
         /\ e[1] \notin Reachable(g, s) => Reachable(g, s) = Reachable(h, s)
         /\ e[1] \in Reachable(g, s) => e[1] \in Reachable(h, s)
         /\ w \in Reachable(h, s) => Reachable(g, s) = Reachable(h, s)
         /\ e[1] \in Reachable(g, s) =>
              Reachable(g, s) = Reachable(h, s) \cup Reachable(g, w)
<1> DEFINE g == includesInput.graph
           h == Includes!Without(e)
<1>1. /\ g \in AdjacencyList /\ h \in AdjacencyList /\ e[1] \in Vertex
      /\ g[e[1]][e[2]] \in Vertex
      /\ \A u \in Vertex \ {e[1]} : h[u] = g[u]
      /\ ToSet(g[e[1]]) = ToSet(h[e[1]]) \cup {g[e[1]][e[2]]}
  BY DirectiveParts, IncludesInputParts
<1> HIDE DEF g, h
<1>2. \A u \in Vertex \ {e[1]} : ToSet(h[u]) = ToSet(g[u])
  BY <1>1
<1> QED BY <1>1, <1>2, EdgeRemoved DEF g, h

LEMMA IncludesSame ==
  ASSUME includesInput' = includesInput
  PROVE  /\ \A S : Includes!CostOf(S)' = Includes!CostOf(S)
         /\ \A e : Includes!Without(e)' = Includes!Without(e)
         /\ \A e : Includes!IsCandidate(e)' <=> Includes!IsCandidate(e)
         /\ \A e, j : Includes!SavedBy(e, j)' = Includes!SavedBy(e, j)
         /\ \A e : Includes!Saving(e)' = Includes!Saving(e)
         /\ \A e, k : SavedUpTo(e, k)' = SavedUpTo(e, k)
         /\ \A e : IncludesFound(e)' = IncludesFound(e)
<1>1. \A S : Includes!CostOf(S)' = Includes!CostOf(S)
  BY DEF Includes!CostOf
<1>2. \A e : Includes!Without(e)' = Includes!Without(e)
  BY DEF Includes!Without
<1>3. \A e : Includes!IsCandidate(e)' <=> Includes!IsCandidate(e)
  BY DEF Includes!IsCandidate
<1>4. \A e, j : Includes!SavedBy(e, j)' = Includes!SavedBy(e, j)
  BY <1>1, <1>2 DEF Includes!SavedBy
<1>5. \A e : Includes!Saving(e)' = Includes!Saving(e)
  BY <1>4 DEF Includes!Saving
<1>6. \A e, k : SavedUpTo(e, k)' = SavedUpTo(e, k)
  BY <1>4 DEF SavedUpTo
<1>7. \A e : IncludesFound(e)' = IncludesFound(e)
  BY <1>3, <1>5 DEF IncludesFound
<1> QED BY <1>1, <1>2, <1>3, <1>4, <1>5, <1>6, <1>7

\* The directive that the loop takes next is one that is left.
LEMMA NextIncludeLeft ==
  ASSUME includesInput \in Includes!Input,
         e_left \subseteq Includes!Edges(includesInput.graph), e_left # {}
  PROVE  Includes!NextInclude \in e_left
<1>1. \A e \in e_left : e[1] \in Nat /\ e[2] \in Nat /\ e = <<e[1], e[2]>>
  <2>1. Cardinality(Vertex) \in Nat
    BY VertexAssumption, FS_CardinalityType
  <2>2. Vertex \subseteq Nat
    BY <2>1, VertexAssumption
  <2> QED BY <2>2, DirectiveParts DEF Includes!Include
<1> DEFINE firsts == {e[1] : e \in e_left}
<1>2. PICK a \in firsts : \A b \in firsts : a <= b
  <2>1. firsts \in SUBSET Nat /\ firsts # {}
    BY <1>1
  <2> HIDE DEF firsts
  <2> QED BY <2>1, Least
<1> DEFINE seconds == {e[2] : e \in {f \in e_left : f[1] = a}}
<1>3. PICK c \in seconds : \A d \in seconds : c <= d
  <2>1. seconds \in SUBSET Nat /\ seconds # {}
    BY <1>1
  <2> HIDE DEF seconds
  <2> QED BY <2>1, Least
<1>4. PICK e \in e_left : e[1] = a /\ e[2] = c
  OBVIOUS
<1>5. \A f \in e_left : e[1] < f[1] \/ (e[1] = f[1] /\ e[2] <= f[2])
  <2> SUFFICES ASSUME NEW f \in e_left
               PROVE  e[1] < f[1] \/ (e[1] = f[1] /\ e[2] <= f[2])
    OBVIOUS
  <2>1. a <= f[1] /\ f[1] \in Nat /\ a \in Nat
    BY <1>1, <1>2, <1>4
  <2>2. f[1] = a => c <= f[2]
    BY <1>3
  <2> QED BY <1>4, <2>1, <2>2
<1> QED BY <1>5 DEF Includes!NextInclude

\* What IncludesInv says of a state whose input is the one of the state before.
IncludesStepped ==
  /\ includesInput \in Includes!Input
  /\ includesInput' = includesInput
  /\ IncludesInv

(* The invariant holds at first, and every step of the analysis keeps it.  *)
LEMMA IncludesInit ==
  ASSUME Includes!Init, includesInput \in Includes!Input
  PROVE  IncludesInv
<1> USE DEF Includes!Init, Includes!Uninitialized
<1>1. Includes!TypeOK
  BY DEF Includes!TypeOK
<1> QED BY <1>1 DEF IncludesInv, IncludesLoop, IncludesBody, IncludesFirst,
                    IncludesSecond, IncludesResults

\* The directive of the body, while there is one.
LEMMA IncludesDirective ==
  ASSUME includesInput \in Includes!Input, IncludesInv,
         e_phase \in {"sources", "first", "second"}
  PROVE  \E e : /\ e \in e_left /\ e \in Includes!Edges(includesInput.graph)
                /\ e_include = e /\ Includes!IsCandidate(e)
                /\ Includes!includer = e[1]
                /\ Includes!includee = includesInput.graph[e[1]][e[2]]
                /\ e_saved = SavedUpTo(e, e_i - 1)
                /\ \A v \in Vertex : Includes!OtherTargets(v) = Includes!Without(e)[v]
                /\ e_reach = [v \in Vertex |-> Reachable(includesInput.graph, v)]
<1>1. PICK e : e = e_include
  OBVIOUS
<1>2. /\ e \in e_left /\ e \in Includes!Edges(includesInput.graph)
      /\ Includes!IsCandidate(e) /\ e_saved = SavedUpTo(e, e_i - 1)
      /\ e_reach = [v \in Vertex |-> Reachable(includesInput.graph, v)]
  BY <1>1 DEF IncludesInv, IncludesBody, IncludesLoop
<1>3. /\ Includes!includer = e[1]
      /\ Includes!includee = includesInput.graph[e[1]][e[2]]
  BY <1>1 DEF Includes!includer, Includes!includee
<1>4. ASSUME NEW v \in Vertex
      PROVE  Includes!OtherTargets(v) = Includes!Without(e)[v]
  BY <1>1, <1>2, <1>3, DirectiveParts DEF Includes!OtherTargets
<1> QED BY <1>1, <1>2, <1>3, <1>4

LEMMA IncludesCall ==
  ASSUME IncludesStepped, Includes!Call
  PROVE  IncludesInv'
<1> USE DEF IncludesStepped, IncludesInv, Includes!Call
<1> DEFINE edges == Includes!Edges(includesInput.graph)
<1>1. edges \subseteq Includes!Include
  BY DirectiveParts
<1>2. /\ e_left' \subseteq edges
      /\ e_left' # {} => e_reach' = [v \in Vertex |-> Reachable(includesInput.graph, v)]
      /\ includesInput.sources # <<>> => e_left' = edges
  BY IncludesNames
<1>3. Includes!TypeOK'
  <2>1. e_reach' \in [Vertex -> SUBSET Vertex]
    BY DEF Includes!TypeOK, Includes!Reachable
  <2> HIDE DEF edges
  <2> QED BY <1>1, <1>2, <2>1 DEF Includes!TypeOK
<1>4. IncludesLoop' /\ IncludesBody' /\ IncludesFirst' /\ IncludesSecond'
  BY <1>2 DEF IncludesLoop, IncludesBody, IncludesFirst, IncludesSecond
<1>5. IncludesResults'
  <2>1. e_results' = {}
    BY DEF IncludesLoop
  <2> QED BY <1>2, <2>1 DEF IncludesResults
<1> QED BY <1>3, <1>4, <1>5

LEMMA IncludesResultsSame ==
  ASSUME IncludesStepped, UNCHANGED <<e_left, e_results>>, e_phase # "ready"
  PROVE  IncludesResults'
BY IncludesSame DEF IncludesStepped, IncludesInv, IncludesResults

LEMMA IncludesNotCandidate ==
  ASSUME IncludesStepped, Includes!NotCandidate
  PROVE  IncludesInv'
<1> USE DEF IncludesStepped, IncludesInv, Includes!NotCandidate, Includes!MoreIncludes
<1>1. PICK e : e = Includes!NextInclude
  OBVIOUS
<1>2. e \in e_left /\ ~Includes!IsCandidate(e) /\ e_left' = e_left \ {e}
  BY <1>1, NextIncludeLeft DEF IncludesLoop
<1> HIDE DEF Includes!NotCandidate
<1>3. /\ UNCHANGED <<e_reach, e_phase, e_include, e_i, e_state, e_stack, e_savings,
                     e_saved, e_results>>
      /\ e_phase = "idle"
  BY DEF Includes!NotCandidate
<1>4. Includes!TypeOK'
  BY <1>2, <1>3 DEF Includes!TypeOK
<1>5. IncludesLoop' /\ IncludesBody' /\ IncludesFirst' /\ IncludesSecond'
  BY <1>2, <1>3 DEF IncludesLoop, IncludesBody, IncludesFirst, IncludesSecond
<1>6. IncludesResults'
  <2>1. IncludesFound(e) = {} /\ {x \in e_results : x.include = e} = {}
    BY <1>2 DEF IncludesFound, IncludesResults
  <2>2. ASSUME includesInput.sources # <<>>,
               NEW f \in Includes!Edges(includesInput.graph) \ e_left'
        PROVE  {x \in e_results : x.include = f} = IncludesFound(f)
    <3>1. CASE f = e
      BY <2>1, <3>1
    <3>2. CASE f # e
      BY <1>2, <1>3, <2>2, <3>2 DEF IncludesResults
    <3> QED BY <3>1, <3>2
  <2> QED BY <1>2, <1>3, <2>2, IncludesSame DEF IncludesResults
<1> QED BY <1>4, <1>5, <1>6

LEMMA IncludesBegin ==
  ASSUME IncludesStepped, Includes!Begin
  PROVE  IncludesInv'
<1> USE DEF IncludesStepped, IncludesInv, Includes!Begin, Includes!MoreIncludes
<1>1. PICK e : e = Includes!NextInclude
  OBVIOUS
<1>2. e \in e_left /\ Includes!IsCandidate(e) /\ e_include' = e
  BY <1>1, NextIncludeLeft DEF IncludesLoop
<1> HIDE DEF Includes!Begin
<1>3. /\ UNCHANGED <<e_reach, e_left, e_i, e_state, e_stack, e_savings, e_saved, e_results>>
      /\ e_phase' = "sources" /\ e_phase = "idle"
  BY DEF Includes!Begin
<1>4. Includes!TypeOK'
  <2>1. e_left \subseteq Includes!Include
    BY DEF Includes!TypeOK
  <2> QED BY <1>2, <1>3, <2>1 DEF Includes!TypeOK
<1>5. IncludesLoop' /\ IncludesFirst' /\ IncludesSecond'
  BY <1>3 DEF IncludesLoop, IncludesFirst, IncludesSecond
<1>6. IncludesBody'
  <2>1. e_i = 1 /\ e_saved = 0 /\ e_savings = 0 /\ e_stack = <<>>
    BY <1>3 DEF IncludesLoop
  <2>2. SavedUpTo(e, 1 - 1) = 0
    BY IncludesSavings
  <2>3. 1 \in 1..(Len(includesInput.sources) + 1)
    BY IncludesInputParts
  <2>4. SavedUpTo(e_include, e_i - 1)' = SavedUpTo(e, 1 - 1)
    BY <1>2, <1>3, <2>1, IncludesSame
  <2>5. Includes!IsCandidate(e_include)'
    BY <1>2, IncludesSame
  <2> QED BY <1>2, <1>3, <2>1, <2>2, <2>3, <2>4, <2>5 DEF IncludesBody
<1>7. IncludesResults'
  BY <1>3, IncludesResultsSame
<1> QED BY <1>4, <1>5, <1>6, <1>7

LEMMA IncludesUnaffected ==
  ASSUME IncludesStepped, Includes!Unaffected
  PROVE  IncludesInv'
<1> USE DEF IncludesStepped, Includes!Unaffected, Includes!MoreSources
<1> DEFINE g == includesInput.graph
           n == Len(includesInput.sources)
           s == includesInput.sources[e_i]
<1>1. IncludesInv /\ e_phase = "sources"
  OBVIOUS
<1>2. PICK e : /\ e \in e_left /\ e \in Includes!Edges(g) /\ e_include = e
               /\ Includes!IsCandidate(e) /\ Includes!includer = e[1]
               /\ e_saved = SavedUpTo(e, e_i - 1)
               /\ e_reach = [v \in Vertex |-> Reachable(g, v)]
  BY <1>1, IncludesDirective
<1>3. e_i \in 1..n /\ n \in Nat /\ s \in Vertex
  BY <1>1, IncludesInputParts DEF IncludesInv, IncludesBody
<1>4. e[1] \notin Reachable(g, s)
  BY <1>2, <1>3 DEF Includes!is_reachable
<1>5. Includes!SavedBy(e, e_i) = 0
  <2>1. Reachable(g, s) = Reachable(Includes!Without(e), s)
    BY <1>2, <1>3, <1>4, DirectiveRemoved
  <2>2. Includes!SavedBy(e, e_i) = Includes!CostOf({})
    BY <2>1, IncludesNames DEF Includes!SavedBy
  <2> QED BY <2>2, IncludesCosts
<1>6. /\ e_saved = SavedUpTo(e, (e_i + 1) - 1) /\ e_i + 1 \in 1..(n + 1)
  <2>1. (e_i + 1) - 1 = e_i
    BY <1>3
  <2>2. e_saved \in Nat
    BY DEF IncludesInv, Includes!TypeOK
  <2> QED BY <1>2, <1>3, <1>5, <2>1, <2>2, IncludesSavings
<1>7. Includes!TypeOK'
  BY <1>1 DEF IncludesInv, Includes!TypeOK
<1>8. IncludesLoop' /\ IncludesFirst' /\ IncludesSecond'
  BY <1>1 DEF IncludesInv, IncludesLoop, IncludesFirst, IncludesSecond
<1>9. IncludesBody'
  <2>1. SavedUpTo(e_include, e_i - 1)' = SavedUpTo(e, (e_i + 1) - 1)
    BY <1>2, IncludesSame
  <2>2. Includes!IsCandidate(e_include)'
    BY <1>2, IncludesSame
  <2> QED BY <1>1, <1>2, <1>6, <2>1, <2>2 DEF IncludesInv, IncludesBody
<1>10. IncludesResults'
  BY IncludesResultsSame
<1> QED BY <1>7, <1>8, <1>9, <1>10 DEF IncludesInv

LEMMA IncludesFirstSearch ==
  ASSUME IncludesStepped, Includes!FirstSearch
  PROVE  IncludesInv'
<1> USE DEF IncludesStepped, Includes!FirstSearch, Includes!MoreSources
<1> DEFINE g == includesInput.graph
           n == Len(includesInput.sources)
<1>1. IncludesInv /\ e_phase = "sources"
  OBVIOUS
<1>2. PICK e : /\ e \in e_left /\ e \in Includes!Edges(g) /\ e_include = e
               /\ Includes!IsCandidate(e) /\ Includes!includer = e[1]
               /\ e_saved = SavedUpTo(e, e_i - 1)
               /\ e_reach = [v \in Vertex |-> Reachable(g, v)]
  BY <1>1, IncludesDirective
<1>3. PICK s \in Vertex : s = includesInput.sources[e_i] /\ e_i \in 1..n /\ n \in Nat
  BY <1>1, IncludesInputParts DEF IncludesInv, IncludesBody
<1>4. e[1] \in Reachable(g, s)
  BY <1>2, <1>3 DEF Includes!is_reachable
<1>5. /\ e_state' = [v \in Vertex |-> "not_seen"] /\ e_stack' = <<s>>
      /\ UNCHANGED <<e_reach, e_left, e_include, e_i, e_savings, e_saved, e_results>>
      /\ e_phase' = "first" /\ e_phase = "sources"
  BY <1>3 DEF Includes!StateReset, Includes!NotSeen
<1> HIDE DEF Includes!FirstSearch, Includes!MoreSources
<1>6. Includes!TypeOK'
  <2>1. <<s>> \in Seq(Vertex)
    BY <1>3
  <2> QED BY <1>1, <1>5, <2>1 DEF IncludesInv, Includes!TypeOK
<1>7. IncludesLoop' /\ IncludesSecond'
  BY <1>1, <1>5 DEF IncludesInv, IncludesLoop, IncludesSecond
<1>8. IncludesBody'
  <2>1. SavedUpTo(e_include, e_i - 1)' = SavedUpTo(e, e_i - 1)
    BY <1>2, <1>5, IncludesSame
  <2>2. Includes!IsCandidate(e_include)' /\ Includes!includer' = e[1] /\ Source' = s
    BY <1>2, <1>3, <1>5, IncludesSame DEF Includes!includer, Source
  <2> QED BY <1>1, <1>2, <1>3, <1>4, <1>5, <2>1, <2>2 DEF IncludesInv, IncludesBody
<1>9. IncludesFirst'
  <2>1. Search(Includes!Without(e), s, {}, {s})
    BY <1>2, <1>3, DirectiveParts, SearchStarts
  <2>2. Seen' = {} /\ Source' = s /\ ToSet(e_stack') = {s}
    BY <1>3, <1>5, SingletonQueue DEF Seen, Source
  <2>3. Includes!Without(e_include)' = Includes!Without(e)
    BY <1>2, <1>5, IncludesSame
  <2>4. \A v \in Vertex : e_state'[v] \in {"not_seen", "seen_initial"}
    BY <1>5
  <2> QED BY <2>1, <2>2, <2>3, <2>4 DEF IncludesFirst
<1>10. IncludesResults'
  BY <1>5, IncludesResultsSame
<1> QED BY <1>6, <1>7, <1>8, <1>9, <1>10 DEF IncludesInv

LEMMA IncludesTop ==
  ASSUME Includes!TypeOK, e_stack # <<>>
  PROVE  /\ Includes!Last(e_stack) \in Vertex
         /\ Includes!Front(e_stack) \in Seq(Vertex)
         /\ ToSet(e_stack) = {Includes!Last(e_stack)} \cup ToSet(Includes!Front(e_stack))
<1>1. e_stack \in Seq(Vertex)
  BY DEF Includes!TypeOK
<1> QED BY <1>1, LastInSeq, IncludesNames

\* What one iteration of either search leaves as it was.
LEMMA IncludesPopFrame ==
  ASSUME IncludesStepped, e_phase \in {"first", "second"},
         UNCHANGED <<e_reach, e_phase, e_left, e_include, e_i, e_saved, e_results>>,
         e_phase = "first" => UNCHANGED e_savings
  PROVE  IncludesLoop' /\ IncludesBody' /\ IncludesResults'
<1> USE DEF IncludesStepped, IncludesInv
<1>1. IncludesLoop'
  BY DEF IncludesLoop
<1>2. PICK e, k, s : e = e_include /\ k = e_i /\ s = Source
  OBVIOUS
<1>3. e_include' = e /\ e_i' = k /\ Source' = s
  BY <1>2 DEF Source
<1>4. /\ SavedUpTo(e_include, e_i - 1)' = SavedUpTo(e, k - 1)
      /\ SavedUpTo(e_include, e_i - 1) = SavedUpTo(e, k - 1)
  BY <1>2, <1>3, IncludesSame
<1>5. /\ Includes!IsCandidate(e_include)' <=> Includes!IsCandidate(e_include)
      /\ Includes!includer' = Includes!includer
  BY <1>2, <1>3, IncludesSame DEF Includes!includer
<1>6. IncludesBody'
  BY <1>2, <1>3, <1>4, <1>5 DEF IncludesBody
<1>7. IncludesResults'
  BY IncludesResultsSame
<1> QED BY <1>1, <1>6, <1>7

LEMMA IncludesPopFirst ==
  ASSUME IncludesStepped, Includes!PopFirst
  PROVE  IncludesInv'
<1> USE DEF IncludesStepped
<1> DEFINE g == includesInput.graph
           n == Len(includesInput.sources)
<1>1. IncludesInv /\ e_phase = "first" /\ e_stack # <<>>
  BY DEF Includes!PopFirst
<1>2. PICK e : /\ e \in e_left /\ e \in Includes!Edges(g) /\ e_include = e
               /\ Includes!IsCandidate(e)
               /\ Includes!includer = e[1] /\ Includes!includee = g[e[1]][e[2]]
               /\ e_saved = SavedUpTo(e, e_i - 1)
               /\ \A v \in Vertex : Includes!OtherTargets(v) = Includes!Without(e)[v]
  BY <1>1, IncludesDirective
<1>3. PICK s \in Vertex : s = includesInput.sources[e_i] /\ e_i \in 1..n /\ n \in Nat
  BY <1>1, IncludesInputParts DEF IncludesInv, IncludesBody
<1>4. PICK v \in Vertex : /\ v = Includes!Last(e_stack)
                          /\ Includes!Front(e_stack) \in Seq(Vertex)
                          /\ ToSet(e_stack) = {v} \cup ToSet(Includes!Front(e_stack))
  BY <1>1, IncludesTop DEF IncludesInv
<1>5. PICK h \in AdjacencyList : h = Includes!Without(e)
  BY <1>2, DirectiveParts
<1>6. /\ Search(h, s, Seen, ToSet(e_stack))
      /\ \A u \in Vertex : e_state[u] \in {"not_seen", "seen_initial"}
      /\ e_savings = 0
  BY <1>1, <1>2, <1>3, <1>5 DEF IncludesInv, IncludesBody, IncludesFirst, Source
<1>7. Includes!OtherTargets(v) = h[v] /\ h[v] \in Seq(Vertex)
  BY <1>2, <1>4, <1>5 DEF AdjacencyList
<1>8. CASE e_state[v] = "seen_initial" /\ Includes!Skip
  <2>1. /\ UNCHANGED <<e_reach, e_phase, e_left, e_include, e_i, e_state, e_savings,
                       e_saved, e_results>>
        /\ e_stack' \in Seq(Vertex) /\ ToSet(e_stack) = {v} \cup ToSet(e_stack')
    BY <1>4, <1>8 DEF Includes!Skip
  <2>2. Includes!TypeOK'
    BY <1>1, <2>1 DEF IncludesInv, Includes!TypeOK
  <2>3. IncludesLoop' /\ IncludesBody' /\ IncludesResults'
    BY <1>1, <2>1, IncludesPopFrame
  <2>4. IncludesFirst'
    <3>1. v \in Seen
      BY <1>8 DEF Seen
    <3>2. Search(h, s, Seen, ToSet(e_stack'))
      BY <1>6, <2>1, <3>1, SearchSkips
    <3>3. Seen' = Seen /\ Source' = s /\ Includes!Without(e_include)' = h
      BY <1>2, <1>3, <1>5, <2>1, IncludesSame DEF Seen, Source
    <3> QED BY <1>6, <2>1, <3>2, <3>3 DEF IncludesFirst
  <2>5. IncludesSecond'
    BY <1>1, <2>1 DEF IncludesSecond
  <2> QED BY <2>2, <2>3, <2>4, <2>5 DEF IncludesInv
<1>9. CASE /\ e_state[v] = "not_seen"
           /\ Includes!includee \in ToSet(Includes!OtherTargets(v))
           /\ Includes!IncludedElsewhere(v)
  <2>1. /\ UNCHANGED <<e_reach, e_left, e_include, e_savings, e_saved, e_results>>
        /\ e_phase' = "sources" /\ e_stack' = <<>> /\ e_i' = e_i + 1
        /\ e_state' = [e_state EXCEPT ![v] = "seen_initial"]
    BY <1>9 DEF Includes!IncludedElsewhere
  <2>2. Includes!SavedBy(e, e_i) = 0
    <3>1. v \in Reachable(h, s)
      BY <1>4, <1>6 DEF Search
    <3>2. g[e[1]][e[2]] \in Reachable(h, s)
      BY <1>2, <1>7, <1>9, <3>1, ReachesSuccessors
    <3>3. Reachable(g, s) = Reachable(h, s)
      BY <1>2, <1>5, <3>2, DirectiveRemoved
    <3>4. Includes!SavedBy(e, e_i) = Includes!CostOf({})
      BY <1>3, <1>5, <3>3, IncludesNames DEF Includes!SavedBy
    <3> QED BY <3>4, IncludesCosts
  <2>3. /\ e_saved = SavedUpTo(e, (e_i + 1) - 1) /\ e_i + 1 \in 1..(n + 1)
    <3>1. (e_i + 1) - 1 = e_i
      BY <1>3
    <3>2. e_saved \in Nat
      BY <1>1 DEF IncludesInv, Includes!TypeOK
    <3> QED BY <1>2, <1>3, <2>2, <3>1, <3>2, IncludesSavings
  <2>4. Includes!TypeOK'
    BY <1>1, <1>3, <2>1 DEF IncludesInv, Includes!TypeOK
  <2>5. IncludesLoop' /\ IncludesFirst' /\ IncludesSecond'
    BY <1>1, <2>1 DEF IncludesInv, IncludesLoop, IncludesFirst, IncludesSecond
  <2>6. IncludesBody'
    <3>1. SavedUpTo(e_include, e_i - 1)' = SavedUpTo(e, (e_i + 1) - 1)
      BY <1>2, <2>1, IncludesSame
    <3>2. Includes!IsCandidate(e_include)'
      BY <1>2, <2>1, IncludesSame
    <3> QED BY <1>2, <1>6, <2>1, <2>3, <3>1, <3>2 DEF IncludesBody
  <2>7. IncludesResults'
    BY <1>1, <2>1, IncludesResultsSame
  <2> QED BY <2>4, <2>5, <2>6, <2>7 DEF IncludesInv
<1>10. CASE /\ e_state[v] = "not_seen"
            /\ Includes!Expand(v, "seen_initial", Includes!OtherTargets(v))
            /\ UNCHANGED e_savings
  <2>1. /\ UNCHANGED <<e_reach, e_phase, e_left, e_include, e_i, e_savings, e_saved,
                       e_results>>
        /\ e_state' = [e_state EXCEPT ![v] = "seen_initial"]
        /\ e_stack' = Includes!Front(e_stack) \o h[v]
    BY <1>7, <1>10 DEF Includes!Expand
  <2>2. /\ e_stack' \in Seq(Vertex)
        /\ ToSet(e_stack') = ToSet(Includes!Front(e_stack)) \cup ToSet(h[v])
    BY <1>4, <1>7, <2>1, ConcatInSeq
  <2>3. e_state \in [Vertex -> {"uninitialized", "not_seen", "seen_initial",
                                "seen_followup"}]
    BY <1>1 DEF IncludesInv, Includes!TypeOK
  <2>4. Includes!TypeOK'
    BY <1>1, <2>1, <2>2, <2>3 DEF IncludesInv, Includes!TypeOK
  <2>5. IncludesLoop' /\ IncludesBody' /\ IncludesResults'
    BY <1>1, <2>1, IncludesPopFrame
  <2>6. IncludesFirst'
    <3>1. Search(h, s, Seen \cup {v}, ToSet(e_stack'))
      BY <1>4, <1>6, <2>2, SearchExpands
    <3>2. Seen' = Seen \cup {v}
      BY <2>1, <2>3 DEF Seen
    <3>3. Source' = s /\ Includes!Without(e_include)' = h
      BY <1>2, <1>3, <1>5, <2>1, IncludesSame DEF Source
    <3>4. \A u \in Vertex : e_state'[u] \in {"not_seen", "seen_initial"}
      BY <1>6, <2>1, <2>3
    <3> QED BY <3>1, <3>2, <3>3, <3>4 DEF IncludesFirst
  <2>7. IncludesSecond'
    BY <1>1, <2>1 DEF IncludesSecond
  <2> QED BY <2>4, <2>5, <2>6, <2>7 DEF IncludesInv
<1> QED BY <1>4, <1>8, <1>9, <1>10, IncludesNames DEF Includes!PopFirst

LEMMA IncludesSecondSearch ==
  ASSUME IncludesStepped, Includes!SecondSearch
  PROVE  IncludesInv'
<1> USE DEF IncludesStepped
<1> DEFINE g == includesInput.graph
           n == Len(includesInput.sources)
<1>1. IncludesInv /\ e_phase = "first" /\ e_stack = <<>>
  BY DEF Includes!SecondSearch
<1>2. PICK e : /\ e \in e_left /\ e \in Includes!Edges(g) /\ e_include = e
               /\ Includes!IsCandidate(e)
               /\ Includes!includer = e[1] /\ Includes!includee = g[e[1]][e[2]]
               /\ e_saved = SavedUpTo(e, e_i - 1)
  BY <1>1, IncludesDirective
<1>3. PICK s \in Vertex : s = includesInput.sources[e_i] /\ e_i \in 1..n /\ n \in Nat
  BY <1>1, IncludesInputParts DEF IncludesInv, IncludesBody
<1>4. PICK h \in AdjacencyList : h = Includes!Without(e)
  BY <1>2, DirectiveParts
<1>5. PICK w \in Vertex : w = Includes!includee
  BY <1>2, DirectiveParts
<1>6. /\ Search(h, s, Seen, {})
      /\ \A u \in Vertex : e_state[u] \in {"not_seen", "seen_initial"}
      /\ e_savings = 0
  BY <1>1, <1>2, <1>3, <1>4, SingletonQueue
     DEF IncludesInv, IncludesBody, IncludesFirst, Source
<1>7. /\ UNCHANGED <<e_reach, e_left, e_include, e_i, e_state, e_savings, e_saved, e_results>>
      /\ e_phase' = "second" /\ e_stack' = <<w>>
  BY <1>5 DEF Includes!SecondSearch
<1>8. Includes!TypeOK'
  <2>1. <<w>> \in Seq(Vertex)
    OBVIOUS
  <2> QED BY <1>1, <1>7, <2>1 DEF IncludesInv, Includes!TypeOK
<1>9. IncludesLoop' /\ IncludesFirst'
  BY <1>1, <1>7 DEF IncludesInv, IncludesLoop, IncludesFirst
<1>10. Source' = s /\ Includes!Without(e_include)' = h /\ Includes!includee' = w
       /\ Includes!includer' = e[1] /\ Source = s
  BY <1>2, <1>3, <1>4, <1>5, <1>7, IncludesSame
     DEF Source, Includes!includee, Includes!includer
<1>11. IncludesBody'
  <2>1. SavedUpTo(e_include, e_i - 1)' = SavedUpTo(e, e_i - 1)
    BY <1>2, <1>7, IncludesSame
  <2>2. Includes!IsCandidate(e_include)'
    BY <1>2, <1>7, IncludesSame
  <2> QED BY <1>1, <1>2, <1>3, <1>7, <1>10, <2>1, <2>2 DEF IncludesInv, IncludesBody
<1>12. IncludesSecond'
  <2>1. Seen = Reachable(h, s)
    BY <1>6, SearchEnds
  <2>2. \A v \in Vertex : e_state[v] = IF v \in Reachable(h, s) THEN "seen_initial"
                                       ELSE "not_seen"
    BY <1>6, <2>1 DEF Seen
  <2>3. Followed' = {}
    BY <1>6, <1>7 DEF Followed
  <2>4. Search(g, w, {}, {w}) /\ ToSet(e_stack') = {w}
    BY <1>7, IncludesInputParts, SearchStarts, SingletonQueue
  <2>5. \A S : Includes!CostOf({} \ S)' = 0
    BY IncludesSame, IncludesCosts
  <2> QED BY <1>6, <1>7, <1>10, <2>2, <2>3, <2>4, <2>5 DEF IncludesSecond
<1>13. IncludesResults'
  BY <1>1, <1>7, IncludesResultsSame
<1> QED BY <1>8, <1>9, <1>11, <1>12, <1>13 DEF IncludesInv

LEMMA IncludesPopSecond ==
  ASSUME IncludesStepped, Includes!PopSecond
  PROVE  IncludesInv'
<1> USE DEF IncludesStepped
<1> DEFINE g == includesInput.graph
           n == Len(includesInput.sources)
<1>1. IncludesInv /\ e_phase = "second" /\ e_stack # <<>>
  BY DEF Includes!PopSecond
<1>2. PICK e : /\ e \in e_left /\ e \in Includes!Edges(g) /\ e_include = e
               /\ Includes!IsCandidate(e)
               /\ Includes!includer = e[1] /\ Includes!includee = g[e[1]][e[2]]
               /\ e_saved = SavedUpTo(e, e_i - 1)
  BY <1>1, IncludesDirective
<1>3. PICK s \in Vertex : s = includesInput.sources[e_i] /\ e_i \in 1..n /\ n \in Nat
  BY <1>1, IncludesInputParts DEF IncludesInv, IncludesBody
<1>4. PICK v \in Vertex : /\ v = Includes!Last(e_stack)
                          /\ Includes!Front(e_stack) \in Seq(Vertex)
                          /\ ToSet(e_stack) = {v} \cup ToSet(Includes!Front(e_stack))
  BY <1>1, IncludesTop DEF IncludesInv
<1>5. PICK w \in Vertex : w = Includes!includee
  BY <1>2, DirectiveParts
<1>6. PICK kept \in SUBSET Vertex : kept = Reachable(Includes!Without(e), s)
  BY DEF Reachable
<1>7. /\ Search(g, w, Followed, ToSet(e_stack))
      /\ \A u \in Vertex : e_state[u] # "seen_followup" =>
           e_state[u] = IF u \in kept THEN "seen_initial" ELSE "not_seen"
      /\ e_savings = Includes!CostOf(Followed \ kept)
  BY <1>1, <1>2, <1>3, <1>5, <1>6 DEF IncludesInv, IncludesSecond, Source
<1>8. ASSUME UNCHANGED <<e_include, e_i>>
      PROVE  Source' = s /\ Includes!Without(e_include)' = Includes!Without(e)
             /\ Includes!includee' = w
  BY <1>2, <1>3, <1>5, <1>8, IncludesSame DEF Source, Includes!includee
<1>9. CASE e_state[v] = "seen_followup" /\ Includes!Skip
  <2>1. /\ UNCHANGED <<e_reach, e_phase, e_left, e_include, e_i, e_state, e_savings,
                       e_saved, e_results>>
        /\ e_stack' \in Seq(Vertex) /\ ToSet(e_stack) = {v} \cup ToSet(e_stack')
    BY <1>4, <1>9 DEF Includes!Skip
  <2>2. Includes!TypeOK'
    BY <1>1, <2>1 DEF IncludesInv, Includes!TypeOK
  <2>3. IncludesLoop' /\ IncludesBody' /\ IncludesResults'
    BY <1>1, <2>1, IncludesPopFrame
  <2>4. IncludesSecond'
    <3>1. v \in Followed
      BY <1>9 DEF Followed
    <3>2. Search(g, w, Followed, ToSet(e_stack'))
      BY <1>7, <2>1, <3>1, SearchSkips
    <3>3. Followed' = Followed
      BY <2>1 DEF Followed
    <3>4. \A S : Includes!CostOf(S)' = Includes!CostOf(S)
      BY IncludesSame
    <3>5. Source' = s /\ Includes!Without(e_include)' = Includes!Without(e)
          /\ Includes!includee' = w
      BY <1>8, <2>1
    <3> QED BY <1>6, <1>7, <2>1, <3>2, <3>3, <3>4, <3>5 DEF IncludesSecond
  <2>5. IncludesFirst'
    BY <1>1, <2>1 DEF IncludesFirst
  <2> QED BY <2>2, <2>3, <2>4, <2>5 DEF IncludesInv
<1>10. CASE /\ e_state[v] # "seen_followup"
            /\ e_savings' = e_savings + Includes!Gain(v)
            /\ Includes!Expand(v, "seen_followup", g[v])
  <2>1. /\ UNCHANGED <<e_reach, e_phase, e_left, e_include, e_i, e_saved, e_results>>
        /\ e_state' = [e_state EXCEPT ![v] = "seen_followup"]
        /\ e_stack' = Includes!Front(e_stack) \o g[v]
    BY <1>10 DEF Includes!Expand
  <2>2. g \in AdjacencyList /\ g[v] \in Seq(Vertex) /\ includesInput.true_cost[v] \in Nat
    BY IncludesInputParts DEF AdjacencyList
  <2>3. /\ e_stack' \in Seq(Vertex)
        /\ ToSet(e_stack') = ToSet(Includes!Front(e_stack)) \cup ToSet(g[v])
    <3> HIDE DEF g
    <3> QED BY <1>4, <2>1, <2>2, ConcatInSeq
  <2>4. /\ e_state \in [Vertex -> {"uninitialized", "not_seen", "seen_initial",
                                   "seen_followup"}]
        /\ e_savings \in Nat
    BY <1>1 DEF IncludesInv, Includes!TypeOK
  <2>5. e_savings' = e_savings + (IF v \in kept THEN 0 ELSE includesInput.true_cost[v])
    BY <1>7, <1>10 DEF Includes!Gain
  <2>6. Includes!TypeOK'
    BY <1>1, <2>1, <2>2, <2>3, <2>4, <2>5 DEF IncludesInv, Includes!TypeOK
  <2>7. IncludesLoop' /\ IncludesBody' /\ IncludesResults'
    BY <1>1, <2>1, IncludesPopFrame
  <2>8. IncludesSecond'
    <3>1. Search(g, w, Followed \cup {v}, ToSet(e_stack'))
      <4> HIDE DEF g
      <4> QED BY <1>4, <1>7, <2>2, <2>3, SearchExpands
    <3>2. Followed' = Followed \cup {v} /\ v \notin Followed /\ Followed \in SUBSET Vertex
      BY <1>10, <2>1, <2>4 DEF Followed
    <3>3. Includes!CostOf((Followed \cup {v}) \ kept) = e_savings'
      <4>1. CASE v \in kept
        <5>1. (Followed \cup {v}) \ kept = Followed \ kept
          BY <4>1
        <5> QED BY <1>7, <2>4, <2>5, <4>1, <5>1
      <4>2. CASE v \notin kept
        <5>1. /\ (Followed \cup {v}) \ kept = (Followed \ kept) \cup {v}
              /\ Followed \ kept \in SUBSET Vertex /\ v \in Vertex \ (Followed \ kept)
          BY <3>2, <4>2
        <5>2. Includes!CostOf((Followed \ kept) \cup {v})
                = Includes!CostOf(Followed \ kept) + includesInput.true_cost[v]
          BY <5>1, IncludesCosts
        <5> QED BY <1>7, <2>5, <4>2, <5>1, <5>2
      <4> QED BY <4>1, <4>2
    <3>4. \A S : Includes!CostOf(S)' = Includes!CostOf(S)
      BY IncludesSame
    <3>5. Source' = s /\ Includes!Without(e_include)' = Includes!Without(e)
          /\ Includes!includee' = w
      BY <1>8, <2>1
    <3>6. \A u \in Vertex : e_state'[u] # "seen_followup" =>
            e_state'[u] = IF u \in kept THEN "seen_initial" ELSE "not_seen"
      BY <1>7, <2>1, <2>4
    <3> QED BY <1>6, <2>1, <3>1, <3>2, <3>3, <3>4, <3>5, <3>6 DEF IncludesSecond
  <2>9. IncludesFirst'
    BY <1>1, <2>1 DEF IncludesFirst
  <2> QED BY <2>6, <2>7, <2>8, <2>9 DEF IncludesInv
<1> QED BY <1>4, <1>9, <1>10 DEF Includes!PopSecond

LEMMA IncludesSourceDone ==
  ASSUME IncludesStepped, Includes!SourceDone
  PROVE  IncludesInv'
<1> USE DEF IncludesStepped
<1> DEFINE g == includesInput.graph
           n == Len(includesInput.sources)
<1>1. IncludesInv /\ e_phase = "second" /\ e_stack = <<>>
  BY DEF Includes!SourceDone
<1>2. PICK e : /\ e \in e_left /\ e \in Includes!Edges(g) /\ e_include = e
               /\ Includes!IsCandidate(e)
               /\ Includes!includer = e[1] /\ Includes!includee = g[e[1]][e[2]]
               /\ e_saved = SavedUpTo(e, e_i - 1)
  BY <1>1, IncludesDirective
<1>3. PICK s \in Vertex : s = includesInput.sources[e_i] /\ e_i \in 1..n /\ n \in Nat
  BY <1>1, IncludesInputParts DEF IncludesInv, IncludesBody
<1>4. PICK w \in Vertex : w = Includes!includee
  BY <1>2, DirectiveParts
<1>5. PICK kept \in SUBSET Vertex : kept = Reachable(Includes!Without(e), s)
  BY DEF Reachable
<1>6. /\ Search(g, w, Followed, {}) /\ e[1] \in Reachable(g, s)
      /\ e_savings = Includes!CostOf(Followed \ kept)
  BY <1>1, <1>2, <1>3, <1>4, <1>5, SingletonQueue
     DEF IncludesInv, IncludesBody, IncludesSecond, Source
<1>7. /\ UNCHANGED <<e_reach, e_left, e_include, e_state, e_stack, e_results>>
      /\ e_phase' = "sources" /\ e_i' = e_i + 1
      /\ e_saved' = e_saved + e_savings /\ e_savings' = 0
  BY DEF Includes!SourceDone
<1>8. e_savings = Includes!SavedBy(e, e_i)
  <2>1. Followed = Reachable(g, w)
    BY <1>6, SearchEnds
  <2>2. Reachable(g, s) = kept \cup Reachable(g, w)
    BY <1>2, <1>4, <1>5, <1>6, DirectiveRemoved
  <2>3. Followed \ kept = Reachable(g, s) \ kept
    BY <2>1, <2>2
  <2> QED BY <1>3, <1>5, <1>6, <2>3, IncludesNames DEF Includes!SavedBy
<1>9. /\ e_saved + e_savings = SavedUpTo(e, (e_i + 1) - 1) /\ e_i + 1 \in 1..(n + 1)
  <2>1. (e_i + 1) - 1 = e_i
    BY <1>3
  <2> QED BY <1>2, <1>3, <1>8, <2>1, IncludesSavings
<1>10. Includes!TypeOK'
  BY <1>1, <1>3, <1>7 DEF IncludesInv, Includes!TypeOK
<1>11. IncludesLoop' /\ IncludesFirst' /\ IncludesSecond'
  BY <1>1, <1>7 DEF IncludesInv, IncludesLoop, IncludesFirst, IncludesSecond
<1>12. IncludesBody'
  <2>1. SavedUpTo(e_include, e_i - 1)' = SavedUpTo(e, (e_i + 1) - 1)
    BY <1>2, <1>7, IncludesSame
  <2>2. Includes!IsCandidate(e_include)'
    BY <1>2, <1>7, IncludesSame
  <2> QED BY <1>1, <1>2, <1>7, <1>9, <2>1, <2>2 DEF IncludesBody
<1>13. IncludesResults'
  BY <1>1, <1>7, IncludesResultsSame
<1> QED BY <1>10, <1>11, <1>12, <1>13 DEF IncludesInv

LEMMA IncludesPush ==
  ASSUME IncludesStepped, Includes!Push
  PROVE  IncludesInv'
<1> USE DEF IncludesStepped
<1> DEFINE g == includesInput.graph
           n == Len(includesInput.sources)
           cutoff == includesInput.minimum_token_count_cut_off
<1>1. IncludesInv /\ e_phase = "sources" /\ e_i > n
  BY DEF Includes!Push
<1>2. PICK e : /\ e \in e_left /\ e \in Includes!Edges(g) /\ e_include = e
               /\ Includes!IsCandidate(e) /\ e_saved = SavedUpTo(e, e_i - 1)
  BY <1>1, IncludesDirective
<1>3. e_saved = Includes!Saving(e)
  <2>1. e_i = n + 1 /\ n \in Nat
    BY <1>1, IncludesInputParts DEF IncludesInv, IncludesBody
  <2>2. e_i - 1 = n
    BY <2>1
  <2> QED BY <1>2, <2>2, IncludesSavings
<1> DEFINE found == [include |-> e, saving |-> e_saved]
<1>4. IncludesFound(e) = IF e_saved >= cutoff THEN {found} ELSE {}
  BY <1>2, <1>3 DEF IncludesFound
<1>5. /\ UNCHANGED <<e_reach, e_stack, e_savings>>
      /\ e_phase' = "idle" /\ e_left' = e_left \ {e} /\ e_include' = None
      /\ e_i' = 1 /\ e_saved' = 0 /\ e_state' = Includes!Uninitialized
      /\ e_results' = e_results \cup IncludesFound(e)
  BY <1>2, <1>4 DEF Includes!Push
<1>6. /\ found \in [include : Includes!Include, saving : Nat] /\ found.include = e
      /\ IncludesFound(e) \subseteq {found}
  BY <1>1, <1>2, <1>4, DirectiveParts DEF IncludesInv, Includes!TypeOK
<1> HIDE DEF found
<1>7. Includes!TypeOK'
  BY <1>1, <1>5, <1>6 DEF IncludesInv, Includes!TypeOK, Includes!Uninitialized
<1>8. IncludesLoop' /\ IncludesBody' /\ IncludesFirst' /\ IncludesSecond'
  BY <1>1, <1>5
     DEF IncludesInv, IncludesLoop, IncludesBody, IncludesFirst, IncludesSecond
<1>9. IncludesResults'
  <2>1. \A x \in e_results : x.include \notin e_left
    BY <1>1 DEF IncludesInv, IncludesResults
  <2>2. \A x \in e_results' : x.include \notin e_left'
    BY <1>5, <1>6, <2>1
  <2>3. ASSUME includesInput.sources # <<>>, NEW f \in Includes!Edges(g) \ e_left'
        PROVE  {x \in e_results' : x.include = f} = IncludesFound(f)
    <3>1. CASE f = e
      <4>1. \A x \in e_results : x.include # e
        BY <1>2, <2>1
      <4> QED BY <1>5, <1>6, <3>1, <4>1
    <3>2. CASE f # e
      <4>1. {x \in e_results' : x.include = f} = {x \in e_results : x.include = f}
        BY <1>5, <1>6, <3>2
      <4>2. f \notin e_left
        BY <1>5, <2>3, <3>2
      <4> QED BY <1>1, <2>3, <4>1, <4>2 DEF IncludesInv, IncludesResults
    <3> QED BY <3>1, <3>2
  <2>4. \A f : IncludesFound(f)' = IncludesFound(f)
    BY IncludesSame
  <2> QED BY <2>2, <2>3, <2>4 DEF IncludesResults
<1> QED BY <1>7, <1>8, <1>9 DEF IncludesInv

LEMMA IncludesStep ==
  ASSUME IncludesStepped, Includes!Call \/ Includes!Next
  PROVE  IncludesInv'
BY IncludesCall, IncludesNotCandidate, IncludesBegin, IncludesUnaffected,
   IncludesFirstSearch, IncludesPopFirst, IncludesSecondSearch, IncludesPopSecond,
   IncludesSourceDone, IncludesPush DEF Includes!Next

LEMMA IncludesSameState ==
  ASSUME IncludesInv, includesInput' = includesInput, UNCHANGED includesVars
  PROVE  IncludesInv'
<1> USE DEF IncludesInv, includesVars
<1>1. Includes!TypeOK'
  BY DEF Includes!TypeOK
<1>2. PICK e, k, s, w : e = e_include /\ k = e_i /\ s = Source /\ w = Includes!includee
  OBVIOUS
<1>3. /\ e_include' = e /\ e_i' = k /\ Source' = s /\ Includes!includee' = w
      /\ Includes!includer' = Includes!includer
      /\ Seen' = Seen /\ Followed' = Followed
      /\ Includes!Without(e_include)' = Includes!Without(e)
      /\ Includes!IsCandidate(e_include)' <=> Includes!IsCandidate(e)
      /\ SavedUpTo(e_include, e_i - 1)' = SavedUpTo(e, k - 1)
  BY <1>2, IncludesSame
     DEF Source, Includes!includee, Includes!includer, Seen, Followed
<1>4. IncludesLoop' /\ IncludesResults'
  BY IncludesSame DEF IncludesLoop, IncludesResults
<1>5. IncludesBody' /\ IncludesFirst'
  BY <1>2, <1>3 DEF IncludesBody, IncludesFirst
<1>6. IncludesSecond'
  BY <1>2, <1>3, IncludesSame DEF IncludesSecond
<1> QED BY <1>1, <1>4, <1>5, <1>6

(* A build before the call leaves the analysis in its first state.         *)
LEMMA IncludesAlways == Spec => []IncludesInv
<1> DEFINE Typed == includesInput \in Includes!Input
<1>1. CalledRight => Typed
  BY InputsTyped
<1>2. Init /\ Typed => IncludesInv
  BY IncludesInit DEF Init
<1>3. Includes!Init /\ Typed => IncludesInv
  BY IncludesInit
<1>4. CalledRight /\ Typed /\ IncludesInv /\ [Next]_vars
        => (Includes!Init)' \/ IncludesInv'
  <2> SUFFICES ASSUME CalledRight, Typed, IncludesInv, [Next]_vars
               PROVE  (Includes!Init)' \/ IncludesInv'
    OBVIOUS
  <2>1. CASE Builds
    <3>1. Includes!Init /\ UNCHANGED includesVars
      BY <2>1 DEF Builds, CalledRight, BeforeIncludes, analyses
    <3> QED BY <3>1 DEF Includes!Init, Includes!Uninitialized, includesVars
  <2>2. CASE UNCHANGED resultVars
    <3>1. includesInput' = includesInput
      BY <2>2, Steps DEF resultVars, includesInput, true_cost, minimum_token_count_cut_off
    <3>2. CASE UNCHANGED includesVars
      BY <3>1, <3>2, IncludesSameState
    <3>3. CASE Includes!Call \/ Includes!Next
      BY <3>1, <3>3, IncludesStep DEF IncludesStepped
    <3> QED BY <2>2, <3>2, <3>3, Steps DEF Builds, analyses
  <2> QED BY <2>1, <2>2, Steps
<1> HIDE DEF Typed
<1>5. CalledRight /\ IncludesInv /\ [Next]_vars /\ CalledRight' => IncludesInv'
  BY <1>1, <1>3, <1>4, PTL
<1> QED BY <1>1, <1>2, <1>5, CalledRightAlways, PTL DEF Spec

LEMMA IncludesSearchesApart ==
  ASSUME includesInput \in Includes!Input, IncludesInv
  PROVE  SearchesApart
<1> DEFINE g == includesInput.graph
<1>1. SUFFICES ASSUME e_phase = "first"
               PROVE  /\ \A v \in Vertex : e_state[v] \in {"not_seen", "seen_initial"}
                      /\ e_stack = <<>> => e_state[Includes!includer] = "seen_initial"
  BY DEF SearchesApart, Includes!SearchesApart
<1>2. \A v \in Vertex : e_state[v] \in {"not_seen", "seen_initial"}
  BY <1>1 DEF IncludesInv, IncludesFirst
<1>3. ASSUME e_stack = <<>>
      PROVE  e_state[Includes!includer] = "seen_initial"
  <2>1. PICK e : /\ e \in Includes!Edges(g) /\ e_include = e /\ Includes!includer = e[1]
    BY <1>1, IncludesDirective
  <2>2. PICK s \in Vertex : s = Source
    BY <1>1, IncludesInputParts DEF IncludesInv, IncludesBody, Source
  <2>3. Search(Includes!Without(e), s, Seen, {}) /\ e[1] \in Reachable(g, s)
    BY <1>1, <1>3, <2>1, <2>2, SingletonQueue DEF IncludesInv, IncludesBody, IncludesFirst
  <2>4. Seen = Reachable(Includes!Without(e), s)
    BY <2>3, SearchEnds
  <2>5. e[1] \in Seen
    BY <2>1, <2>3, <2>4, DirectiveRemoved
  <2> QED BY <2>1, <2>5 DEF Seen
<1> QED BY <1>2, <1>3

LEMMA IncludesResultsRight ==
  ASSUME IncludesInv
  PROVE  Includes!ResultsRight
BY DEF IncludesInv, IncludesResults, IncludesFound, Includes!ResultsRight, Includes!Returned

(* The first search never meets a mark of the second, of this source or of *)
(* the one before, and always reaches the includer.                        *)
THEOREM SearchesApartAlways == Spec => []SearchesApart
<1>1. includesInput \in Includes!Input /\ IncludesInv => SearchesApart
  BY IncludesSearchesApart
<1> QED BY <1>1, IncludesAlways, InputsTypedAlways, PTL

(* run() reports the directives whose removal reaches the cutoff, with     *)
(* what the sources no longer include without them, and no other.          *)
THEOREM IncludesRightAlways == Spec => []IncludesRight
<1>1. IncludesInv => IncludesRight
  BY IncludesResultsRight DEF IncludesRight
<1> QED BY <1>1, IncludesAlways, PTL
=============================================================================
