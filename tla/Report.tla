-------------------------------- MODULE Report --------------------------------
(***************************************************************************)
(* run() of includeguardian.cpp: the options are checked, the include      *)
(* graph is loaded or built from the sources that are found, and one       *)
(* analysis after the other reports on it.  UnusedComponents,              *)
(* ExpensiveIncludes, RecommendPrecompiled, UnnecessarySources and         *)
(* TopologicalOrder are composed as they are.  What the preprocessor makes *)
(* of the sources is BuildGraph's subject: here the graph is the part of   *)
(* the project's that the sources reach.  find_expensive_headers and       *)
(* find_expensive_files run between these analyses and have modules of     *)
(* their own.  Sorting and printing the results is left out.  Costs are    *)
(* token counts.                                                           *)
(***************************************************************************)
EXTENDS Integers, FiniteSets, IncludeDigraph

CONSTANTS
  Projects,        \* the projects, and how the tool is called for them
  Dir, Top,        \* directories, and the one the tool is called for
  UnsignedWidth,
  None

ASSUME VertexAssumption == IsFiniteSet(Vertex) /\ Vertex = 1..Cardinality(Vertex)
ASSUME NoneAssumption == None \notin (Vertex \X Nat) \cup {0, 1}
ASSUME DirAssumption == Top \in Dir /\ Dir \cap Vertex = {}

Project ==
  [graph : AdjacencyList, token_count : [Vertex -> Nat],
   component : [Vertex -> SUBSET Vertex], is_external : SUBSET Vertex,
   is_precompiled : SUBSET Vertex,
   not_removable : SUBSET (Vertex \X (Nat \ {0})),
   tree : [Dir -> Seq(Dir \cup Vertex)],    \* the entries of directories
   is_source : SUBSET Vertex,               \* by map_ext
   fails : SUBSET Vertex,                   \* what clang cannot preprocess
   database : Seq(Vertex),                  \* what is loaded or detected
   \* The command line.
   from : {"load", "p", "dir", "source", "nothing"},
   cutoff : Int, pch_ratio : Nat \X (Nat \ {0}),    \* a fraction
   analyze : BOOLEAN, topological_order : BOOLEAN]

ASSUME ProjectsAssumption == Projects \subseteq Project

\* component is an optional.
ASSUME ComponentAssumption ==
  \A p \in Projects : \A v \in Vertex : \A h, k \in p.component[v] : h = k

\* An unsigned has more than one value.
ASSUME WidthAssumption == 2 ^ UnsignedWidth \in Nat /\ 2 ^ UnsignedWidth > 1

VARIABLES
  project,
  stage,         \* what run() is doing
  directories,   \* directories.back() last
  dir_copy,      \* the directory that is listed
  entries,       \* what is left of it
  unlisted,      \* the directories in which an error has occurred
  m_sources,     \* the sources for the build
  result,        \* of the build
  project_cost,
  exit_code,     \* None until run() returns
  u_called, u_left, u_results,
  e_reach, e_phase, e_left, e_include, e_i, e_state, e_stack, e_savings, e_saved,
  e_results,
  r_phase, r_left, r_file, r_newly, r_state, r_stack, r_i, r_r, r_results,
  s_reach, s_phase, s_left, s_b, s_reachable, s_stack, s_number, s_only,
  s_saving, s_i, s_seen, s_count, s_total, s_extra, s_results,
  t_phase, t_components, t_round, t_levels, t_output

listVars == <<directories, dir_copy, entries, unlisted, m_sources>>
resultVars == <<result, project_cost>>
unusedVars == <<u_called, u_left, u_results>>
includesVars == <<e_reach, e_phase, e_left, e_include, e_i, e_state, e_stack,
                  e_savings, e_saved, e_results>>
pchVars == <<r_phase, r_left, r_file, r_newly, r_state, r_stack, r_i, r_r,
             r_results>>
sourcesVars == <<s_reach, s_phase, s_left, s_b, s_reachable, s_stack, s_number,
                 s_only, s_saving, s_i, s_seen, s_count, s_total, s_extra, s_results>>
orderVars == <<t_phase, t_components, t_round, t_levels, t_output>>
analyses == <<unusedVars, includesVars, pchVars, sourcesVars, orderVars>>
vars == <<project, stage, listVars, resultVars, exit_code, analyses>>

-----------------------------------------------------------------------------
(* The result of the build, and what the analyses are called with. *)

\* The part of the project the sources reach.  Every other file is not in the
\* graph: it is kept as an external file without edges, which no analysis
\* considers.
ResultOf(found) ==
  LET in == UNION {Reachable(project.graph, v) : v \in ToSet(found)} IN
  [graph |-> [v \in Vertex |-> IF v \in in THEN project.graph[v] ELSE <<>>],
   sources |-> found,
   component |-> [v \in Vertex |->
                    IF v \in in THEN project.component[v] \cap in ELSE {}],
   is_external |-> project.is_external \cup (Vertex \ in),
   internal_incoming |->
     [v \in Vertex |-> Cardinality({u \in in \ project.is_external :
                                     v \in ToSet(project.graph[u])})]]

true_cost ==
  [v \in Vertex |->
     IF v \in project.is_precompiled THEN 0 ELSE project.token_count[v]]

\* get_total_cost::from_graph: TotalCost shows what it returns.
TotalCostOf(found) ==
  LET of(v) == SumFunctionOnSet(true_cost, Reachable(project.graph, v))
  IN SumFunction([p \in DOMAIN found |-> of(found[p])])

minimum_token_count_cut_off == (project_cost * project.cutoff) \div 100

unusedInput ==
  [graph |-> result.graph, sources |-> result.sources, true_cost |-> true_cost,
   component |-> result.component, included_by_at_most |-> 0,
   minimum_token_count_cut_off |-> 10]

includesInput ==
  [graph |-> result.graph, sources |-> result.sources, true_cost |-> true_cost,
   is_external |-> result.is_external,
   not_removable |-> project.not_removable,
   minimum_token_count_cut_off |-> minimum_token_count_cut_off]

pchInput ==
  [graph |-> result.graph, sources |-> result.sources,
   cost |-> project.token_count,
   internal_incoming |-> result.internal_incoming,
   is_external |-> result.is_external,
   is_precompiled |-> project.is_precompiled,
   minimum_token_count_cut_off |-> minimum_token_count_cut_off,
   minimum_saving_ratio |-> project.pch_ratio]

sourcesInput ==
  [graph |-> result.graph, sources |-> result.sources, true_cost |-> true_cost,
   component |-> result.component, is_external |-> result.is_external,
   minimum_token_count_cut_off |-> minimum_token_count_cut_off]

orderInput ==
  [graph |-> result.graph, sources |-> result.sources,
   component |-> result.component, is_external |-> result.is_external]

Unused == INSTANCE UnusedComponents WITH
  input <- unusedInput, called <- u_called, left <- u_left, results <- u_results

Includes == INSTANCE ExpensiveIncludes WITH
  input <- includesInput, reach <- e_reach, phase <- e_phase, left <- e_left,
  include <- e_include, i <- e_i, m_state <- e_state, m_stack <- e_stack,
  savings <- e_savings, saved <- e_saved, results <- e_results

Pch == INSTANCE RecommendPrecompiled WITH
  input <- pchInput, phase <- r_phase, left <- r_left, file <- r_file,
  newly_precompiled <- r_newly, state <- r_state, stack <- r_stack,
  i <- r_i, r <- r_r, results <- r_results

Sources == INSTANCE UnnecessarySources WITH
  input <- sourcesInput, reach <- s_reach, phase <- s_phase, left <- s_left,
  b <- s_b, reachable <- s_reachable, stack <- s_stack, number <- s_number,
  only <- s_only, saving <- s_saving, i <- s_i, seen <- s_seen,
  count <- s_count, total <- s_total, extra <- s_extra, results <- s_results

Order == INSTANCE TopologicalOrder WITH
  input <- orderInput, phase <- t_phase, component_map <- t_components,
  round <- t_round, levels <- t_levels, output <- t_output

Init ==
  /\ project \in Projects
  /\ stage = "options"
  /\ directories = <<>> /\ dir_copy = Top /\ entries = <<>> /\ unlisted = {}
  /\ m_sources = <<>>
  /\ result = ResultOf(<<>>) /\ project_cost = 0
  /\ exit_code = None
  /\ Unused!Init /\ Includes!Init /\ Pch!Init /\ Sources!Init /\ Order!Init

Exit(code) == stage' = "exited" /\ exit_code' = code

-----------------------------------------------------------------------------
(* The options. *)

Rejected ==
  \/ project.cutoff < 0 \/ project.cutoff > 100
  \/ project.pch_ratio[1] = 0

RejectOptions ==
  /\ stage = "options"
  /\ Rejected
  /\ Exit(1)
  /\ UNCHANGED <<project, listVars, resultVars, analyses>>

AcceptOptions(next) ==
  /\ stage = "options"
  /\ ~Rejected
  /\ stage' = next
  /\ UNCHANGED <<project, dir_copy, entries, unlisted, exit_code, analyses>>

Result(found) ==
  /\ result' = ResultOf(found)
  /\ project_cost' = TotalCostOf(found)

\* The result of an earlier build.
Load ==
  /\ project.from = "load"
  /\ AcceptOptions("built")
  /\ Result(project.database)
  /\ UNCHANGED <<directories, m_sources>>

\* Without a database there is one without files.
ReadDatabase ==
  /\ project.from \in {"p", "source", "nothing"}
  /\ AcceptOptions("build")
  /\ m_sources' = IF project.from = "nothing" THEN <<>> ELSE project.database
  /\ UNCHANGED <<directories, resultVars>>

StartListing ==
  /\ project.from = "dir"
  /\ AcceptOptions("listing")
  /\ directories' = <<Top>>
  /\ UNCHANGED <<m_sources, resultVars>>

-----------------------------------------------------------------------------
(* ReplacementCompilationDatabase: the sources of a directory. *)

\* An error of the file system ends the directory; otherwise it goes on with
\* these entries.
GoesOn(dir, next) ==
  \/ entries' = <<>> /\ unlisted' = unlisted \cup {dir}
  \/ entries' = next /\ UNCHANGED unlisted

OpenDirectory ==
  LET dir == Last(directories) IN
  /\ stage = "listing"
  /\ entries = <<>> /\ directories # <<>>
  /\ directories' = Front(directories)
  /\ dir_copy' = dir
  /\ GoesOn(dir, project.tree[dir])
  /\ UNCHANGED <<project, stage, m_sources, resultVars, exit_code, analyses>>

\* Mutant: the directory that is found takes the place of the one to be listed
\* next.
PushedInstead(dir) ==
  Append(IF directories = <<>> THEN <<>> ELSE Front(directories), dir)

Pushed(dir) == Append(directories, dir)

NextEntry ==
  LET entry == Head(entries) IN
  /\ stage = "listing"
  /\ entries # <<>>
  /\ directories' = IF entry \in Dir THEN Pushed(entry) ELSE directories
  /\ m_sources' = IF entry \in project.is_source THEN Append(m_sources, entry)
                  ELSE m_sources
  /\ GoesOn(dir_copy, Tail(entries))
  /\ UNCHANGED <<project, stage, dir_copy, resultVars, exit_code, analyses>>

Listed ==
  /\ stage = "listing"
  /\ entries = <<>> /\ directories = <<>>
  /\ stage' = "build"
  /\ UNCHANGED <<project, listVars, resultVars, exit_code, analyses>>

-----------------------------------------------------------------------------
(* The build and the analyses. *)

\* One translation unit that fails fails the tool.
BuildFails ==
  /\ stage = "build"
  /\ ToSet(m_sources) \cap project.fails # {}
  /\ Exit(1)
  /\ UNCHANGED <<project, listVars, resultVars, analyses>>

Build ==
  /\ stage = "build"
  /\ ToSet(m_sources) \cap project.fails = {}
  /\ stage' = "built"
  /\ Result(m_sources)
  /\ UNCHANGED <<project, listVars, exit_code, analyses>>

AfterAnalysis ==
  /\ IF project.topological_order
     THEN stage' = "topological order" /\ UNCHANGED exit_code
     ELSE Exit(0)
  /\ UNCHANGED <<project, listVars, resultVars, analyses>>

Analyze ==
  /\ stage = "built"
  /\ project.analyze
  /\ stage' = "unreferenced components"
  /\ UNCHANGED <<project, listVars, resultVars, exit_code, analyses>>

SkipAnalysis == stage = "built" /\ ~project.analyze /\ AfterAnalysis

UnreferencedComponents ==
  /\ stage = "unreferenced components"
  /\ UNCHANGED <<project, listVars, resultVars, exit_code, includesVars, pchVars,
                 sourcesVars, orderVars>>
  /\ \/ (Unused!Call \/ Unused!Next) /\ UNCHANGED stage
     \/ Unused!Returned /\ stage' = "include directives" /\ UNCHANGED unusedVars

IncludeDirectives ==
  /\ stage = "include directives"
  /\ UNCHANGED <<project, listVars, resultVars, exit_code, unusedVars, pchVars, sourcesVars,
                 orderVars>>
  /\ \/ (Includes!Call \/ Includes!Next) /\ UNCHANGED stage
     \/ Includes!Returned /\ stage' = "pch additions" /\ UNCHANGED includesVars

PchAdditions ==
  /\ stage = "pch additions"
  /\ UNCHANGED <<project, listVars, resultVars, exit_code, unusedVars, includesVars,
                 sourcesVars, orderVars>>
  /\ \/ (Pch!Call \/ Pch!Next) /\ UNCHANGED stage
     \/ Pch!Returned /\ stage' = "inline sources" /\ UNCHANGED pchVars

InlineSources ==
  /\ stage = "inline sources"
  /\ \/ /\ UNCHANGED <<project, stage, listVars, resultVars, exit_code, unusedVars,
                       includesVars, pchVars, orderVars>>
        /\ Sources!Call \/ Sources!Next
     \/ Sources!Returned /\ AfterAnalysis

TopologicalOrder ==
  /\ stage = "topological order"
  /\ UNCHANGED <<project, listVars, resultVars, unusedVars, includesVars, pchVars,
                 sourcesVars>>
  /\ \/ (Order!Call \/ Order!Next) /\ UNCHANGED <<stage, exit_code>>
     \/ Order!Returned /\ Exit(0) /\ UNCHANGED orderVars

Exited == stage = "exited" /\ UNCHANGED vars

Next ==
  \/ RejectOptions \/ Load \/ ReadDatabase \/ StartListing
  \/ OpenDirectory \/ NextEntry \/ Listed
  \/ BuildFails \/ Build
  \/ Analyze \/ SkipAnalysis
  \/ UnreferencedComponents \/ IncludeDirectives \/ PchAdditions
  \/ InlineSources \/ TopologicalOrder
  \/ Exited

\* run() is sequential, and of its parallel loops some body can go on.
Spec == Init /\ [][Next]_vars /\ WF_vars(Next)

-----------------------------------------------------------------------------
TypeOK ==
  /\ stage \in {"options", "listing", "build", "built",
                "unreferenced components", "include directives",
                "pch additions", "inline sources", "topological order",
                "exited"}
  /\ directories \in Seq(Dir) /\ dir_copy \in Dir
  /\ entries \in Seq(Dir \cup Vertex)
  /\ unlisted \subseteq Dir /\ m_sources \in Seq(Vertex)
  /\ exit_code \in {None, 0, 1}
  /\ Unused!TypeOK /\ Includes!TypeOK /\ Pch!TypeOK /\ Sources!TypeOK
  /\ Order!TypeOK

\* The directory, and those below it, at any depth.
DirectoriesBelow(dir) ==
  {d \in Dir : \A S \in SUBSET Dir :
     /\ dir \in S
     /\ \A e \in S : ToSet(project.tree[e]) \cap Dir \subseteq S
     => d \in S}

Below(v, dir) ==
  \E d \in DirectoriesBelow(dir) : v \in ToSet(project.tree[d])

\* Every entry is in one directory, once, and Top is in none.
IsTree(p) ==
  /\ \A d, e \in Dir : \A j \in DOMAIN p.tree[d], k \in DOMAIN p.tree[e] :
       p.tree[d][j] = p.tree[e][k] => d = e /\ j = k
  /\ \A d \in Dir : Top \notin ToSet(p.tree[d])

\* The files that may become sources of the build.
SourcesOf(p) == p.is_source \cup ToSet(p.database)

\* Every source includes its header.
HeadersIncluded(p) ==
  \A v \in SourcesOf(p) : p.component[v] \subseteq ToSet(p.graph[v])

\* A main file is never external (build_graph.cpp 458).
SourcesInternal(p) == SourcesOf(p) \cap p.is_external = {}

(* A report on a directory is on every source below it, once, but for the  *)
(* sources that have a directory above them in which an error occurred:    *)
(* nothing else is lost with it.  No report is on a part of the sources    *)
(* because a translation unit failed.                                      *)
EverySourceAnalysed ==
  exit_code = 0 /\ project.from = "dir" =>
    /\ IsInjective(result.sources)
    /\ \A v \in project.is_source :
         Below(v, Top) /\ (\A dir \in unlisted : ~Below(v, dir))
           => v \in ToSet(result.sources) \ project.fails

(* The analyses keep what they promise when they run on one result, one    *)
(* after the other, with the cutoffs that run() passes: the components     *)
(* that are reported as unreferenced,                                      *)
FindsUnused == Unused!FindsUnused

(* the include directives that are reported, with their savings,           *)
IncludesRight == exit_code = 0 => Includes!ResultsRight

(* the marks of the two searches behind a saving,                          *)
SearchesApart == Includes!SearchesApart

(* what precompiling a header adds to the precompiled header,              *)
MarkedRight == Pch!MarkedRight

(* that the headers recommended for it pay, with savings that are not      *)
(* overstated (recommend_precompiled.hpp 54-57),                           *)
OnlyPaying == Pch!OnlyPaying

(* and that none is missing which all sources but the first pay for,       *)
NoneMissed == exit_code = 0 => Pch!NoneMissed

(* the sources that are reported as unnecessary,                           *)
FindsUnnecessary == Sources!FindsUnnecessary

(* the levels of the topological order,                                    *)
LevelsRight == Order!LevelsRight

(* and the groups that have a source and its header.                       *)
ComponentsTogether == Order!ComponentsTogether

(* run() returns.                                                          *)
Termination == <>(stage = "exited")

(* recommend_precompiled.hpp 49 and 55: the saving of a file that is       *)
(* recommended is the sum over all sources.                                *)
SavingRight == Pch!SavingRight

(* topological_order.hpp 12: all files are listed.                         *)
AllListed == Order!AllListed
=============================================================================
