----------------------- MODULE ReplacementEquivalence -----------------------
(***************************************************************************)
(* One program analysed twice: with or without replace_file_optimization,  *)
(* and then without it.  build_graph.test.cpp runs every test both ways    *)
(* and expects the same graph (lines 1070-1073).                           *)
(***************************************************************************)
EXTENDS BuildGraph

VARIABLES
  off_phase, off_abort, off_started, off_frames, off_predefines, off_pending,
  off_macros, off_once, off_controlling, off_lexed, off_stack, off_accounted,
  off_id_to_node, off_needs_replacing, off_replaced, off_nodes, off_edges,
  off_sources, off_unguarded, off_missing, off_overwrites

offVars ==
  <<off_phase, off_abort, off_started, off_frames, off_predefines, off_pending,
    off_macros, off_once, off_controlling, off_lexed, off_stack, off_accounted,
    off_id_to_node, off_needs_replacing, off_replaced, off_nodes, off_edges,
    off_sources, off_unguarded, off_missing, off_overwrites>>

\* The same analysis on variables of its own.
Off == INSTANCE BuildGraph WITH
  program <- [program EXCEPT !.replace_file_optimization = FALSE],
  phase <- off_phase, abort <- off_abort, started <- off_started,
  frames <- off_frames, predefines <- off_predefines, pending <- off_pending,
  macros <- off_macros, once <- off_once, controlling <- off_controlling,
  lexed <- off_lexed, m_stack <- off_stack, accounted <- off_accounted,
  id_to_node <- off_id_to_node, m_needs_replacing <- off_needs_replacing,
  m_replaced <- off_replaced, nodes <- off_nodes, edges <- off_edges,
  sources <- off_sources, unguarded_files <- off_unguarded,
  missing_includes <- off_missing, overwrites <- off_overwrites

InitBoth == Init /\ Off!Init

BothStopped == Stopped /\ Off!Stopped

NextBoth ==
  \/ ~Stopped /\ Next /\ UNCHANGED offVars
  \/ Stopped /\ ~Off!Stopped /\ UNCHANGED vars /\ Off!Next
  \/ BothStopped /\ UNCHANGED <<vars, offVars>>

SpecBoth == InitBoth /\ [][NextBoth]_<<vars, offVars>>

\* A result up to the numbering of the vertices.
NodesOf(ns) ==
  {[ns[v] EXCEPT !.component = IF @ = 0 THEN NoFile ELSE ns[@].path] :
     v \in DOMAIN ns}
EdgesOf(es, ns) ==
  {<<ns[e.from].path, ns[e.to].path, e.is_removable>> : e \in es}
PathsOf(vs, ns) == {ns[v].path : v \in vs}

(* The optimization is not observable: the same files, costs, flags, edges *)
(* and lists are returned with it and without it.                          *)
SameResult ==
  BothStopped =>
    /\ abort = off_abort
    /\ NodesOf(nodes) = NodesOf(off_nodes)
    /\ EdgesOf(edges, nodes) = EdgesOf(off_edges, off_nodes)
    /\ PathsOf(unguarded_files, nodes) = PathsOf(off_unguarded, off_nodes)
    /\ missing_includes = off_missing
=============================================================================
