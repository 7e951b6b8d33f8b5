--------------------------- MODULE MCReplacement ----------------------------
(***************************************************************************)
(* ReplacementEquivalence on the program families of MCBuildGraph.         *)
(***************************************************************************)
EXTENDS MCBuildGraph, ReplacementEquivalence
=============================================================================
