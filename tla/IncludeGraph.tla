---------------------------- MODULE IncludeGraph ----------------------------
(***************************************************************************)
(* What build_graph promises of result::graph and result::sources: the     *)
(* graph records include directives of files that a started source         *)
(* reaches, and when the result is returned it records all of them.        *)
(***************************************************************************)
EXTENDS Naturals, Sequences

VARIABLES
  directives,  \* the include directives of the program, as pairs of files
  mains,       \* its sources
  started,     \* how many of them have been started
  recorded,    \* the directives in the graph
  finished

vars == <<directives, mains, started, recorded, finished>>

\* The files the graph knows about.
Known ==
  {mains[i] : i \in 1..started} \cup {d[2] : d \in recorded}

Init == started = 0 /\ recorded = {} /\ finished = FALSE

Start ==
  /\ ~finished
  /\ started < Len(mains)
  /\ started' = started + 1
  /\ UNCHANGED <<directives, mains, recorded, finished>>

Record ==
  /\ ~finished
  /\ \E d \in directives :
       d[1] \in Known /\ recorded' = recorded \cup {d}
  /\ UNCHANGED <<directives, mains, started, finished>>

Finish ==
  /\ started = Len(mains)
  /\ \A d \in directives : d[1] \in Known => d \in recorded
  /\ finished' = TRUE
  /\ UNCHANGED <<directives, mains, started, recorded>>

Next == Start \/ Record \/ Finish

Spec == Init /\ [][Next]_vars
=============================================================================
