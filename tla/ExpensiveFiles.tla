---------------------------- MODULE ExpensiveFiles ----------------------------
(***************************************************************************)
(* find_expensive_files::from_graph: the reachability matrix is built, and *)
(* a parallel for_each over the files counts the sources that reach each   *)
(* of them.  The bodies that have a file to report push it to one vector,  *)
(* under a mutex: emplace_back finds the end of the vector, and then       *)
(* stores the element and the new end.  Costs are token counts.            *)
(***************************************************************************)
EXTENDS Integers, FiniteSets, Reachability

CONSTANTS
  Inputs,     \* what from_graph may be called with, next to the graph
  None        \* nobody holds the mutex

Input ==
  [sources : Seq(Vertex), true_cost : [Vertex -> Nat],
   is_external : SUBSET Vertex, minimum_token_count_cut_off : Nat]

ASSUME InputsAssumption == Inputs \subseteq Input
ASSUME NoneAssumption == None \notin Vertex

VARIABLES
  input,
  body,      \* of the loop for a file: waiting, reporting, emplacing, returned
  m,         \* the body that holds the mutex
  size,      \* the size of the vector, as the body for a file has read it
  results

loopVars == <<input, body, m, size, results>>

FilesInit ==
  /\ Init
  /\ input \in Inputs
  /\ body = [f \in Vertex |-> "waiting"]
  /\ m = None
  /\ size = [f \in Vertex |-> 0]
  /\ results = <<>>

\* Without sources nothing is done.
Asked == input.sources # <<>>

ConstructMatrix ==
  /\ Asked
  /\ \E v \in Vertex : Body(v)
  /\ UNCHANGED loopVars

Move(file, from, to) ==
  /\ Asked /\ Constructed
  /\ body[file] = from
  /\ body' = [body EXCEPT ![file] = to]

External(file) ==
  /\ file \in input.is_external
  /\ Move(file, "waiting", "returned")
  /\ UNCHANGED <<vars, input, m, size, results>>

\* Mutant: whether there is a source, not how many.
CountOne(file) ==
  IF \E i \in DOMAIN input.sources : is_reachable(input.sources[i], file)
  THEN 1 ELSE 0

reachable_count(file) ==
  Cardinality({i \in DOMAIN input.sources : is_reachable(input.sources[i], file)})

IsExpensive(file) ==
  reachable_count(file) * input.true_cost[file]
    >= input.minimum_token_count_cut_off

Count(file) ==
  /\ file \notin input.is_external
  /\ Move(file, "waiting", IF IsExpensive(file) THEN "reporting" ELSE "returned")
  /\ UNCHANGED <<vars, input, m, size, results>>

\* Mutant: there is no mutex to wait for.
LockAtOnce(file) ==
  /\ Move(file, "reporting", "emplacing")
  /\ m' = file
  /\ size' = [size EXCEPT ![file] = Len(results)]
  /\ UNCHANGED <<vars, input, results>>

Lock(file) ==
  /\ m = None
  /\ Move(file, "reporting", "emplacing")
  /\ m' = file
  /\ size' = [size EXCEPT ![file] = Len(results)]
  /\ UNCHANGED <<vars, input, results>>

Emplace(file) ==
  /\ Move(file, "emplacing", "returned")
  /\ results' = Append(SubSeq(results, 1, size[file]),
                       [node |-> file, sources |-> reachable_count(file)])
  /\ m' = None
  /\ UNCHANGED <<vars, input, size>>

Returned == Asked => \A f \in Vertex : body[f] = "returned"

Examine(file) == External(file) \/ Count(file) \/ Lock(file) \/ Emplace(file)

FilesNext ==
  \/ ConstructMatrix
  \/ \E file \in Vertex : Examine(file)
  \/ Returned /\ UNCHANGED <<vars, loopVars>>

\* Some thread of the pool goes on as long as one can.
FilesSpec ==
  FilesInit /\ [][FilesNext]_<<vars, loopVars>> /\ WF_<<vars, loopVars>>(FilesNext)

-----------------------------------------------------------------------------
\* The sources that include the file, directly or not.
Including(file) ==
  {i \in DOMAIN input.sources : file \in Reachable(dag, input.sources[i])}

Expensive(file) ==
  /\ file \notin input.is_external
  /\ Cardinality(Including(file)) * input.true_cost[file]
       >= input.minimum_token_count_cut_off

Todo == {f \in Vertex : Asked /\ body[f] # "returned"}

Outcome ==
  [f \in Vertex |->
     IF Expensive(f)
     THEN <<[node |-> f, sources |-> Cardinality(Including(f))]>>
     ELSE <<>>]

Loop == INSTANCE ParallelLoop WITH
  called <- Asked, todo <- Todo, outcome <- Outcome

(* find_expensive_files.hpp 34: the files whose cost, once for every       *)
(* source that includes them, reaches the cutoff are reported, with the    *)
(* number of those sources, each once: no push is lost, whatever bodies    *)
(* run at the same time, and the matrix is complete when it is read.       *)
FindsExpensive == Loop!Spec

(* from_graph returns.                                                     *)
FilesTermination == <>Returned
=============================================================================
