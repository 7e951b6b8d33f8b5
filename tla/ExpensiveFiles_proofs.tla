----------------------- MODULE ExpensiveFiles_proofs ------------------------
(***************************************************************************)
(* find_expensive_files reports what it promises for every graph, all      *)
(* sources and every interleaving of its bodies: its parallel loop         *)
(* implements ParallelLoop.  The matrix it reads is reachability_graph's,  *)
(* whose constructor is correct for every graph and every interleaving of  *)
(* the bodies of its own loop.                                             *)
(***************************************************************************)
EXTENDS ExpensiveFiles, IncludeDigraph_proofs, FiniteSetTheorems, TLAPS

-----------------------------------------------------------------------------
(* The matrix.                                                             *)

(* A step of the loop keeps the types of its state.                        *)
LEMMA StepKeepsTypes ==
  ASSUME TypeOK, [Next]_vars
  PROVE  TypeOK'
<1> USE DEF TypeOK
<1>1. CASE UNCHANGED vars
  BY <1>1 DEF vars
<1>2. ASSUME NEW v \in Vertex, Start(v) PROVE TypeOK'
  BY <1>2 DEF Start
<1>3. ASSUME NEW v \in Vertex, Visit(v) PROVE TypeOK'
  <2>1. /\ Head(vs[v]) \in Vertex
        /\ Tail(vs[v]) \in Seq(Vertex)
        /\ dag[Head(vs[v])] \in Seq(Vertex)
    BY <1>3, HeadInSeq DEF Visit, AdjacencyList
  <2>2. Tail(vs[v]) \o dag[Head(vs[v])] \in Seq(Vertex)
    BY <2>1, ConcatInSeq
  <2> QED BY <1>3, <2>1, <2>2 DEF Visit
<1>4. ASSUME NEW v \in Vertex, Done(v) PROVE TypeOK'
  BY <1>4 DEF Done
<1> QED BY <1>1, <1>2, <1>3, <1>4 DEF Next, Body, Return

(* The state of the loop keeps its types: every index a body uses is a     *)
(* vertex of the graph.                                                    *)
THEOREM TypeCorrect == Spec => []TypeOK
<1>1. Init => TypeOK
  BY GraphsAssumption DEF Init, TypeOK
<1>2. TypeOK /\ [Next]_vars => TypeOK'
  BY StepKeepsTypes
<1> QED BY <1>1, <1>2, PTL DEF Spec

-----------------------------------------------------------------------------
(* A step of one body leaves the rows of the others alone.                 *)
LEMMA OtherRows ==
  ASSUME TypeOK, NEW v \in Vertex, Body(v), NEW w \in Vertex, w # v,
         RowInvariant(w)
  PROVE  RowInvariant(w)'
<1>1. UNCHANGED <<dag, state[w], vs[w], m_paths[w]>>
  BY DEF TypeOK, Body, Start, Visit, Done
<1> QED BY <1>1 DEF RowInvariant, Found, NotStarted

LEMMA StartKeepsRow ==
  ASSUME TypeOK, NEW v \in Vertex, Start(v), RowInvariant(v)
  PROVE  RowInvariant(v)'
<1>1. /\ dag' = dag /\ state'[v] = "searching"
      /\ vs'[v] = <<v>> /\ m_paths'[v] = {}
  BY DEF TypeOK, Start, RowInvariant, NotStarted
<1>2. Found(v)' = {v}
  BY <1>1, SingletonQueue DEF Found
<1> QED BY <1>1, <1>2, ReachesItself DEF RowInvariant, TypeOK

LEMMA VisitKeepsRow ==
  ASSUME TypeOK, NEW v \in Vertex, Visit(v), RowInvariant(v)
  PROVE  RowInvariant(v)'
<1> DEFINE u == Head(vs[v])
           rest == Tail(vs[v])
<1>1. /\ u \in Vertex /\ rest \in Seq(Vertex)
      /\ ToSet(vs[v]) = {u} \cup ToSet(rest)
      /\ dag[u] \in Seq(Vertex)
  BY HeadInSeq DEF TypeOK, Visit, AdjacencyList
<1>2. /\ dag' = dag /\ state'[v] = "searching"
      /\ m_paths'[v] = m_paths[v] \cup {u}
      /\ vs'[v] = IF u \notin m_paths[v] THEN rest \o dag[u] ELSE rest
  BY DEF TypeOK, Visit, CarryOn
<1>3. ToSet(vs'[v]) = IF u \notin m_paths[v] THEN ToSet(rest) \cup ToSet(dag[u])
                      ELSE ToSet(rest)
  <2> HIDE DEF u, rest
  <2>1. ToSet(rest \o dag[u]) = ToSet(rest) \cup ToSet(dag[u])
    BY <1>1, ConcatInSeq
  <2> QED BY <1>2, <2>1
<1>4. Found(v)' = m_paths[v] \cup {u} \cup ToSet(vs'[v])
  BY <1>2 DEF Found
<1>5. Found(v) \subseteq Found(v)'
  BY <1>1, <1>3, <1>4 DEF Found
<1>6. u \in Reachable(dag, v)
  BY <1>1 DEF RowInvariant, Found
<1>7. Found(v)' \subseteq Reachable(dag, v)
  <2>1. Found(v)' \subseteq Found(v) \cup ToSet(dag[u])
    BY <1>1, <1>3, <1>4 DEF Found
  <2> QED BY <2>1, <1>6, ReachesSuccessors DEF RowInvariant, TypeOK
<1>8. ToSet(dag[u]) \subseteq Found(v)'
  <2>1. CASE u \in m_paths[v]
    BY <2>1, <1>5 DEF RowInvariant
  <2>2. CASE u \notin m_paths[v]
    BY <2>2, <1>3, <1>4
  <2> QED BY <2>1, <2>2
<1>9. v \in Found(v)'
  BY <1>5 DEF RowInvariant, Visit
<1> QED BY <1>2, <1>5, <1>7, <1>8, <1>9 DEF RowInvariant

LEMMA DoneKeepsRow ==
  ASSUME TypeOK, NEW v \in Vertex, Done(v), RowInvariant(v)
  PROVE  RowInvariant(v)'
<1>1. /\ UNCHANGED <<dag, vs[v], m_paths[v]>>
      /\ state[v] = "searching" /\ state'[v] = "done" /\ vs[v] = <<>>
  BY DEF TypeOK, Done
<1> QED BY <1>1 DEF RowInvariant, Found

(* No search has found anything before its body starts.                    *)
LEMMA RowsStartRight == Init => SearchInvariant
BY SingletonQueue
DEF Init, SearchInvariant, RowInvariant, Found, NotStarted

(* A step of the loop keeps what is true of every row.                     *)
LEMMA StepKeepsRows ==
  ASSUME TypeOK, SearchInvariant, [Next]_vars
  PROVE  SearchInvariant'
<1>1. CASE UNCHANGED vars
  BY <1>1 DEF vars, SearchInvariant, RowInvariant, Found, NotStarted
<1>2. ASSUME NEW v \in Vertex, Body(v), NEW w \in Vertex
      PROVE  RowInvariant(w)'
  <2>1. CASE w # v
    BY <1>2, <2>1, OtherRows DEF SearchInvariant
  <2>2. CASE w = v
    BY <1>2, <2>2, StartKeepsRow, VisitKeepsRow, DoneKeepsRow
    DEF Body, SearchInvariant
  <2> QED BY <2>1, <2>2
<1> QED BY <1>1, <1>2 DEF Next, Return, SearchInvariant

(* Between any two steps of any bodies, every row accounts for the         *)
(* successors of what it has marked.                                       *)
THEOREM SearchCorrect == Spec => []SearchInvariant
<1>1. TypeOK /\ SearchInvariant /\ [Next]_vars => SearchInvariant'
  BY StepKeepsRows
<1> QED BY <1>1, RowsStartRight, TypeCorrect, PTL DEF Spec

(* What is marked is reachable, and all of it is marked in the end.        *)
LEMMA RowsAreSound == SearchInvariant => Sound
BY DEF SearchInvariant, RowInvariant, Found, Sound, is_reachable

LEMMA RowsAreComplete == TypeOK /\ SearchInvariant => Complete
<1> SUFFICES ASSUME TypeOK, SearchInvariant, NEW v \in Vertex,
                    state[v] = "done"
             PROVE  Reachable(dag, v) \subseteq m_paths[v]
  BY DEF Complete
<1>1. Found(v) = m_paths[v] /\ v \in m_paths[v]
  BY SingletonQueue DEF SearchInvariant, RowInvariant, Found
<1>2. Closed(dag, m_paths[v])
  BY <1>1 DEF SearchInvariant, RowInvariant, Closed
<1> QED BY <1>1, <1>2, ReachesOnlyClosed DEF TypeOK

(* is_reachable answers TRUE only for what the graph has a path to, while  *)
(* the matrix is built and afterwards.                                     *)
THEOREM MatrixSound == Spec => []Sound
BY RowsAreSound, SearchCorrect, PTL

(* When its body has returned, is_reachable answers TRUE for all that the  *)
(* graph has a path to: with MatrixSound, the matrix is the reachability   *)
(* relation.                                                               *)
THEOREM MatrixComplete == Spec => []Complete
BY RowsAreComplete, SearchCorrect, TypeCorrect, PTL

-----------------------------------------------------------------------------
(* The loop over the files.                                                *)

allVars == <<vars, loopVars>>

FilesTypeOK ==
  /\ TypeOK
  /\ input \in Input
  /\ body \in [Vertex -> {"waiting", "reporting", "emplacing", "returned"}]
  /\ m \in Vertex \cup {None}
  /\ size \in [Vertex -> Nat]
  /\ results \in Seq([node : Vertex, sources : Nat])

(* The body that emplaces holds the mutex, and the end it has read still   *)
(* is the end of the vector.                                               *)
MutexHeld ==
  \A f \in Vertex : body[f] = "emplacing" => m = f /\ size[f] = Len(results)

(* Only bodies that have something to report wait for the mutex or hold it.*)
OnlyExpensive ==
  \A f \in Vertex : body[f] \in {"reporting", "emplacing"} => Expensive(f)

LoopInvariant ==
  FilesTypeOK /\ SearchInvariant /\ MutexHeld /\ OnlyExpensive

-----------------------------------------------------------------------------
(* The matrix is not touched by the loop over the files, so what is proved *)
(* of its constructor holds of the whole.                                  *)
LEMMA MatrixStep == [FilesNext]_allVars => [Next]_vars
BY DEF FilesNext, allVars, ConstructMatrix, Examine, External, Count, Lock,
       Emplace, Next

(* The number of sources a body counts is a number.                        *)
LEMMA CountIsNatural ==
  ASSUME input \in Input, NEW S \in SUBSET DOMAIN input.sources
  PROVE  Cardinality(S) \in Nat
<1>1. Len(input.sources) \in Nat /\ DOMAIN input.sources = 1..Len(input.sources)
  BY DEF Input
<1>2. IsFiniteSet(1..Len(input.sources))
  BY <1>1, FS_Interval
<1>3. IsFiniteSet(S)
  BY <1>1, <1>2, FS_Subset
<1> QED BY <1>3, FS_CardinalityType

(* A body counts the sources that include its file, for it reads the       *)
(* matrix when it is finished.                                             *)
LEMMA CountsIncluding ==
  ASSUME FilesTypeOK, SearchInvariant, Constructed, NEW f \in Vertex
  PROVE  reachable_count(f) = Cardinality(Including(f))
<1>1. Sound /\ Complete
  BY RowsAreSound, RowsAreComplete DEF FilesTypeOK
<1>2. \A i \in DOMAIN input.sources : input.sources[i] \in Vertex
  BY DEF FilesTypeOK, Input
<1>3. \A i \in DOMAIN input.sources :
        is_reachable(input.sources[i], f)
          <=> f \in Reachable(dag, input.sources[i])
  BY <1>1, <1>2 DEF Sound, Complete, Constructed, is_reachable
<1> QED BY <1>3 DEF reachable_count, Including

(* What the body that holds the mutex stores: nothing it found is lost.    *)
LEMMA EmplaceAppends ==
  ASSUME FilesTypeOK, MutexHeld, NEW f \in Vertex, Emplace(f)
  PROVE  results' = Append(results, [node |-> f, sources |-> reachable_count(f)])
<1>1. size[f] = Len(results)
  BY DEF MutexHeld, Emplace, Move
<1>2. results \in Seq([node : Vertex, sources : Nat])
  BY DEF FilesTypeOK
<1>3. SubSeq(results, 1, Len(results)) = results
  BY <1>2
<1> QED BY <1>1, <1>3 DEF Emplace

-----------------------------------------------------------------------------
(* The types of the loop's state hold from one step to the next.           *)
LEMMA FilesTypes ==
  ASSUME FilesTypeOK, MutexHeld, [FilesNext]_allVars
  PROVE  FilesTypeOK'
<1> DEFINE LoopTypes ==
      /\ input \in Input
      /\ body \in [Vertex -> {"waiting", "reporting", "emplacing", "returned"}]
      /\ m \in Vertex \cup {None}
      /\ size \in [Vertex -> Nat]
      /\ results \in Seq([node : Vertex, sources : Nat])
<1>1. TypeOK'
  BY MatrixStep, StepKeepsTypes DEF FilesTypeOK
<1>2. CASE UNCHANGED loopVars
  BY <1>1, <1>2 DEF FilesTypeOK, loopVars
<1>3. ASSUME NEW f \in Vertex, External(f) PROVE LoopTypes'
  BY <1>3 DEF External, Move, FilesTypeOK
<1>4. ASSUME NEW f \in Vertex, Count(f) PROVE LoopTypes'
  <2>1. (IF IsExpensive(f) THEN "reporting" ELSE "returned")
          \in {"waiting", "reporting", "emplacing", "returned"}
    OBVIOUS
  <2> QED BY <1>4, <2>1 DEF Count, Move, FilesTypeOK
<1>5. ASSUME NEW f \in Vertex, Lock(f) PROVE LoopTypes'
  <2>1. Len(results) \in Nat
    BY DEF FilesTypeOK
  <2> QED BY <1>5, <2>1 DEF Lock, Move, FilesTypeOK
<1>6. ASSUME NEW f \in Vertex, Emplace(f) PROVE LoopTypes'
  <2>1. reachable_count(f) \in Nat
    BY CountIsNatural DEF reachable_count, FilesTypeOK
  <2> DEFINE result == [node |-> f, sources |-> reachable_count(f)]
             Result == [node : Vertex, sources : Nat]
  <2>2. results' \in Seq(Result)
    <3>1. result \in Result /\ results \in Seq(Result)
      BY <2>1 DEF FilesTypeOK
    <3>2. results' = Append(results, result)
      BY <1>6, EmplaceAppends
    <3> HIDE DEF result, Result
    <3> QED BY <3>1, <3>2
  <2> QED BY <1>6, <2>2 DEF Emplace, Move, FilesTypeOK
<1>7. CASE \E f \in Vertex : Examine(f)
  <2>1. LoopTypes'
    BY <1>3, <1>4, <1>5, <1>6, <1>7 DEF Examine
  <2> QED BY <1>1, <2>1 DEF FilesTypeOK
<1> QED BY <1>2, <1>7 DEF FilesNext, ConstructMatrix, allVars, loopVars

(* What there is to report of a file does not change while the loop runs.  *)
LEMMA OutcomeIsFixed ==
  ASSUME [FilesNext]_allVars
  PROVE  /\ dag' = dag /\ input' = input
         /\ \A f \in Vertex : Including(f)' = Including(f)
                             /\ Expensive(f)' = Expensive(f)
<1>1. dag' = dag /\ input' = input
  BY DEF FilesNext, allVars, vars, loopVars, ConstructMatrix, Body, Start, Visit,
         Done, Examine, External, Count, Lock, Emplace, Move
<1> QED BY <1>1 DEF Including, Expensive

(* The mutex keeps all bodies but one from the vector.                     *)
LEMMA MutexStep ==
  ASSUME FilesTypeOK, MutexHeld, [FilesNext]_allVars
  PROVE  MutexHeld'
<1>1. CASE UNCHANGED loopVars
  BY <1>1 DEF MutexHeld, loopVars
<1>2. ASSUME NEW f \in Vertex, External(f) \/ Count(f) PROVE MutexHeld'
  <2>1. UNCHANGED <<m, size, results>>
    BY <1>2 DEF External, Count
  <2>2. \A g \in Vertex : body'[g] = "emplacing" => body[g] = "emplacing"
    BY <1>2 DEF External, Count, Move, FilesTypeOK
  <2> QED BY <2>1, <2>2 DEF MutexHeld
<1>3. ASSUME NEW f \in Vertex, Lock(f) PROVE MutexHeld'
  <2>1. \A g \in Vertex : body[g] # "emplacing"
    BY <1>3, NoneAssumption DEF Lock, MutexHeld
  <2>2. \A g \in Vertex : body'[g] = "emplacing" => g = f
    BY <1>3, <2>1 DEF Lock, Move, FilesTypeOK
  <2>3. m' = f /\ size'[f] = Len(results) /\ results' = results
    BY <1>3 DEF Lock, FilesTypeOK
  <2> QED BY <2>2, <2>3 DEF MutexHeld
<1>4. ASSUME NEW f \in Vertex, Emplace(f) PROVE MutexHeld'
  <2>1. body[f] = "emplacing"
    BY <1>4 DEF Emplace, Move
  <2>2. \A g \in Vertex : body[g] = "emplacing" => g = f
    BY <2>1 DEF MutexHeld
  <2>3. \A g \in Vertex : body'[g] # "emplacing"
    BY <1>4, <2>2 DEF Emplace, Move, FilesTypeOK
  <2> QED BY <2>3 DEF MutexHeld
<1> QED BY <1>1, <1>2, <1>3, <1>4
        DEF FilesNext, ConstructMatrix, Examine, allVars, loopVars

(* A body waits for the mutex only if it has something to report.          *)
LEMMA ExpensiveStep ==
  ASSUME FilesTypeOK, SearchInvariant, OnlyExpensive, [FilesNext]_allVars
  PROVE  OnlyExpensive'
<1>1. CASE UNCHANGED loopVars
  BY <1>1, OutcomeIsFixed DEF OnlyExpensive, loopVars
<1>2. ASSUME NEW f \in Vertex, External(f) \/ Lock(f) \/ Emplace(f)
      PROVE  OnlyExpensive'
  <2>1. \A g \in Vertex : body'[g] \in {"reporting", "emplacing"}
                            => body[g] \in {"reporting", "emplacing"}
    BY <1>2 DEF External, Lock, Emplace, Move, FilesTypeOK
  <2> QED BY <2>1, OutcomeIsFixed DEF OnlyExpensive
<1>3. ASSUME NEW f \in Vertex, Count(f) PROVE OnlyExpensive'
  <2>1. body'[f] = "reporting" => Expensive(f)
    <3>1. body'[f] = IF IsExpensive(f) THEN "reporting" ELSE "returned"
      BY <1>3 DEF Count, Move, FilesTypeOK
    <3>2. f \notin input.is_external /\ Constructed
      BY <1>3 DEF Count, Move
    <3> QED BY <3>1, <3>2, CountsIncluding DEF IsExpensive, Expensive
  <2>2. body'[f] # "emplacing"
    BY <1>3 DEF Count, Move, FilesTypeOK
  <2>3. \A g \in Vertex : g # f => body'[g] = body[g]
    BY <1>3 DEF Count, Move, FilesTypeOK
  <2> QED BY <2>1, <2>2, <2>3, OutcomeIsFixed DEF OnlyExpensive
<1> QED BY <1>1, <1>2, <1>3
        DEF FilesNext, ConstructMatrix, Examine, allVars, loopVars

(* The invariant of the whole analysis: the mutex guards the vector, and   *)
(* the matrix is sound and complete when a body reads it.                  *)
THEOREM LoopCorrect == FilesSpec => []LoopInvariant
<1>1. FilesInit => LoopInvariant
  <2> SUFFICES ASSUME FilesInit PROVE LoopInvariant
    OBVIOUS
  <2>1. TypeOK
    BY GraphsAssumption DEF FilesInit, Init, TypeOK
  <2>2. FilesTypeOK
    BY <2>1, InputsAssumption DEF FilesInit, FilesTypeOK
  <2>3. MutexHeld /\ OnlyExpensive
    BY DEF FilesInit, MutexHeld, OnlyExpensive
  <2> QED BY <2>2, <2>3, RowsStartRight DEF FilesInit, LoopInvariant
<1>2. LoopInvariant /\ [FilesNext]_allVars => LoopInvariant'
  <2> SUFFICES ASSUME LoopInvariant, [FilesNext]_allVars PROVE LoopInvariant'
    OBVIOUS
  <2>1. FilesTypeOK' /\ MutexHeld' /\ OnlyExpensive'
    BY FilesTypes, MutexStep, ExpensiveStep DEF LoopInvariant
  <2>2. SearchInvariant'
    BY MatrixStep, StepKeepsRows DEF LoopInvariant, FilesTypeOK
  <2> QED BY <2>1, <2>2 DEF LoopInvariant
<1> QED BY <1>1, <1>2, PTL DEF FilesSpec, allVars

(* The matrix the bodies read is the reachability relation once it is      *)
(* constructed, whatever threads constructed it.                           *)
THEOREM MatrixExact == FilesSpec => [](Sound /\ Complete)
<1>1. LoopInvariant => Sound /\ Complete
  BY RowsAreSound, RowsAreComplete DEF LoopInvariant, FilesTypeOK
<1> QED BY <1>1, LoopCorrect, PTL

-----------------------------------------------------------------------------
(* Adding an element at the end, and adding none.                          *)
LEMMA AppendIsConcat ==
  ASSUME NEW S, NEW q \in Seq(S), NEW x \in S
  PROVE  Append(q, x) = q \o <<x>> /\ q \o <<>> = q
OBVIOUS

(* A body that has nothing to report returns and leaves the results alone. *)
LEMMA SilentBody ==
  ASSUME FilesTypeOK, NEW f \in Vertex, Asked, body[f] # "returned",
         ~Expensive(f), input' = input, results' = results,
         body' = [body EXCEPT ![f] = "returned"]
  PROVE  Loop!Body(f)
<1>1. f \in Todo /\ Todo' = Todo \ {f}
  BY DEF Todo, FilesTypeOK, Asked
<1>2. results' = results \o Outcome[f]
  BY DEF Outcome, FilesTypeOK
<1>3. Asked' = Asked
  BY DEF Asked
<1> QED BY <1>1, <1>2, <1>3 DEF Loop!Body, Todo, Outcome

(* Every step of the analysis is one body of the abstract loop, or none.   *)
LEMMA StepImplements ==
  ASSUME LoopInvariant, [FilesNext]_allVars
  PROVE  [Loop!Next]_<<Asked, Todo, results>>
<1>1. FilesTypeOK /\ SearchInvariant /\ MutexHeld /\ OnlyExpensive
  BY DEF LoopInvariant
<1>2. CASE UNCHANGED loopVars
  BY <1>2 DEF loopVars, Asked, Todo
<1>3. ASSUME NEW f \in Vertex, External(f) PROVE Loop!Next
  <2>1. Loop!Body(f)
    BY <1>1, <1>3, SilentBody DEF External, Move, Expensive
  <2> QED BY <2>1, <1>3 DEF Loop!Next, Loop!Body
<1>4. ASSUME NEW f \in Vertex, Count(f)
      PROVE  [Loop!Next]_<<Asked, Todo, results>>
  <2>1. reachable_count(f) = Cardinality(Including(f))
    BY <1>1, <1>4, CountsIncluding DEF Count, Move
  <2>2. CASE IsExpensive(f)
    <3>1. /\ input' = input /\ results' = results
          /\ \A g \in Vertex : body'[g] # "returned" <=> body[g] # "returned"
      BY <1>1, <1>4, <2>2 DEF Count, Move, FilesTypeOK
    <3> QED BY <3>1 DEF Asked, Todo
  <2>3. CASE ~IsExpensive(f)
    <3>1. ~Expensive(f)
      BY <2>1, <2>3 DEF IsExpensive, Expensive
    <3>2. Loop!Body(f)
      BY <1>1, <1>4, <2>3, <3>1, SilentBody DEF Count, Move
    <3> QED BY <3>2 DEF Loop!Next, Loop!Body
  <2> QED BY <2>2, <2>3
<1>5. ASSUME NEW f \in Vertex, Lock(f)
      PROVE  UNCHANGED <<Asked, Todo, results>>
  <2>1. /\ input' = input /\ results' = results
        /\ \A g \in Vertex : body'[g] # "returned" <=> body[g] # "returned"
    BY <1>1, <1>5 DEF Lock, Move, FilesTypeOK
  <2> QED BY <2>1 DEF Asked, Todo
<1>6. ASSUME NEW f \in Vertex, Emplace(f) PROVE Loop!Next
  <2>1. reachable_count(f) = Cardinality(Including(f))
    BY <1>1, <1>6, CountsIncluding DEF Emplace, Move
  <2>2. Expensive(f)
    BY <1>1, <1>6 DEF Emplace, Move, OnlyExpensive
  <2>3. results' = results \o Outcome[f]
    <3>1. Outcome[f] = <<[node |-> f, sources |-> reachable_count(f)]>>
      BY <2>1, <2>2 DEF Outcome
    <3> DEFINE result == [node |-> f, sources |-> reachable_count(f)]
               Result == [node : Vertex, sources : Nat]
    <3>2. reachable_count(f) \in Nat
      BY <1>1, CountIsNatural DEF reachable_count, FilesTypeOK
    <3>3. result \in Result /\ results \in Seq(Result)
      BY <1>1, <3>2 DEF FilesTypeOK
    <3>4. results' = Append(results, result)
      BY <1>1, <1>6, EmplaceAppends
    <3> HIDE DEF result, Result
    <3>5. Append(results, result) = results \o <<result>>
      BY <3>3, AppendIsConcat
    <3> QED BY <3>1, <3>4, <3>5 DEF result
  <2>4. /\ Asked /\ Asked' = Asked /\ body[f] = "emplacing"
        /\ body' = [body EXCEPT ![f] = "returned"]
    BY <1>6 DEF Emplace, Move, Asked
  <2>5. f \in Todo /\ Todo' = Todo \ {f}
    BY <1>1, <2>4 DEF Todo, FilesTypeOK
  <2> QED BY <2>3, <2>4, <2>5 DEF Loop!Next, Loop!Body
<1> QED BY <1>2, <1>3, <1>4, <1>5, <1>6
        DEF FilesNext, ConstructMatrix, Examine, allVars, loopVars

(* find_expensive_files reports every file that reaches the cutoff, with   *)
(* the number of the sources that include it, once, and no other, whatever *)
(* bodies run at the same time.                                            *)
THEOREM ReportsExpensive == FilesSpec => FindsExpensive
<1>1. FilesInit => Loop!Init
  BY DEF FilesInit, Loop!Init, Loop!Begun, Loop!Before, Asked, Todo, Outcome
<1>2. LoopInvariant /\ [FilesNext]_allVars => [Loop!Next]_<<Asked, Todo, results>>
  BY StepImplements
<1> QED BY <1>1, <1>2, LoopCorrect, PTL
        DEF FilesSpec, FindsExpensive, Loop!Spec, allVars
=============================================================================
