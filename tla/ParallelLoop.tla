----------------------------- MODULE ParallelLoop -----------------------------
(***************************************************************************)
(* What the analyses promise of their std::for_each(std::execution::par):  *)
(* the bodies run in any order, and each of them adds what there is to     *)
(* report of its element to the results, once.  An element is reported at  *)
(* most once, so its outcome is a sequence of no or one result.            *)
(***************************************************************************)
EXTENDS Sequences

VARIABLES
  called,    \* whether from_graph has been called
  outcome,   \* what there is to report of every element: it never changes
  todo,      \* the elements nothing has been reported of yet
  results

Begun == called /\ todo = DOMAIN outcome /\ results = <<>>
Before == ~called /\ todo = {} /\ results = <<>>

Init == Begun \/ Before

Call == Before /\ (Begun' \/ Before')

Body(e) ==
  /\ called
  /\ e \in todo
  /\ todo' = todo \ {e}
  /\ results' = results \o outcome[e]
  /\ UNCHANGED called

Next == Call \/ \E e \in todo : Body(e)

Spec == Init /\ [][Next]_<<called, todo, results>>
=============================================================================
