------------------------------- MODULE MCReport -------------------------------
(***************************************************************************)
(* Projects of five files, and calls of the tool for them.                 *)
(***************************************************************************)
EXTENDS Report

CONSTANTS Left, Right    \* directories

MCVertex == 1..5
MCDir == {Top, Left, Right}

\* Pairs <<source, header>> of files with one name: the source includes its
\* header.
Components(g, pairs) ==
  [v \in MCVertex |->
     {u \in MCVertex : \E p \in pairs : /\ p[2] \in ToSet(g[p[1]])
                                       /\ p \in {<<u, v>>, <<v, u>>}}]

Edges(g) == {<<v, k>> \in MCVertex \X (1..3) : k \in DOMAIN g[v]}

\* What the tool is called for with a compilation database.
With(g, pairs, sources) ==
  LET cs == Components(g, pairs) IN
  [graph |-> g, token_count |-> <<1, 2, 4, 8, 16>>, component |-> cs,
   is_external |-> {}, is_precompiled |-> {},
   not_removable |-> {e \in Edges(g) : g[e[1]][e[2]] \in cs[e[1]]},
   tree |-> [d \in MCDir |-> <<>>], is_source |-> {}, fails |-> {},
   database |-> sources, from |-> "p", cutoff |-> 20, pch_ratio |-> <<2, 1>>,
   analyze |-> TRUE, topological_order |-> TRUE]

Lists(S, max) == {s \in UNION {[1..n -> S] : n \in 0..max} : IsInjective(s)}

\* Files 1 to 4 that may all include each other, of which 3 is external, and
\* 2 and 4 are a component if 2 includes 4.
Cyclic ==
  {[With(g, {<<2, 4>>}, <<2, 1>>) EXCEPT !.is_external = {3}] :
     g \in {<<s1, s2, s3, s4, <<>>>> : s1 \in Lists(1..4, 2), s2 \in Lists(1..4, 1),
              s3 \in Lists({1, 2, 4}, 1), s4 \in Lists({1, 2}, 1)}}

\* Sources over external headers, which may be precompiled.
External ==
  {[With(<<s1, s2, <<4>>, s4, s5>>, {}, s) EXCEPT
      !.is_external = {4, 5}, !.is_precompiled = p, !.cutoff = c, !.pch_ratio = q,
      !.token_count = <<1, 1, 1, 2, 3>>] :
     s1 \in {<<>>, <<3, 5>>, <<4>>}, s2 \in {<<3>>, <<5, 4>>},
     s4 \in {<<>>, <<5>>}, s5 \in {<<>>, <<4>>},
     s \in {<<1, 2>>, <<2, 1, 3>>}, p \in {{}, {5}},
     c \in {0, 25, 50}, q \in {<<1, 2>>, <<3, 2>>}}

\* Two components, 1 with 3 and 2 with 4, over a file they may share.
Paired ==
  {[With(<<s1, s2, s3, s4, s5>>, {<<1, 3>>, <<2, 4>>}, <<1, 2>>) EXCEPT
      !.is_external = x] :
     s1 \in {<<3>>, <<3, 5>>, <<4, 3>>}, s2 \in {<<4>>, <<5, 4>>, <<3, 4>>},
     s3 \in {<<>>, <<5>>, <<4>>}, s4 \in {<<>>, <<5>>, <<3>>},
     s5 \in {<<>>, <<3>>, <<1>>}, x \in {{}, {5}}}

\* Directories side by side and in each other, and every other way to call the
\* tool.
One == With(<<<<3, 5>>, <<4, 5>>, <<>>, <<3>>, <<>>>>, {<<1, 3>>, <<2, 4>>}, <<1, 2>>)

Tree(top, left, right) ==
  [d \in MCDir |-> IF d = Top THEN top ELSE IF d = Left THEN left ELSE right]

Listings ==
  {[One EXCEPT !.from = "dir", !.is_source = {1, 2}, !.tree = t, !.fails = f] :
     t \in {Tree(<<1, Left>>, <<2, 4>>, <<>>),
           Tree(<<Left, 3, Right>>, <<1>>, <<2>>),
           Tree(<<2, Left, 1>>, <<Right>>, <<3>>),
           Tree(<<Left, 5>>, <<Right, 1>>, <<4, 2>>)},
     f \in {{}, {2}}}

Calls ==
  {[One EXCEPT !.from = "load", !.analyze = an, !.topological_order = t] :
     an \in BOOLEAN, t \in BOOLEAN}
  \cup {[One EXCEPT !.from = f] : f \in {"source", "nothing"}}
  \cup {[One EXCEPT !.cutoff = -1], [One EXCEPT !.cutoff = 101],
        [One EXCEPT !.pch_ratio = <<0, 1>>]}

MCProjects == Cyclic \cup External \cup Paired \cup Listings \cup Calls

\* One source that includes nothing but an external header.
OneExternal ==
  {[With(<<<<2>>, s2, <<>>, <<>>, <<>>>>, {}, <<1>>) EXCEPT !.is_external = {2}] :
     s2 \in {<<>>, <<3>>}}

\* These projects are such as the theorems of Run_proofs are about.
ASSUME AsProved ==
  \A p \in MCProjects \cup OneExternal :
    IsTree(p) /\ HeadersIncluded(p) /\ SourcesInternal(p)
=============================================================================
