------------------------ MODULE BuildGraphProperties ------------------------
(***************************************************************************)
(* What must be true of the include graph while build_graph.cpp builds it  *)
(* and of the result it returns.                                           *)
(***************************************************************************)
EXTENDS BuildGraph, SequencesExt

(* The state stays within the types of build_graph.cpp and graph.hpp.      *)
TypeOK ==
  /\ program \in Program
  /\ phase \in {"idle", "preprocess", "end", "finished"}
  /\ abort \in {"none", "source_inserted", "include_not_inserted", "cost_unset"}
  /\ started \in Nat
  /\ frames \in Seq(Frame)
  /\ predefines \in Seq({Include(f) : f \in File})
  /\ pending \in File \cup {NoFile}
  /\ macros \subseteq MacroName
  /\ once \subseteq File /\ controlling \subseteq File
  /\ lexed \in Nat /\ accounted \in Nat
  /\ m_stack \in Seq(InProgress)
  /\ DOMAIN id_to_node \subseteq UniqueID
  /\ \A u \in DOMAIN id_to_node : id_to_node[u] \in FileState
  /\ DOMAIN m_needs_replacing \subseteq UniqueID
  /\ \A u \in DOMAIN m_needs_replacing : m_needs_replacing[u] \in ReplaceWith
  /\ m_replaced \subseteq Nat
  /\ nodes \in Seq(Node)
  /\ edges \subseteq Edge
  /\ sources \in Seq(Nat)
  /\ unguarded_files \subseteq Nat
  /\ missing_includes \subseteq File
  /\ DOMAIN overwrites \subseteq File
  /\ \A f \in DOMAIN overwrites : overwrites[f] \in Seq(Item)

-----------------------------------------------------------------------------
(* Invariants of the scan. *)

(* The asserts at lines 487, 492 and 851: the files in progress are the    *)
(* files on clang's include stack, and every one of them, and the file     *)
(* about to be entered, has its entry and its vertex, under the id the     *)
(* file system gives it now.                                               *)
StackInSync ==
  /\ Len(m_stack) = Len(frames)
  /\ \A i \in DOMAIN m_stack :
       /\ m_stack[i].id = UniqueIDOf(frames[i].file)
       /\ m_stack[i].id \in DOMAIN id_to_node
  /\ pending # NoFile => UniqueIDOf(pending) \in DOMAIN id_to_node
  /\ phase = "end" => Len(m_stack) = 1

(* UniqueIdToNode identifies files with vertices: a file has one vertex,   *)
(* found under its current id, a vertex has one file, and moving an entry  *)
(* to the id of the replacement loses neither.                             *)
VerticesIdentified ==
  /\ \A u \in DOMAIN id_to_node :
       /\ id_to_node[u].v \in DOMAIN nodes
       /\ nodes[id_to_node[u].v].path = u[1]
       /\ u = UniqueIDOf(u[1])
  /\ \A v \in DOMAIN nodes :
       \E u \in DOMAIN id_to_node : id_to_node[u].v = v

(* internal_incoming and external_incoming count the include edges from    *)
(* internal and from external files, and no pair of files has two edges,   *)
(* however often an unguarded file repeats its directives.                 *)
IncomingCounted ==
  \A v \in DOMAIN nodes :
    LET In(external) ==
          {e \in edges : e.to = v /\ nodes[e.from].is_external = external}
    IN /\ nodes[v].internal_incoming = Cardinality(In(FALSE))
       /\ nodes[v].external_incoming = Cardinality(In(TRUE))
       /\ Cardinality(In(FALSE) \cup In(TRUE)) =
            Cardinality({e.from : e \in In(FALSE) \cup In(TRUE)})

(* A file whose contents were swapped is guarded and completely known:     *)
(* nothing of it is still to be learnt from the contents that are gone.    *)
ReplacedIsKnown ==
  /\ DOMAIN overwrites = {nodes[v].path : v \in m_replaced}
  /\ \A f \in DOMAIN overwrites :
       LET state == id_to_node[UniqueIDOf(f)]
       IN state.fully_processed /\ nodes[state.v].is_guarded

(* Nothing is taken back: vertices and edges stay, a file stays processed, *)
(* guarded and replaced, a replacement keeps its contents, and no more     *)
(* tokens are accounted for than were lexed.                               *)
Processed(map, nodeOf) == {nodeOf[map[u].v].path :
                            u \in {w \in DOMAIN map : map[w].fully_processed}}
Grows ==
  /\ \A v \in DOMAIN nodes : /\ v \in DOMAIN nodes'
                             /\ nodes'[v].path = nodes[v].path
                             /\ nodes[v].is_guarded => nodes'[v].is_guarded
  /\ edges \subseteq edges'
  /\ m_replaced \subseteq m_replaced'
  /\ \A f \in DOMAIN overwrites :
       f \in DOMAIN overwrites' /\ overwrites'[f] = overwrites[f]
  /\ Processed(id_to_node, nodes) \subseteq Processed(id_to_node', nodes')
  /\ accounted' <= lexed'
OnlyGrows == [][Grows]_vars

-----------------------------------------------------------------------------
(* Properties of the programs that the tool is made for. *)

(***************************************************************************)
(* A program the tool is made for: an include directive is in no group     *)
(* that a macro excludes, a conditional is the guard of its file and comes *)
(* first, nobody but a file defines its guard macro, and a source is       *)
(* listed once and included by nothing.                                    *)
(***************************************************************************)
Conditional == {"if", "ifndef"}

Plain(p) ==
  /\ \A f \in File : \A i \in DOMAIN p.script[f] :
       LET item == p.script[f][i] IN
       /\ item.op = "include" => /\ item.needs = {} /\ item.lacks = {}
                                 /\ item.file \notin ToSet(p.sources)
       /\ item.op \in Conditional => i = 1
       /\ item.op = "define" /\ item.macro \in File => item.macro = f
  /\ ToSet(p.forced) \cap ToSet(p.sources) = {}
  /\ p.macros \cap File = {}
  /\ IsInjective(p.sources)

(* No assertion fails: a source has not been met when it starts (line 449),*)
(* a processed guarded file includes nothing new when it is met again      *)
(* (line 622), and the cost of a file is recorded once (line 563).         *)
NoAssertionFails == abort = "none"

(* The cost of a guarded file is recorded once, when its first visit ends. *)
GuardedCostIsFinal ==
  [][\A v \in DOMAIN nodes :
       nodes[v].is_guarded =>
         nodes'[v].underlying_cost = nodes[v].underlying_cost]_vars

(* A file that has been left is either marked guarded or reported as       *)
(* unguarded, never both and never neither (lines 530-568).                *)
GuardedOrReported ==
  \A u \in DOMAIN id_to_node :
    id_to_node[u].fully_processed =>
      (nodes[id_to_node[u].v].is_guarded <=>
         id_to_node[u].v \notin unguarded_files)

(* graph.hpp 58-62: the component of a file is its counterpart, so it is   *)
(* the component of its component, as long as no third file has its stem:  *)
(* line 711 looks at one side only before it sets both.                    *)
AtMostTwo(S) == \A f, g, h \in S : f = g \/ f = h \/ g = h

SameStem(f) == {g \in File : program.stem[g] = program.stem[f]}

ComponentsPaired ==
  \A v \in DOMAIN nodes :
    nodes[v].component # 0 /\ AtMostTwo(SameStem(nodes[v].path))
      => nodes[nodes[v].component].component = v

-----------------------------------------------------------------------------
(***************************************************************************)
(* The result against the program.  The directives of the program are the  *)
(* include items of its scripts and the forced includes of its sources.    *)
(***************************************************************************)
EffectiveScript(f) ==
  IF f \in ToSet(program.sources)
  THEN [i \in DOMAIN program.forced |-> Include(program.forced[i])]
         \o program.script[f]
  ELSE program.script[f]

FilesIncludedBy(f) ==
  {item.file : item \in {x \in ToSet(EffectiveScript(f)) : x.op = "include"}}
    \ program.absent

Directives ==
  UNION {{<<f, g>> : g \in FilesIncludedBy(f)} : f \in File}

\* The directives in the graph.
Recorded == {<<nodes[e.from].path, nodes[e.to].path>> : e \in edges}

Promise == INSTANCE IncludeGraph WITH
  directives <- Directives,
  mains <- program.sources,
  recorded <- Recorded,
  finished <- phase = "finished"

(* The graph is the include graph: every edge is a directive of a file     *)
(* some started source reaches, and in the end no directive of such a file *)
(* is missing, with replacements or without.                               *)
PromiseKept == Promise!Spec

(***************************************************************************)
(* The cost of a file: its own, and that of its unguarded includes, every  *)
(* time they are included (lines 536-539), unless a pragma overrides it.   *)
(***************************************************************************)
IsGuardedScript(s) ==
  \/ \E i \in DOMAIN s : s[i].op = "once"
  \/ Len(s) > 0 /\ s[1].op = "ifndef"

FirstConditional(s) == s # <<>> /\ s[1].op \in Conditional

\* f includes itself, directly or not: it is in every set of files that has
\* what f includes, and what they include.
Closes(p, S, f) ==
  \A d \in File \ p.absent : Include(d) \in ToSet(p.script[f]) => d \in S

IncludesItself(p, f) ==
  \A S \in SUBSET File :
    Closes(p, S, f) /\ (\A g \in S : Closes(p, S, g)) => f \in S

(***************************************************************************)
(* A program of which clang judges a file the same at every visit: a file  *)
(* that tests its guard first is not on a cycle of includes, and no macro  *)
(* excludes a guard.                                                       *)
(***************************************************************************)
Settled(p) ==
  \A f \in File :
    LET s == p.script[f] IN
    /\ FirstConditional(s) /\ IsGuardedScript(s) => ~IncludesItself(p, f)
    /\ \A i \in DOMAIN s :
         s[i].op \in Conditional \cup {"once"} =>
           s[i].needs = {} /\ s[i].lacks = {}

PushesItsCost(item) ==
  /\ item.op = "include"
  /\ item.file \notin program.absent
  /\ ~IsGuardedScript(program.script[item.file])

SumOver(s, Amount(_)) == FoldLeft(LAMBDA sum, item : sum + Amount(item), 0, s)

(***************************************************************************)
(* A program in which the cost of a file ends: no file pushes its cost to  *)
(* itself, through others or not, and a header that tests its guard first  *)
(* has a guard that all compilers know.  No macro excludes an override.    *)
(***************************************************************************)
Pushes(p, f, d) ==
  /\ d \notin p.absent /\ ~IsGuardedScript(p.script[d])
  /\ \E i \in DOMAIN p.script[f] :
       p.script[f][i].op = "include" /\ p.script[f][i].file = d

Measured(p) ==
  /\ \A S \in (SUBSET File) \ {{}} : \E f \in S : \A d \in S : ~Pushes(p, f, d)
  /\ \A f \in File :
       /\ f \notin ToSet(p.sources) /\ FirstConditional(p.script[f])
            => IsGuardedScript(p.script[f])
       /\ \A i \in DOMAIN p.script[f] :
            p.script[f][i].op = "override_size" =>
              p.script[f][i].needs = {} /\ p.script[f][i].lacks = {}

\* What an override item of the script sets, or what is summed up otherwise.
Overridden(s, op, sum) ==
  LET is == {i \in DOMAIN s : s[i].op = op}
  IN IF is = {} THEN sum ELSE s[CHOOSE i \in is : \A j \in is : j <= i].n

ExpectedSize[f \in File] ==
  LET Amount(item) == IF PushesItsCost(item) THEN ExpectedSize[item.file] ELSE 0
  IN Overridden(program.script[f], "override_size",
                program.size[f] + SumOver(EffectiveScript(f), Amount))

ExpectedTokens[f \in File] ==
  LET Amount(item) ==
        IF item.op = "tokens" THEN item.n
        ELSE IF PushesItsCost(item) THEN ExpectedTokens[item.file] ELSE 0
  IN Overridden(program.script[f], "override_tokens",
                SumOver(EffectiveScript(f), Amount))

\* The vertices that keep their own cost.
CostedVertices ==
  {v \in DOMAIN nodes : v \in ToSet(sources) \/ nodes[v].is_guarded}

(* The file size of every source and guarded file is complete: what its    *)
(* unguarded includes pushed to it is neither lost nor counted twice.      *)
FileSizesComplete ==
  phase = "finished" =>
    \A v \in DOMAIN nodes :
      nodes[v].underlying_cost.file_size =
        IF v \in CostedVertices THEN ExpectedSize[nodes[v].path] ELSE 0

(* So is its token count.                                                  *)
TokensComplete ==
  phase = "finished" =>
    \A v \in DOMAIN nodes :
      nodes[v].underlying_cost.token_count =
        IF v \in CostedVertices THEN ExpectedTokens[nodes[v].path] ELSE 0

(* A token is counted for one file at most: of what lines 481 and 368 take *)
(* from the preprocessor's count, m_accounted_for_token_count leaves out   *)
(* what another file has got already.                                      *)
TokensNotCountedTwice ==
  phase = "finished" =>
    \A v \in DOMAIN nodes :
      nodes[v].underlying_cost.token_count <=
        IF v \in CostedVertices THEN ExpectedTokens[nodes[v].path] ELSE 0

-----------------------------------------------------------------------------
(* What any program keeps of NoAssertionFails and GuardedOrReported. *)

\* f has a directive for d, whether a macro excludes it or not.
Names(f, d) ==
  \E i \in DOMAIN program.script[f] :
    program.script[f][i].op = "include" /\ program.script[f][i].file = d

\* A source a second command or an include directive names as well.
NamedTwice(f) ==
  \/ Cardinality({i \in DOMAIN program.sources : program.sources[i] = f}) > 1
  \/ f \in ToSet(program.forced)
  \/ \E g \in File : Names(g, f)

\* f is in every set that has the files it names, and those they name.
OnCycle(f) ==
  \A S \in SUBSET File :
    (\A g \in S \cup {f} : \A d \in File : Names(g, d) => d \in S) => f \in S

(* An assertion fails for one reason only: those of lines 449 and 563 for  *)
(* a source that is listed twice or included, the one of line 622 at a     *)
(* directive that depends on a macro.                                      *)
AssertionsExplained ==
  /\ abort = "source_inserted" => NamedTwice(NextSource)
  /\ abort = "include_not_inserted" =>
       Head(Remaining).needs # {} \/ Head(Remaining).lacks # {}
  /\ abort = "cost_unset" =>
       Head(frames).file \in ToSet(program.sources)
         /\ NamedTwice(Head(frames).file)

(* A file that has been left is neither marked guarded nor reported, or    *)
(* both, only if it is on a cycle of includes and tests a macro first, so  *)
(* that its visits judge it differently (lines 541-545).                   *)
GuardsLostOnCyclesOnly ==
  \A u \in DOMAIN id_to_node :
    LET v == id_to_node[u].v IN
    id_to_node[u].fully_processed
      /\ ~(nodes[v].is_guarded <=> v \notin unguarded_files)
        => OnCycle(u[1]) /\ FirstConditional(program.script[u[1]])
=============================================================================
